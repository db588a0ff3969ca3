---------------------------- MODULE Fetch_proofs ----------------------------
(***************************************************************************)
(* The loop buffer of RiscvCore returns what instruction memory holds, for *)
(* every word width, size and program that LoopSafe admits.  With          *)
(* Refinement_proofs, the refinement of ISA depends on the program alone,  *)
(* and on where its register jumps go.                                     *)
(***************************************************************************)
EXTENDS Refinement_proofs, LoopSafe

(* Register jumps go forward: the next instruction to take effect is no    *)
(* JALR with a target that LoopSafe does not reckon with.                  *)
JumpsForward ==
  LET i == Arch!Instruction
  IN i.opcode = "JALR" => Arch!NextPc(i, arch_pc, arch_x) \in Targets(imem, arch_pc)

-----------------------------------------------------------------------------
(* The inductive invariant, part by part *)

(* Fetch goes to whole words. *)
AlignedPath ==
  pc_if \in Addresses /\ if_id_r.pc \in Addresses /\ id_ex_r.pc \in Addresses

(* A predictor entry holds a target of the instruction it belongs to. *)
EntryTargets ==
  \A a \in Addresses :
    btb_valid[idx(a)] /\ btb_tag[idx(a)] = tag(a) => btb[idx(a)] \in Targets(imem, a)

(* So does an instruction that was predicted taken with it. *)
TargetPredicted(r) ==
  r.valid /\ r.pred_taken => r.pred_target \in Targets(imem, r.pc)

(* The entry of e is in use for e. *)
EntryOf(e) == btb_valid[idx(e)] /\ btb_tag[idx(e)] = tag(e)

(* When an instruction was predicted taken and has lost its entry since,   *)
(* it has not lost it to a loop branch.                                    *)
EntryKept(r) ==
  r.valid /\ r.pred_taken /\ btb_tag[idx(r.pc)] # tag(r.pc) =>
    \A e \in LoopBranches(imem) : idx(e) = idx(r.pc) => btb_tag[idx(e)] # tag(e)

PredictionInv ==
  /\ AlignedPath /\ EntryTargets
  /\ TargetPredicted(if_id_r) /\ TargetPredicted(id_ex_r)
  /\ EntryKept(if_id_r) /\ EntryKept(id_ex_r)

(* In a recording or a replay: *)
InLoop == state_q \in {"RECORDING", "LOOPING"}
loop_branch == loop_end_q - 4

(* ... the buffer tracks a loop of the program and fetch is in its body; *)
LoopTracked ==
  InLoop =>
    /\ loop_branch \in LoopBranches(imem)
    /\ loop_start_q \in LoopStarts(imem, loop_branch)
    /\ loop_start_q <= pc_if /\ pc_if <= loop_branch

(* ... the slots written so far hold the body up to where fetch is;        *)
SlotsRecorded ==
  InLoop =>
    /\ \A k \in 0 .. write_ptr_q - 1 : buffer[k] = InstrAt(loop_start_q + 4 * k)
    /\ state_q = "RECORDING" => pc_if = loop_start_q + 4 * write_ptr_q
    /\ state_q = "LOOPING" => loop_end_q = loop_start_q + 4 * write_ptr_q

(* ... the loop branch is predicted taken to the start;                    *)
LoopPredicted ==
  InLoop => /\ EntryOf(loop_branch) /\ bht[idx(loop_branch)] >= 2
            /\ btb[idx(loop_branch)] = loop_start_q

(* ... and nothing but the loop branch is about to train its entry.        *)
OnlyLoopBranchTrains(r) ==
  InLoop /\ r.valid /\ IsControlFlow(imem, r.pc) /\ idx(r.pc) = idx(loop_branch) =>
    r.pc = loop_branch /\ r.pred_taken /\ r.pred_target = loop_start_q

LoopInv ==
  /\ LoopTracked /\ SlotsRecorded /\ LoopPredicted
  /\ OnlyLoopBranchTrains(if_id_r) /\ OnlyLoopBranchTrains(id_ex_r)

-----------------------------------------------------------------------------
(* Addresses *)

LEMMA AddressIff ==
  ASSUME NEW a PROVE a \in Addresses <=> a \in Word /\ a % 4 = 0
<1>1. Modulus \in Nat /\ Modulus % 4 = 0
  BY WordAssumption DEF Modulus
<1>2. ASSUME a \in Addresses PROVE a \in Word /\ a % 4 = 0
  <2>1. PICK w \in 0 .. (Modulus \div 4) - 1 : a = 4 * w
    BY <1>2 DEF Addresses
  <2> QED
    BY <1>1, <2>1 DEF Word
<1>3. ASSUME a \in Word, a % 4 = 0 PROVE a \in Addresses
  <2>1. a \div 4 \in 0 .. (Modulus \div 4) - 1 /\ a = 4 * (a \div 4)
    BY <1>1, <1>3 DEF Word
  <2> QED
    BY <2>1 DEF Addresses
<1> QED
  BY <1>2, <1>3

LEMMA ZeroAddress == 0 \in Addresses
BY AddressIff, ModulusFacts

LEMMA Plus4Address ==
  ASSUME NEW a \in Addresses
  PROVE  /\ a \in Word /\ Plus4(a) \in Addresses
         /\ a # Modulus - 4 => Plus4(a) = a + 4
<1>1. Modulus \in Nat /\ Modulus > 4 /\ Modulus % 4 = 0
  BY WordAssumption DEF Modulus
<1>2. a \in Nat /\ a < Modulus /\ a % 4 = 0
  BY AddressIff, <1>1 DEF Word
<1>3. CASE a = Modulus - 4
  <2>1. Plus4(a) = 0
    BY <1>1, <1>3 DEF Plus4, Wrap
  <2> QED
    BY <1>3, <2>1, ZeroAddress, AddressIff
<1>4. CASE a # Modulus - 4
  <2>1. a + 4 < Modulus
    BY <1>1, <1>2, <1>4
  <2>2. Plus4(a) = a + 4
    BY <1>1, <1>2, <2>1 DEF Plus4, Wrap
  <2>3. (a + 4) % 4 = 0 /\ a + 4 \in Word
    BY <1>1, <1>2, <2>1 DEF Word
  <2> QED
    BY <1>4, <2>2, <2>3, AddressIff
<1> QED
  BY <1>3, <1>4

LEMMA SameAddress ==
  ASSUME NEW a \in Addresses, NEW b \in Addresses, idx(a) = idx(b), tag(a) = tag(b)
  PROVE  a = b
<1>1. a \in Word /\ b \in Word /\ a % 4 = 0 /\ b % 4 = 0
  BY AddressIff
<1>2. a \div 4 = b \div 4
  BY <1>1, SameEntry
<1> QED
  BY <1>1, <1>2, ModulusFacts DEF Word

-----------------------------------------------------------------------------
(* The loops of a safe program *)

LEMMA TargetSets ==
  ASSUME NEW p, NEW a
  PROVE  /\ At(p, a).opcode \in {"BRANCH", "JAL"} =>
              Targets(p, a) = {Wrap(a + At(p, a).imm)}
         /\ At(p, a).opcode = "JALR" => Targets(p, a) = {t \in Addresses : t > a}
         /\ ~IsControlFlow(p, a) => Targets(p, a) = {}
BY DEF Targets, IsControlFlow

(* A loop branch is a branch or a JAL, so that its start is its only       *)
(* target.                                                                 *)
LEMMA LoopFacts ==
  ASSUME NEW p \in Programs, Safe(p), NEW e \in LoopBranches(p),
         NEW s \in LoopStarts(p, e)
  PROVE  /\ e \in Addresses /\ s \in Addresses /\ s < e /\ e + 4 < Modulus
         /\ IsControlFlow(p, e) /\ Targets(p, e) = {s}
         /\ Plus4(e) = e + 4
<1>1. e \in Addresses /\ s \in Targets(p, e) /\ s < e
  BY DEF LoopBranches, LoopStarts
<1>2. s \in Addresses
  BY <1>1 DEF Safe, WordTargets
<1>3. e \in Word /\ s \in Word /\ e % 4 = 0
  BY <1>1, <1>2, AddressIff
<1>4. IsControlFlow(p, e)
  BY <1>1, TargetSets
<1>5. At(p, e).opcode # "JALR"
  <2> SUFFICES ASSUME At(p, e).opcode = "JALR" PROVE FALSE
    OBVIOUS
  <2>1. s > e
    BY <1>1, TargetSets
  <2> QED
    BY <1>1, <1>3, <2>1, ModulusFacts DEF Word
<1>6. Targets(p, e) = {s}
  BY <1>1, <1>4, <1>5, TargetSets DEF IsControlFlow
<1>7. e # Modulus - 4
  BY DEF Safe, LoopEndExists
<1>8. e + 4 < Modulus
  BY <1>3, <1>7, WordAssumption DEF Word, Modulus
<1> QED
  BY <1>1, <1>2, <1>4, <1>6, <1>7, <1>8, Plus4Address

(* The body of a loop holds no control flow, and fetch walks through it.   *)
LEMMA BodyFacts ==
  ASSUME NEW p \in Programs, Safe(p), NEW e \in LoopBranches(p),
         NEW s \in LoopStarts(p, e), NEW b \in Addresses, s <= b, b < e
  PROVE  ~IsControlFlow(p, b) /\ Plus4(b) = b + 4 /\ b + 4 <= e
<1>1. ~IsControlFlow(p, b)
  BY DEF Safe, StraightBody
<1>2. e \in Word /\ e % 4 = 0 /\ b \in Word /\ b % 4 = 0
  BY LoopFacts, AddressIff
<1>3. b # Modulus - 4 /\ b + 4 <= e
  BY <1>2, WordAssumption DEF Word, Modulus
<1> QED
  BY <1>1, <1>3, Plus4Address

-----------------------------------------------------------------------------
(* Training *)

LEMMA SameControlFlow ==
  ASSUME NEW a PROVE IsControlFlow(imem, a) <=> IsBranchOrJump(InstrAt(a))
BY DEF IsControlFlow, IsBranchOrJump, At, InstrAt

(* A stalled cycle has a load in EX, which trains nothing. *)
LEMMA StallTrainsNothing ==
  ASSUME DecodedPath, stall PROVE ~is_control_flow_ex
<1>1. id_ex_r.valid /\ id_ex_r.ctl.mem_read
  BY DEF DecodedPath, stall, hazard_unit
<1>2. id_ex_r.ctl = control_unit(InstrAt(id_ex_r.pc))
  BY <1>1 DEF DecodedPath
<1> QED
  BY <1>1, <1>2, ControlFields DEF is_control_flow_ex

(* What EX does to the entry of an address. *)
LEMMA EntryStep ==
  ASSUME TypeOK, Clock, NEW a \in Word
  PROVE  \/ /\ btb_valid'[idx(a)] = btb_valid[idx(a)]
            /\ btb_tag'[idx(a)] = btb_tag[idx(a)]
            /\ btb'[idx(a)] = btb[idx(a)]
            /\ ~is_control_flow_ex \/ idx(a) # idx(id_ex_r.pc) =>
                 bht'[idx(a)] = bht[idx(a)]
            /\ ~is_control_flow_ex \/ idx(a) # idx(id_ex_r.pc) \/ ~actual_taken_ex
         \/ /\ is_control_flow_ex /\ actual_taken_ex /\ idx(a) = idx(id_ex_r.pc)
            /\ btb_valid'[idx(a)] /\ btb_tag'[idx(a)] = tag(id_ex_r.pc)
            /\ btb'[idx(a)] = actual_target_ex
            /\ bht[idx(a)] >= 2 => bht'[idx(a)] >= 2
<1>1. id_ex_r.pc \in Word
  BY DEF TypeOK, id_ex_t
<1>2. idx(a) \in Entries /\ idx(id_ex_r.pc) \in Entries
  BY <1>1, EntryIndex
<1>3. BPTypeOK
  BY DEF TypeOK
<1>4. BPClock(is_control_flow_ex, id_ex_r.pc, actual_taken_ex, actual_target_ex)
  BY DEF Clock
<1>5. CASE is_control_flow_ex /\ actual_taken_ex
               /\ BPTrainTaken(id_ex_r.pc, actual_target_ex)
  <2>1. CASE idx(a) = idx(id_ex_r.pc)
    <3>1. bht[idx(a)] \in 0 .. 3
      BY <1>2, <1>3 DEF BPTypeOK
    <3>2. /\ btb_valid'[idx(a)] /\ btb_tag'[idx(a)] = tag(id_ex_r.pc)
          /\ btb'[idx(a)] = actual_target_ex
          /\ bht'[idx(a)] = IF bht[idx(a)] # 3 THEN bht[idx(a)] + 1 ELSE bht[idx(a)]
      BY <1>2, <1>3, <1>5, <2>1 DEF BPTypeOK, BPTrainTaken
    <3> QED
      BY <1>5, <2>1, <3>1, <3>2
  <2>2. CASE idx(a) # idx(id_ex_r.pc)
    BY <1>2, <1>3, <1>5, <2>2 DEF BPTypeOK, BPTrainTaken
  <2> QED
    BY <2>1, <2>2
<1>6. CASE is_control_flow_ex /\ ~actual_taken_ex /\ BPTrainNotTaken(id_ex_r.pc)
  BY <1>2, <1>3, <1>6 DEF BPTypeOK, BPTrainNotTaken
<1>7. CASE ~is_control_flow_ex /\ UNCHANGED bp_vars
  BY <1>7 DEF bp_vars
<1> QED
  BY <1>4, <1>5, <1>6, <1>7 DEF BPClock

(* The target of a register jump in EX is the one ISA computes for it.     *)
LEMMA RegisterTarget ==
  ASSUME TypeOK, PathInv, DataInv, NoLoadForwarded, Implemented(imem), Clock,
         JumpsForward', is_control_flow_ex, id_ex_r.ctl.jalr
  PROVE  actual_target_ex \in Targets(imem, id_ex_r.pc)
<1> DEFINE i == InstrAt(id_ex_r.pc)
<1>1. /\ id_ex_r.valid /\ id_ex_r.ctl = control_unit(i) /\ DecodedPath
      /\ BackEnd /\ imem' = imem
  BY DEF PathInv, DecodedPath, is_control_flow_ex, Clock
<1>2. i.opcode = "JALR"
  BY <1>1, ControlFields
<1>3. arch_pc' = id_ex_r.pc /\ Arch!Instruction' = i
  <2>1. arch_pc' = id_ex_r.pc
    BY <1>1, LatchedFields DEF BackEnd, arch_pc
  <2> QED
    BY <1>1, <2>1, SameOperators DEF Arch!Instruction, InstrAt
<1>4. ImplementedInstr(i)
  <2>1. (id_ex_r.pc \div 4) % IMEM_WORDS \in DOMAIN imem
    BY ModulusFacts, MemoryAssumption DEF TypeOK, Programs, id_ex_t, Word
  <2> QED
    BY <2>1 DEF Implemented, InstrAt, instruction_mem
<1>5. actual_taken_ex
  BY <1>1, <1>2, ControlFields DEF actual_taken_ex
<1>6. actual_target_ex = Arch!NextPc(i, id_ex_r.pc, arch_x')
  BY <1>1, <1>4, <1>5, Redirection, NextResolved DEF DataInv
<1>7. JumpsForward' =
        (Arch!Instruction'.opcode = "JALR" =>
           Arch!NextPc(Arch!Instruction', arch_pc', arch_x') \in Targets(imem', arch_pc'))
  BY DEF JumpsForward
<1> QED
  BY <1>1, <1>2, <1>3, <1>6, <1>7

(* What is in EX goes where LoopSafe expects it. *)
ResolvedInTargets ==
  is_control_flow_ex => actual_target_ex \in Targets(imem, id_ex_r.pc)

LEMMA TargetResolved ==
  ASSUME TypeOK, PathInv, DataInv, NoLoadForwarded, Implemented(imem), Clock,
         JumpsForward'
  PROVE  ResolvedInTargets
<1> SUFFICES ASSUME is_control_flow_ex
             PROVE  actual_target_ex \in Targets(imem, id_ex_r.pc)
  BY DEF ResolvedInTargets
<1> DEFINE i == InstrAt(id_ex_r.pc)
<1>1. id_ex_r.valid /\ id_ex_r.ctl = control_unit(i) /\ id_ex_r.imm_ext = imm_gen(i)
  BY DEF PathInv, DecodedPath, is_control_flow_ex
<1>2. CASE id_ex_r.ctl.jalr
  BY <1>2, RegisterTarget
<1>3. CASE ~id_ex_r.ctl.jalr
  <2>1. i.opcode \in {"BRANCH", "JAL"}
    BY <1>1, <1>3, ControlFields DEF is_control_flow_ex
  <2>2. actual_target_ex = Wrap(id_ex_r.pc + i.imm)
    BY <1>1, <1>3, <2>1 DEF actual_target_ex, imm_gen
  <2> QED
    BY <2>1, <2>2, TargetSets DEF At, InstrAt
<1> QED
  BY <1>2, <1>3

-----------------------------------------------------------------------------
(* Predictions *)

LEMMA EntryTargetsStep ==
  ASSUME TypeOK, EntryTargets, AlignedPath, ResolvedInTargets, Clock
  PROVE  EntryTargets'
<1> SUFFICES ASSUME NEW a \in Addresses, btb_valid'[idx(a)], btb_tag'[idx(a)] = tag(a)
             PROVE  btb'[idx(a)] \in Targets(imem, a)
  <2>1. imem' = imem
    BY DEF Clock
  <2> QED
    BY <2>1 DEF EntryTargets
<1>1. a \in Word
  BY AddressIff
<1>2. CASE /\ btb_valid'[idx(a)] = btb_valid[idx(a)]
           /\ btb_tag'[idx(a)] = btb_tag[idx(a)] /\ btb'[idx(a)] = btb[idx(a)]
  BY <1>2 DEF EntryTargets
<1>3. CASE /\ is_control_flow_ex /\ idx(a) = idx(id_ex_r.pc)
           /\ btb_tag'[idx(a)] = tag(id_ex_r.pc) /\ btb'[idx(a)] = actual_target_ex
  <2>1. a = id_ex_r.pc
    BY <1>3, SameAddress DEF AlignedPath
  <2> QED
    BY <1>3, <2>1 DEF ResolvedInTargets
<1> QED
  BY <1>1, <1>2, <1>3, EntryStep

(* A prediction in IF leads to a target of the word there. *)
LEMMA PredictionInTargets ==
  ASSUME TypeOK, EntryTargets, AlignedPath, predict_taken_if
  PROVE  /\ predict_target_if \in Targets(imem, pc_if) /\ EntryOf(pc_if)
         /\ bht[idx(pc_if)] >= 2 /\ predict_target_if = btb[idx(pc_if)]
BY DEF EntryTargets, AlignedPath, predict_taken_if, predict_taken, EntryOf,
       predict_target_if, predict_target

LEMMA AlignedStep ==
  ASSUME TypeOK, Safe(imem), PathInv, EntryTargets, AlignedPath, ResolvedInTargets, Clock
  PROVE  AlignedPath'
<1>1. /\ Plus4(pc_if) \in Addresses /\ Plus4(id_ex_r.pc) \in Addresses
  BY Plus4Address DEF AlignedPath
<1>2. CASE Flush
  <2>1. is_control_flow_ex /\ id_ex_r.pc_plus4 = Plus4(id_ex_r.pc)
    BY <1>2 DEF Flush, flush, mispredict_ex, is_control_flow_ex, PathInv, DecodedPath
  <2>2. actual_target_ex \in Addresses
    BY <2>1 DEF ResolvedInTargets, Safe, WordTargets, AlignedPath
  <2>3. flush_target \in Addresses
    BY <1>1, <2>1, <2>2 DEF flush_target
  <2> QED
    BY <1>2, <2>3, ZeroAddress DEF Flush, AlignedPath, if_id_zero, id_ex_zero
<1>3. CASE Stall
  BY <1>3, ZeroAddress DEF Stall, AlignedPath, id_ex_zero
<1>4. CASE Advance
  <2>1. predict_taken_if => predict_target_if \in Addresses
    BY PredictionInTargets DEF Safe, WordTargets, AlignedPath
  <2>2. pc_if' \in Addresses
    BY <1>1, <1>4, <2>1 DEF Advance
  <2>3. if_id_r'.pc = pc_if /\ id_ex_r'.pc = if_id_r.pc
    BY <1>4, LatchedFields DEF Advance
  <2> QED
    BY <2>2, <2>3 DEF AlignedPath
<1> QED
  BY <1>2, <1>3, <1>4 DEF Clock

(* The values the front end latches about a prediction. *)
LEMMA PredictionLatched ==
  /\ if_id_next.valid /\ if_id_next.pc = pc_if
  /\ if_id_next.pred_taken = predict_taken_if
  /\ if_id_next.pred_target = predict_target_if
  /\ id_ex_next.valid = if_id_r.valid /\ id_ex_next.pc = if_id_r.pc
  /\ id_ex_next.pred_taken = if_id_r.pred_taken
  /\ id_ex_next.pred_target = if_id_r.pred_target
BY DEF if_id_next, id_ex_next

LEMMA TargetPredictedStep ==
  ASSUME TypeOK, EntryTargets, AlignedPath, Clock,
         TargetPredicted(if_id_r), TargetPredicted(id_ex_r)
  PROVE  TargetPredicted(if_id_r)' /\ TargetPredicted(id_ex_r)'
<1>0. imem' = imem
  BY DEF Clock
<1>1. CASE Flush
  BY <1>1, ZeroFields DEF Flush, TargetPredicted
<1>2. CASE Stall
  BY <1>0, <1>2, ZeroFields DEF Stall, TargetPredicted
<1>3. CASE Advance
  <2>1. if_id_r' = if_id_next /\ id_ex_r' = id_ex_next
    BY <1>3 DEF Advance
  <2> QED
    BY <1>0, <2>1, PredictionLatched, PredictionInTargets DEF TargetPredicted
<1> QED
  BY <1>1, <1>2, <1>3 DEF Clock

(* When a loop branch is resolved as predicted, fetch is in the first two  *)
(* words of its loop.                                                      *)
LEMMA BehindLoopBranch ==
  ASSUME TypeOK, Safe(imem), PathInv, PredictionInv, ResolvedInTargets,
         ~flush, is_control_flow_ex, actual_taken_ex,
         id_ex_r.pc \in LoopBranches(imem)
  PROVE  /\ if_id_r.valid /\ ~IsControlFlow(imem, if_id_r.pc)
         /\ IsControlFlow(imem, pc_if) => pc_if = id_ex_r.pc
<1> DEFINE e == id_ex_r.pc
           g == if_id_r.pc
<1>1. PICK s : s \in LoopStarts(imem, e)
  BY DEF LoopBranches
<1>2. imem \in Programs
  BY DEF TypeOK
<1>3. /\ e \in Addresses /\ s \in Addresses /\ s < e /\ Targets(imem, e) = {s}
  BY <1>1, <1>2, LoopFacts
<1>4. if_id_r.valid /\ g = s
  <2>1. if_id_r.valid /\ g = IF flush THEN flush_target ELSE g
    BY DEF PathInv, DecodedPath, is_control_flow_ex
  <2>2. g = actual_target_ex
    BY Redirection DEF PathInv
  <2> QED
    BY <1>3, <2>1, <2>2 DEF ResolvedInTargets
<1>5. s <= s
  BY <1>3, AddressIff, ModulusFacts DEF Word
<1>6. ~IsControlFlow(imem, g) /\ Plus4(g) = g + 4 /\ g + 4 <= e
  BY <1>1, <1>2, <1>3, <1>4, <1>5, BodyFacts
<1>7. pc_if = g + 4
  <2>1. ~if_id_r.pred_taken
    BY <1>4, <1>6, SameControlFlow DEF PathInv, FetchedPath
  <2> QED
    BY <1>4, <1>6, <2>1 DEF PathInv, FetchedPath, Successor
<1>8. pc_if \in Addresses
  BY DEF PredictionInv, AlignedPath
<1>9. pc_if # e => ~IsControlFlow(imem, pc_if)
  <2> SUFFICES ASSUME pc_if # e PROVE ~IsControlFlow(imem, pc_if)
    OBVIOUS
  <2>1. s <= pc_if /\ pc_if < e
    BY <1>3, <1>4, <1>6, <1>7, AddressIff, ModulusFacts DEF Word
  <2> QED
    BY <1>1, <1>2, <1>8, <2>1, BodyFacts
<1> QED
  BY <1>4, <1>6, <1>9

(* No loop branch takes its entry away from an instruction that was        *)
(* predicted taken after it.                                               *)
LEMMA EntryKeptFetched ==
  ASSUME TypeOK, Safe(imem), PathInv, PredictionInv, ResolvedInTargets, Clock, Advance
  PROVE  EntryKept(if_id_r)'
<1>1. imem' = imem /\ if_id_r' = if_id_next /\ ~flush
  BY DEF Clock, Advance
<1>2. if_id_r'.pc = pc_if /\ if_id_r'.pred_taken = predict_taken_if
  BY <1>1, PredictionLatched
<1> SUFFICES ASSUME predict_taken_if, btb_tag'[idx(pc_if)] # tag(pc_if),
                    NEW e \in LoopBranches(imem), idx(e) = idx(pc_if),
                    btb_tag'[idx(e)] = tag(e)
             PROVE  FALSE
  BY <1>1, <1>2 DEF EntryKept
<1>3. /\ pc_if \in Addresses /\ pc_if \in Word /\ e \in Addresses
      /\ id_ex_r.pc \in Addresses
  BY AddressIff DEF PredictionInv, AlignedPath, LoopBranches
<1>4. btb_tag[idx(pc_if)] = tag(pc_if) /\ IsControlFlow(imem, pc_if)
  BY PredictionInTargets, PredictionTrained, SameControlFlow
     DEF PredictionInv, PathInv, EntryOf
<1>5. /\ is_control_flow_ex /\ actual_taken_ex /\ idx(pc_if) = idx(id_ex_r.pc)
      /\ btb_tag'[idx(pc_if)] = tag(id_ex_r.pc)
  BY <1>3, <1>4, EntryStep
<1>6. e = id_ex_r.pc
  BY <1>3, <1>5, SameAddress
<1>7. pc_if = id_ex_r.pc
  BY <1>1, <1>4, <1>5, <1>6, BehindLoopBranch
<1> QED
  BY <1>5, <1>7

LEMMA EntryKeptDecoded ==
  ASSUME TypeOK, Safe(imem), PathInv, PredictionInv, ResolvedInTargets, Clock, Advance
  PROVE  EntryKept(id_ex_r)'
<1>1. imem' = imem /\ id_ex_r' = id_ex_next /\ ~flush
  BY DEF Clock, Advance
<1>2. /\ id_ex_r'.valid = if_id_r.valid /\ id_ex_r'.pc = if_id_r.pc
      /\ id_ex_r'.pred_taken = if_id_r.pred_taken
  BY <1>1, PredictionLatched
<1> DEFINE z == if_id_r.pc
<1> SUFFICES ASSUME if_id_r.valid, if_id_r.pred_taken, btb_tag'[idx(z)] # tag(z),
                    NEW e \in LoopBranches(imem), idx(e) = idx(z),
                    btb_tag'[idx(e)] = tag(e)
             PROVE  FALSE
  BY <1>1, <1>2 DEF EntryKept
<1>3. z \in Addresses /\ z \in Word /\ e \in Addresses /\ id_ex_r.pc \in Addresses
  BY AddressIff DEF PredictionInv, AlignedPath, LoopBranches
<1>4. CASE btb_tag'[idx(z)] = btb_tag[idx(z)]
  BY <1>4 DEF PredictionInv, EntryKept
<1>5. CASE /\ is_control_flow_ex /\ actual_taken_ex /\ idx(z) = idx(id_ex_r.pc)
           /\ btb_tag'[idx(z)] = tag(id_ex_r.pc)
  <2>1. e = id_ex_r.pc
    BY <1>3, <1>5, SameAddress
  <2>2. ~IsControlFlow(imem, z)
    BY <1>1, <1>5, <2>1, BehindLoopBranch
  <2> QED
    BY <2>2, SameControlFlow DEF PathInv, FetchedPath
<1> QED
  BY <1>3, <1>4, <1>5, EntryStep

LEMMA EntryKeptStep ==
  ASSUME TypeOK, Safe(imem), PathInv, PredictionInv, ResolvedInTargets, Clock
  PROVE  EntryKept(if_id_r)' /\ EntryKept(id_ex_r)'
<1>1. CASE Flush
  BY <1>1, ZeroFields DEF Flush, EntryKept
<1>2. CASE Stall
  <2>1. ~is_control_flow_ex
    BY <1>2, StallTrainsNothing DEF Stall, PathInv
  <2>2. UNCHANGED bp_vars /\ imem' = imem
    BY <2>1 DEF Clock, BPClock
  <2>3. EntryKept(if_id_r)'
    BY <1>2, <2>2 DEF Stall, EntryKept, PredictionInv, bp_vars
  <2> QED
    BY <1>2, <2>3, ZeroFields DEF Stall, EntryKept
<1>3. CASE Advance
  BY <1>3, EntryKeptFetched, EntryKeptDecoded
<1> QED
  BY <1>1, <1>2, <1>3 DEF Clock

LEMMA PredictionStep ==
  ASSUME TypeOK, Safe(imem), PathInv, PredictionInv, ResolvedInTargets, Clock
  PROVE  PredictionInv'
BY AlignedStep, EntryTargetsStep, TargetPredictedStep, EntryKeptStep DEF PredictionInv

-----------------------------------------------------------------------------
(* The start of a recording *)

(* Where fetch went after the instruction in ID. *)
LEMMA FetchFollows ==
  ASSUME PathInv, PredictionInv, if_id_r.valid
  PROVE  pc_if \in Followers(imem, if_id_r.pc)
BY DEF PathInv, FetchedPath, Successor, PredictionInv, TargetPredicted, Followers

(* The pipeline does not stall while a loop branch is in IF. *)
LEMMA NoStallAtLoopBranch ==
  ASSUME TypeOK, Safe(imem), PathInv, PredictionInv, FetchFaithful,
         pc_if \in LoopBranches(imem)
  PROVE  ~stall
<1> SUFFICES ASSUME stall PROVE FALSE
  OBVIOUS
<1> DEFINE u == id_ex_r.pc
           w == if_id_r.pc
<1>1. id_ex_r.valid /\ id_ex_r.ctl.mem_read
  BY DEF PathInv, DecodedPath, stall, hazard_unit
<1>2. /\ id_ex_r.ctl = control_unit(InstrAt(u)) /\ id_ex_r.rd_addr = InstrAt(u).rd
      /\ if_id_r.valid /\ w = Successor(id_ex_r)
      /\ id_ex_r.pred_taken => IsBranchOrJump(InstrAt(u))
  BY <1>1 DEF PathInv, DecodedPath
<1>3. At(imem, u).opcode = "LOAD"
  BY <1>1, <1>2, ControlFields DEF At, InstrAt
<1>4. w \in Followers(imem, u)
  BY <1>2, <1>3 DEF Successor, Followers, IsBranchOrJump, At, InstrAt
<1>5. if_id_r.instr = At(imem, w)
  BY <1>2 DEF FetchFaithful, At
<1>6. LoadUse(imem, u, w)
  BY <1>2, <1>3, <1>5 DEF LoadUse, stall, hazard_unit, At, InstrAt
<1>7. u \in Addresses /\ pc_if \in Followers(imem, w)
  BY <1>2, FetchFollows DEF PredictionInv, AlignedPath
<1> QED
  BY <1>3, <1>4, <1>6, <1>7 DEF Safe, NoStallAtEntry

(* When a loop branch is predicted in IF, nothing in ID shares its entry, *)
LEMMA NoAliasInDecode ==
  ASSUME TypeOK, Safe(imem), PathInv, PredictionInv, EntryOf(pc_if),
         pc_if \in LoopBranches(imem),
         if_id_r.valid, IsControlFlow(imem, if_id_r.pc)
  PROVE  idx(if_id_r.pc) # idx(pc_if)
<1> DEFINE z == if_id_r.pc
<1> SUFFICES ASSUME idx(z) = idx(pc_if) PROVE FALSE
  OBVIOUS
<1>1. z \in Addresses /\ pc_if \in Addresses /\ imem \in Programs
  BY DEF PredictionInv, AlignedPath, TypeOK
<1>2. pc_if = Successor(if_id_r)
  BY DEF PathInv, FetchedPath
<1>3. CASE if_id_r.pred_taken
  <2>1. tag(z) = tag(pc_if)
    BY <1>3 DEF PredictionInv, EntryKept, EntryOf
  <2>2. z = pc_if
    BY <1>1, <2>1, SameAddress
  <2>3. PICK s : s \in LoopStarts(imem, pc_if)
    BY DEF LoopBranches
  <2>4. Targets(imem, pc_if) = {s} /\ s < pc_if /\ s \in Addresses
    BY <1>1, <2>3, LoopFacts
  <2>5. pc_if = s
    BY <1>2, <1>3, <2>2, <2>4 DEF Successor, PredictionInv, TargetPredicted
  <2> QED
    BY <2>4, <2>5, AddressIff, ModulusFacts DEF Word
<1>4. CASE ~if_id_r.pred_taken
  <2>1. pc_if = Plus4(z)
    BY <1>2, <1>4 DEF Successor
  <2> QED
    BY <1>1, <2>1 DEF Safe, NoAliasAtEntry
<1> QED
  BY <1>3, <1>4

(* ... and what shares it in EX is the loop branch itself, on its way back *)
(* to the start.                                                           *)
LEMMA NoAliasInExecute ==
  ASSUME TypeOK, Safe(imem), PathInv, PredictionInv, ResolvedInTargets,
         EntryOf(pc_if), pc_if \in LoopBranches(imem), ~flush,
         is_control_flow_ex, idx(id_ex_r.pc) = idx(pc_if)
  PROVE  /\ id_ex_r.pc = pc_if /\ actual_taken_ex
         /\ actual_target_ex \in Targets(imem, pc_if)
<1> DEFINE u == id_ex_r.pc
           w == if_id_r.pc
<1>1. u \in Addresses /\ pc_if \in Addresses
  BY DEF PredictionInv, AlignedPath
<1>2. /\ id_ex_r.valid /\ if_id_r.valid /\ w = Successor(id_ex_r) /\ DecodedPath
  BY DEF PathInv, DecodedPath, is_control_flow_ex
<1>3. IsControlFlow(imem, u)
  BY <1>2, TrainedByBranchOrJump, SameControlFlow
<1>4. CASE id_ex_r.pred_taken
  <2>1. tag(u) = tag(pc_if)
    BY <1>2, <1>4 DEF PredictionInv, EntryKept, EntryOf
  <2>2. u = pc_if
    BY <1>1, <2>1, SameAddress
  <2>3. actual_taken_ex
    <3>1. actual_taken_ex \in BOOLEAN /\ id_ex_r.pred_taken \in BOOLEAN
      BY DEF actual_taken_ex, TypeOK, id_ex_t
    <3> QED
      BY <1>4, <3>1 DEF flush, mispredict_ex
  <2> QED
    BY <2>2, <2>3 DEF ResolvedInTargets
<1>5. CASE ~id_ex_r.pred_taken
  <2>1. w = Plus4(u)
    BY <1>2, <1>5 DEF Successor
  <2>2. pc_if \in Followers(imem, Plus4(u))
    BY <1>2, <2>1, FetchFollows
  <2> QED
    BY <1>1, <1>3, <2>2 DEF Safe, NoAliasAtEntry
<1> QED
  BY <1>4, <1>5

(* A recording starts when a backward prediction is made in IF. *)
StartsRecording ==
  /\ state_q = "IDLE" /\ ~flush /\ predict_taken_if /\ predict_target_if < pc_if
  /\ state_q' = "RECORDING" /\ loop_start_q' = predict_target_if
  /\ loop_end_q' = Plus4(pc_if) /\ write_ptr_q' = 0

LEMMA StartFacts ==
  ASSUME TypeOK, Safe(imem), PathInv, PredictionInv, FetchFaithful, Clock,
         StartsRecording
  PROVE  /\ pc_if \in LoopBranches(imem) /\ EntryOf(pc_if) /\ bht[idx(pc_if)] >= 2
         /\ predict_target_if \in LoopStarts(imem, pc_if)
         /\ predict_target_if = btb[idx(pc_if)]
         /\ loop_branch' = pc_if /\ pc_if' = predict_target_if
         /\ Advance /\ if_id_r' = if_id_next /\ id_ex_r' = id_ex_next
         /\ predict_target_if \in Nat /\ pc_if \in Nat
<1>1. /\ predict_target_if \in Targets(imem, pc_if) /\ EntryOf(pc_if)
      /\ bht[idx(pc_if)] >= 2 /\ predict_target_if = btb[idx(pc_if)]
  BY PredictionInTargets DEF StartsRecording, PredictionInv
<1>2. predict_target_if \in LoopStarts(imem, pc_if)
  BY <1>1 DEF StartsRecording, LoopStarts
<1>3. pc_if \in LoopBranches(imem) /\ imem \in Programs
  BY <1>2 DEF LoopBranches, PredictionInv, AlignedPath, TypeOK
<1>4. Plus4(pc_if) = pc_if + 4 /\ pc_if \in Word /\ predict_target_if \in Word
  BY <1>2, <1>3, LoopFacts, AddressIff
<1>5. pc_if \in Nat /\ predict_target_if \in Nat /\ loop_branch' = pc_if
  BY <1>4, ModulusFacts DEF loop_branch, StartsRecording, Word
<1>6. Advance
  BY <1>3, NoStallAtLoopBranch DEF Clock, Flush, Stall, StartsRecording
<1> QED
  BY <1>1, <1>2, <1>3, <1>5, <1>6 DEF Advance, StartsRecording

LEMMA StartStep ==
  ASSUME TypeOK, Safe(imem), PathInv, PredictionInv, FetchFaithful,
         ResolvedInTargets, Clock, StartsRecording
  PROVE  LoopInv'
<1> DEFINE e == pc_if
           s == predict_target_if
<1>0. imem' = imem /\ ~flush /\ loop_start_q' = s /\ state_q' = "RECORDING"
      /\ write_ptr_q' = 0
  BY DEF Clock, StartsRecording
<1>1. /\ e \in LoopBranches(imem) /\ EntryOf(e) /\ bht[idx(e)] >= 2
      /\ s \in LoopStarts(imem, e) /\ s = btb[idx(e)]
      /\ loop_branch' = e /\ pc_if' = s /\ s \in Nat /\ e \in Nat
      /\ if_id_r' = if_id_next /\ id_ex_r' = id_ex_next
  BY StartFacts
<1>2. e \in Word /\ s < e /\ Targets(imem, e) = {s}
  BY <1>1, LoopFacts DEF TypeOK
<1>3. LoopTracked'
  BY <1>0, <1>1, <1>2 DEF LoopTracked
<1>4. SlotsRecorded'
  <2>1. 0 .. write_ptr_q' - 1 = {}
    BY <1>0
  <2> QED
    BY <1>0, <1>1, <2>1 DEF SlotsRecorded
<1>5. LoopPredicted'
  <2>1. is_control_flow_ex /\ idx(id_ex_r.pc) = idx(e) =>
          id_ex_r.pc = e /\ actual_taken_ex /\ actual_target_ex = s
    BY <1>0, <1>1, <1>2, NoAliasInExecute
  <2>2. /\ btb_valid'[idx(e)] /\ btb_tag'[idx(e)] = tag(e)
        /\ btb'[idx(e)] = s /\ bht'[idx(e)] >= 2
    BY <1>1, <1>2, <2>1, EntryStep DEF EntryOf
  <2> QED
    BY <1>0, <1>1, <2>2 DEF LoopPredicted, EntryOf
<1>6. OnlyLoopBranchTrains(if_id_r)'
  <2>1. /\ if_id_r'.pc = e /\ if_id_r'.pred_taken = predict_taken_if
        /\ if_id_r'.pred_target = s
    BY <1>1, PredictionLatched
  <2> QED
    BY <1>0, <1>1, <2>1 DEF OnlyLoopBranchTrains, StartsRecording
<1>7. OnlyLoopBranchTrains(id_ex_r)'
  <2>1. id_ex_r'.valid = if_id_r.valid /\ id_ex_r'.pc = if_id_r.pc
    BY <1>1, PredictionLatched
  <2>2. if_id_r.valid /\ IsControlFlow(imem, if_id_r.pc) => idx(if_id_r.pc) # idx(e)
    BY <1>1, NoAliasInDecode
  <2> QED
    BY <1>0, <1>1, <2>1, <2>2 DEF OnlyLoopBranchTrains
<1> QED
  BY <1>3, <1>4, <1>5, <1>6, <1>7 DEF LoopInv

-----------------------------------------------------------------------------
(* Within a loop *)

(* Where fetch is: in the body, or at the loop branch, which is predicted  *)
(* taken back to the start.                                                *)
LEMMA FetchInLoop ==
  ASSUME TypeOK, Safe(imem), PathInv, PredictionInv, LoopInv, InLoop
  PROVE  /\ loop_start_q \in Nat /\ loop_branch \in Addresses /\ loop_branch \in Word
         /\ loop_start_q \in Addresses /\ pc_if \in Nat /\ pc_if % 4 = 0
         /\ loop_start_q < loop_branch /\ loop_branch = loop_end_q - 4
         /\ loop_start_q <= pc_if /\ pc_if <= loop_branch
         /\ IsControlFlow(imem, pc_if) => pc_if = loop_branch
         /\ pc_if # loop_branch => ~predict_taken_if /\ Plus4(pc_if) = pc_if + 4
                                     /\ pc_if + 4 <= loop_branch
         /\ pc_if = loop_branch => predict_taken_if /\ predict_target_if = loop_start_q
<1> DEFINE e == loop_branch
           s == loop_start_q
<1>1. e \in LoopBranches(imem) /\ s \in LoopStarts(imem, e) /\ imem \in Programs
  BY DEF LoopInv, LoopTracked, TypeOK
<1>2. e \in Addresses /\ s \in Addresses /\ s < e
  BY <1>1, LoopFacts
<1>3. pc_if \in Addresses /\ s <= pc_if /\ pc_if <= e
  BY DEF LoopInv, LoopTracked, PredictionInv, AlignedPath
<1>4. s \in Nat /\ e \in Nat /\ e \in Word /\ pc_if \in Nat /\ pc_if % 4 = 0
  BY <1>2, <1>3, AddressIff, ModulusFacts DEF Word
<1>5. pc_if # e => ~IsControlFlow(imem, pc_if) /\ Plus4(pc_if) = pc_if + 4
                      /\ pc_if + 4 <= e
  <2> SUFFICES ASSUME pc_if # e
               PROVE  ~IsControlFlow(imem, pc_if) /\ Plus4(pc_if) = pc_if + 4
                        /\ pc_if + 4 <= e
    OBVIOUS
  <2>1. pc_if < e
    BY <1>3, <1>4
  <2> QED
    BY <1>1, <1>3, <2>1, BodyFacts
<1>6. ~IsControlFlow(imem, pc_if) => ~predict_taken_if
  BY PredictionTrained, SameControlFlow DEF PathInv
<1>7. pc_if = e => predict_taken_if /\ predict_target_if = s
  BY DEF LoopInv, LoopPredicted, EntryOf, predict_taken_if, predict_taken,
         predict_target_if, predict_target
<1> QED
  BY <1>2, <1>3, <1>4, <1>5, <1>6, <1>7 DEF loop_branch

LEMMA TrainsInLoop ==
  ASSUME TypeOK, Safe(imem), PathInv, PredictionInv, ResolvedInTargets, LoopInv,
         InLoop, ~flush, is_control_flow_ex, idx(id_ex_r.pc) = idx(loop_branch)
  PROVE  /\ id_ex_r.pc = loop_branch /\ actual_taken_ex
         /\ actual_target_ex = loop_start_q
<1>1. id_ex_r.valid /\ IsControlFlow(imem, id_ex_r.pc)
  BY TrainedByBranchOrJump, SameControlFlow DEF PathInv, is_control_flow_ex
<1>2. /\ id_ex_r.pc = loop_branch /\ id_ex_r.pred_taken
      /\ id_ex_r.pred_target = loop_start_q
  BY <1>1 DEF LoopInv, OnlyLoopBranchTrains
<1>3. actual_taken_ex \in BOOLEAN /\ id_ex_r.pred_taken \in BOOLEAN
  BY DEF actual_taken_ex, TypeOK, id_ex_t
<1> QED
  BY <1>2, <1>3 DEF flush, mispredict_ex

(* What keeps the buffer in a loop: it waits, captures a word, or replays. *)
Waits == state_q = "RECORDING" /\ stall /\ UNCHANGED <<state_q, write_ptr_q, buffer>>
Replays == state_q = "LOOPING" /\ UNCHANGED <<state_q, write_ptr_q, buffer>>
Captures ==
  /\ state_q = "RECORDING" /\ ~stall /\ write_ptr_q < BUFFER_DEPTH
  /\ write_ptr_q' = write_ptr_q + 1
  /\ buffer' = [buffer EXCEPT ![write_ptr_q] = instr_if]
  /\ state_q' = IF pc_if = Wrap(loop_end_q - 4) THEN "LOOPING" ELSE state_q

StaysInLoop ==
  /\ InLoop /\ InLoop' /\ ~flush /\ UNCHANGED <<loop_start_q, loop_end_q>>
  /\ Waits \/ Captures \/ Replays

LEMMA BufferSteps ==
  ASSUME TypeOK, Clock, InLoop' PROVE StartsRecording \/ StaysInLoop
<1>1. LBClock(pc_if, instr_if, predict_taken_if, predict_target_if, flush, stall)
  BY DEF Clock
<1>2. CASE LBIdle(pc_if, predict_taken_if, predict_target_if, flush)
  BY <1>2 DEF LBIdle, is_backward_prediction, StartsRecording, InLoop
<1>3. CASE LBRecord(pc_if, instr_if, flush, stall)
  BY <1>3 DEF LBRecord, InLoop, StaysInLoop, Waits, Captures
<1>4. CASE LBLoop(pc_if, flush)
  BY <1>4 DEF LBLoop, InLoop, StaysInLoop, Replays
<1>5. CASE LBInvalid
  BY <1>5 DEF LBInvalid, InLoop
<1> QED
  BY <1>1, <1>2, <1>3, <1>4, <1>5 DEF LBClock

(* The instruction memory is not gated while a loop is recorded. *)
LEMMA CapturedWord ==
  ASSUME state_q # "LOOPING" PROVE instr_if = InstrAt(pc_if)
BY DEF instr_if, icache_addr_mux, gate_icache_clk, InstrAt

LEMMA LoopTrackedStep ==
  ASSUME TypeOK, Safe(imem), PathInv, PredictionInv, LoopInv, Clock, StaysInLoop
  PROVE  LoopTracked'
<1>1. /\ imem' = imem /\ loop_start_q' = loop_start_q /\ loop_branch' = loop_branch
      /\ InLoop /\ ~flush
  BY DEF Clock, StaysInLoop, loop_branch
<1>2. /\ loop_branch \in LoopBranches(imem)
      /\ loop_start_q \in LoopStarts(imem, loop_branch)
  BY <1>1 DEF LoopInv, LoopTracked
<1>3. loop_start_q <= pc_if' /\ pc_if' <= loop_branch
  <2>1. CASE Stall
    BY <1>1, <2>1, FetchInLoop DEF Stall
  <2>2. CASE Advance
    <3>1. pc_if' = IF predict_taken_if THEN predict_target_if ELSE Plus4(pc_if)
      BY <2>2 DEF Advance
    <3>2. /\ loop_start_q \in Nat /\ loop_branch \in Word /\ pc_if \in Nat
          /\ loop_start_q < loop_branch /\ loop_start_q <= pc_if
          /\ pc_if # loop_branch => ~predict_taken_if /\ Plus4(pc_if) = pc_if + 4
                                      /\ pc_if + 4 <= loop_branch
          /\ pc_if = loop_branch => predict_taken_if /\ predict_target_if = loop_start_q
      BY <1>1, FetchInLoop
    <3> QED
      BY <3>1, <3>2, ModulusFacts DEF Word
  <2> QED
    BY <1>1, <2>1, <2>2 DEF Clock, Flush
<1> QED
  BY <1>1, <1>2, <1>3 DEF LoopTracked

LEMMA SlotsStep ==
  ASSUME TypeOK, Safe(imem), PathInv, PredictionInv, LoopInv, Clock, StaysInLoop
  PROVE  SlotsRecorded'
<1> DEFINE e == loop_branch
           s == loop_start_q
           n == write_ptr_q
<1>1. imem' = imem /\ s' = s /\ loop_end_q' = loop_end_q /\ InLoop /\ ~flush
  BY DEF Clock, StaysInLoop
<1>2. /\ s \in Nat /\ e \in Word /\ pc_if \in Nat /\ e = loop_end_q - 4
      /\ pc_if # e => ~predict_taken_if /\ Plus4(pc_if) = pc_if + 4
  BY <1>1, FetchInLoop
<1>3. /\ \A k \in 0 .. n - 1 : buffer[k] = InstrAt(s + 4 * k)
      /\ state_q = "RECORDING" => pc_if = s + 4 * n
      /\ state_q = "LOOPING" => loop_end_q = s + 4 * n
  BY <1>1 DEF LoopInv, SlotsRecorded
<1>4. n \in 0 .. BUFFER_DEPTH /\ buffer \in [Slots -> Instr] /\ loop_end_q \in Word
  BY DEF TypeOK, LBTypeOK
<1>5. CASE Waits
  <2>1. pc_if' = pc_if
    BY <1>1, <1>5 DEF Waits, Clock, Flush, Stall, Advance
  <2> QED
    BY <1>1, <1>3, <1>5, <2>1 DEF SlotsRecorded, Waits, InstrAt
<1>6. CASE Replays
  BY <1>1, <1>3, <1>6 DEF SlotsRecorded, Replays, InstrAt
<1>7. CASE Captures
  <2>1. /\ state_q = "RECORDING" /\ n < BUFFER_DEPTH /\ write_ptr_q' = n + 1
        /\ buffer' = [buffer EXCEPT ![n] = instr_if] /\ pc_if = s + 4 * n /\ ~stall
    BY <1>3, <1>7 DEF Captures
  <2>2. instr_if = InstrAt(s + 4 * n)
    BY <2>1, CapturedWord
  <2>3. \A k \in 0 .. n : buffer'[k] = InstrAt(s + 4 * k)
    <3> SUFFICES ASSUME NEW k \in 0 .. n PROVE buffer'[k] = InstrAt(s + 4 * k)
      OBVIOUS
    <3>1. n \in Slots /\ k \in Slots
      BY <1>4, <2>1, DepthAssumption DEF Slots
    <3>2. CASE k = n
      BY <1>4, <2>1, <2>2, <3>1, <3>2
    <3>3. CASE k # n
      <4>1. k \in 0 .. n - 1
        BY <1>4, <3>3
      <4> QED
        BY <1>3, <1>4, <2>1, <3>1, <3>3, <4>1
    <3> QED
      BY <3>2, <3>3
  <2>4. 0 .. write_ptr_q' - 1 = 0 .. n
    BY <1>4, <2>1
  <2>5. Wrap(loop_end_q - 4) = e
    BY <1>2, ModulusFacts DEF Wrap, Word
  <2>6. CASE pc_if = e
    <3>1. state_q' = "LOOPING"
      BY <1>7, <2>5, <2>6 DEF Captures
    <3>2. loop_end_q = s + 4 * (n + 1)
      BY <1>2, <1>4, <2>1, <2>6, ModulusFacts DEF Word
    <3> QED
      BY <1>1, <2>1, <2>3, <2>4, <3>1, <3>2 DEF SlotsRecorded, InstrAt
  <2>7. CASE pc_if # e
    <3>1. state_q' = "RECORDING"
      BY <1>7, <2>1, <2>5, <2>7 DEF Captures
    <3>2. pc_if' = s + 4 * (n + 1)
      <4>1. pc_if' = pc_if + 4
        BY <1>1, <1>2, <2>1, <2>7 DEF Clock, Flush, Stall, Advance
      <4> QED
        BY <1>2, <1>4, <2>1, <4>1
    <3> QED
      BY <1>1, <2>1, <2>3, <2>4, <3>1, <3>2 DEF SlotsRecorded, InstrAt
  <2> QED
    BY <2>6, <2>7
<1> QED
  BY <1>5, <1>6, <1>7 DEF StaysInLoop

LEMMA LoopPredictedStep ==
  ASSUME TypeOK, Safe(imem), PathInv, PredictionInv, ResolvedInTargets, LoopInv,
         Clock, StaysInLoop
  PROVE  LoopPredicted'
<1>1. /\ loop_start_q' = loop_start_q /\ loop_branch' = loop_branch /\ InLoop /\ ~flush
  BY DEF StaysInLoop, loop_branch
<1>2. loop_branch \in Word
  BY <1>1, FetchInLoop
<1>3. /\ btb_valid[idx(loop_branch)] /\ btb_tag[idx(loop_branch)] = tag(loop_branch)
      /\ bht[idx(loop_branch)] >= 2 /\ btb[idx(loop_branch)] = loop_start_q
  BY <1>1 DEF LoopInv, LoopPredicted, EntryOf
<1>4. is_control_flow_ex /\ idx(id_ex_r.pc) = idx(loop_branch) =>
        /\ id_ex_r.pc = loop_branch /\ actual_taken_ex
        /\ actual_target_ex = loop_start_q
  BY <1>1, TrainsInLoop
<1>5. /\ btb_valid'[idx(loop_branch)] /\ btb_tag'[idx(loop_branch)] = tag(loop_branch)
      /\ btb'[idx(loop_branch)] = loop_start_q /\ bht'[idx(loop_branch)] >= 2
  BY <1>2, <1>3, <1>4, EntryStep
<1> QED
  BY <1>1, <1>5 DEF LoopPredicted, EntryOf

LEMMA OnlyLoopBranchTrainsStep ==
  ASSUME TypeOK, Safe(imem), PathInv, PredictionInv, LoopInv, Clock, StaysInLoop
  PROVE  OnlyLoopBranchTrains(if_id_r)' /\ OnlyLoopBranchTrains(id_ex_r)'
<1>1. /\ imem' = imem /\ loop_start_q' = loop_start_q /\ loop_branch' = loop_branch
      /\ InLoop /\ ~flush
  BY DEF Clock, StaysInLoop, loop_branch
<1>2. OnlyLoopBranchTrains(if_id_r)
  BY DEF LoopInv
<1>3. CASE Stall
  <2>1. OnlyLoopBranchTrains(if_id_r)'
    BY <1>1, <1>2, <1>3 DEF Stall, OnlyLoopBranchTrains
  <2> QED
    BY <1>3, <2>1, ZeroFields DEF Stall, OnlyLoopBranchTrains
<1>4. CASE Advance
  <2>1. if_id_r' = if_id_next /\ id_ex_r' = id_ex_next
    BY <1>4 DEF Advance
  <2>2. IsControlFlow(imem, pc_if) =>
          pc_if = loop_branch /\ predict_taken_if /\ predict_target_if = loop_start_q
    BY <1>1, FetchInLoop
  <2>3. OnlyLoopBranchTrains(if_id_r)'
    BY <1>1, <2>1, <2>2, PredictionLatched DEF OnlyLoopBranchTrains
  <2>4. OnlyLoopBranchTrains(id_ex_r)'
    BY <1>1, <1>2, <2>1, PredictionLatched DEF OnlyLoopBranchTrains
  <2> QED
    BY <2>3, <2>4
<1> QED
  BY <1>1, <1>3, <1>4 DEF Clock, Flush

LEMMA LoopStep ==
  ASSUME TypeOK, Safe(imem), PathInv, PredictionInv, ResolvedInTargets,
         FetchFaithful, LoopInv, Clock
  PROVE  LoopInv'
<1>1. CASE ~InLoop'
  BY <1>1 DEF LoopInv, LoopTracked, SlotsRecorded, LoopPredicted, OnlyLoopBranchTrains
<1>2. CASE StartsRecording
  BY <1>2, StartStep
<1>3. CASE StaysInLoop
  BY <1>3, LoopTrackedStep, SlotsStep, LoopPredictedStep, OnlyLoopBranchTrainsStep
     DEF LoopInv
<1> QED
  BY <1>1, <1>2, <1>3, BufferSteps

-----------------------------------------------------------------------------
(* Faithful fetch *)

(* In a replay, fetch is at a recorded slot. *)
LEMMA ReplayedSlot ==
  ASSUME TypeOK, Safe(imem), PathInv, PredictionInv, LoopInv, state_q = "LOOPING"
  PROVE  /\ read_idx_valid(pc_if) /\ read_idx(pc_if) \in 0 .. write_ptr_q - 1
         /\ pc_if = loop_start_q + 4 * read_idx(pc_if)
<1> DEFINE s == loop_start_q
           n == write_ptr_q
<1>1. InLoop
  BY DEF InLoop
<1>2. /\ s \in Nat /\ s \in Addresses /\ pc_if \in Nat /\ pc_if % 4 = 0
      /\ loop_branch = loop_end_q - 4 /\ s <= pc_if /\ pc_if <= loop_branch
      /\ loop_branch \in Word
  BY <1>1, FetchInLoop
<1>3. s % 4 = 0
  BY <1>2, AddressIff
<1>4. loop_end_q = s + 4 * n /\ n \in 0 .. BUFFER_DEPTH /\ loop_end_q \in Word
  BY <1>1 DEF LoopInv, SlotsRecorded, TypeOK, LBTypeOK
<1>5. loop_end_q \in Nat /\ pc_if < loop_end_q /\ pc_if - s \in Nat
      /\ pc_if - s < 4 * n /\ (pc_if - s) % 4 = 0 /\ pc_if - s < Modulus
  BY <1>2, <1>3, <1>4, ModulusFacts DEF Word
<1>6. Wrap(pc_if - s) = pc_if - s
  BY <1>5, ModulusFacts DEF Wrap
<1>7. (pc_if - s) \div 4 \in 0 .. n - 1 /\ pc_if - s = 4 * ((pc_if - s) \div 4)
  BY <1>4, <1>5
<1>8. ((pc_if - s) \div 4) % BUFFER_DEPTH = (pc_if - s) \div 4
  <2>1. \A k \in Nat : k < BUFFER_DEPTH => k % BUFFER_DEPTH = k
    BY DepthAssumption
  <2>2. (pc_if - s) \div 4 \in Nat /\ (pc_if - s) \div 4 < BUFFER_DEPTH
    BY <1>4, <1>7, DepthAssumption
  <2> QED
    BY <2>1, <2>2
<1>9. read_idx(pc_if) = (pc_if - s) \div 4
  BY <1>6, <1>8 DEF read_idx
<1>10. read_idx(pc_if) < n
  BY <1>4, <1>7, <1>9
<1> QED
  BY <1>2, <1>5, <1>7, <1>9, <1>10 DEF read_idx_valid, loop_active, in_loop

LEMMA FetchedWord ==
  ASSUME TypeOK, Safe(imem), PathInv, PredictionInv, LoopInv
  PROVE  instr_if_final = InstrAt(pc_if)
<1>1. CASE state_q = "LOOPING"
  <2>1. /\ read_idx_valid(pc_if) /\ read_idx(pc_if) \in 0 .. write_ptr_q - 1
        /\ pc_if = loop_start_q + 4 * read_idx(pc_if)
    BY <1>1, ReplayedSlot
  <2>2. buffer[read_idx(pc_if)] = InstrAt(loop_start_q + 4 * read_idx(pc_if))
    BY <1>1, <2>1 DEF LoopInv, SlotsRecorded, InLoop
  <2> QED
    BY <2>1, <2>2 DEF instr_if_final, instruction_out
<1>2. CASE state_q # "LOOPING"
  BY <1>2, CapturedWord DEF instr_if_final, instruction_out, read_idx_valid, loop_active
<1> QED
  BY <1>1, <1>2

LEMMA FaithfulStep ==
  ASSUME TypeOK, Safe(imem), PathInv, PredictionInv, LoopInv, FetchFaithful, Clock
  PROVE  FetchFaithful'
<1>0. imem' = imem
  BY DEF Clock
<1>1. CASE Flush
  BY <1>1, ZeroFields DEF Flush, FetchFaithful
<1>2. CASE Stall
  BY <1>0, <1>2 DEF Stall, FetchFaithful
<1>3. CASE Advance
  <2>1. if_id_r'.pc = pc_if /\ if_id_r'.instr = instr_if_final
    BY <1>3 DEF Advance, if_id_next
  <2> QED
    BY <1>0, <2>1, FetchedWord DEF FetchFaithful, InstrAt
<1> QED
  BY <1>1, <1>2, <1>3 DEF Clock

-----------------------------------------------------------------------------
(* Power-up, reset and the whole step *)

FetchInv == PredictionInv /\ LoopInv /\ FetchFaithful

LEMMA FetchInit == Init => FetchInv
<1> SUFFICES ASSUME Init PROVE FetchInv
  OBVIOUS
<1>1. AlignedPath
  BY ZeroAddress DEF Init, AlignedPath, if_id_zero, id_ex_zero
<1>2. EntryTargets
  BY AddressIff, EntryIndex DEF Init, BPInit, EntryTargets
<1>3. /\ TargetPredicted(if_id_r) /\ TargetPredicted(id_ex_r)
      /\ EntryKept(if_id_r) /\ EntryKept(id_ex_r)
  BY ZeroFields DEF Init, TargetPredicted, EntryKept
<1>4. LoopInv
  BY DEF Init, LBInit, LoopInv, InLoop, LoopTracked, SlotsRecorded, LoopPredicted,
         OnlyLoopBranchTrains
<1>5. FetchFaithful
  BY ZeroFields DEF Init, FetchFaithful
<1> QED
  BY <1>1, <1>2, <1>3, <1>4, <1>5 DEF FetchInv, PredictionInv

LEMMA FetchReset == Reset => FetchInv'
<1> SUFFICES ASSUME Reset PROVE FetchInv'
  OBVIOUS
<1>1. AlignedPath'
  BY ZeroAddress DEF Reset, AlignedPath, if_id_zero, id_ex_zero
<1>2. EntryTargets'
  BY AddressIff, EntryIndex DEF Reset, BPReset, EntryTargets
<1>3. /\ TargetPredicted(if_id_r)' /\ TargetPredicted(id_ex_r)'
      /\ EntryKept(if_id_r)' /\ EntryKept(id_ex_r)'
  BY ZeroFields DEF Reset, TargetPredicted, EntryKept
<1>4. LoopInv'
  BY DEF Reset, LBReset, LoopInv, InLoop, LoopTracked, SlotsRecorded, LoopPredicted,
         OnlyLoopBranchTrains
<1>5. FetchFaithful'
  BY ZeroFields DEF Reset, FetchFaithful
<1> QED
  BY <1>1, <1>2, <1>3, <1>4, <1>5 DEF FetchInv, PredictionInv

LEMMA FetchStutter == FetchInv /\ UNCHANGED vars => FetchInv'
<1> SUFFICES ASSUME FetchInv, UNCHANGED vars PROVE FetchInv'
  OBVIOUS
<1>1. UNCHANGED <<pc_if, if_id_r, id_ex_r, imem, bht, btb, btb_valid, btb_tag, state_q,
                  loop_start_q, loop_end_q, write_ptr_q, buffer>>
  BY DEF vars, pipe_vars, bp_vars, lb_vars
<1>2. PredictionInv'
  BY <1>1 DEF FetchInv, PredictionInv, AlignedPath, EntryTargets, TargetPredicted,
              EntryKept
<1>3. LoopInv'
  BY <1>1 DEF FetchInv, LoopInv, InLoop, loop_branch, EntryOf, InstrAt, LoopTracked,
              SlotsRecorded, LoopPredicted, OnlyLoopBranchTrains
<1>4. FetchFaithful'
  BY <1>1 DEF FetchInv, FetchFaithful
<1> QED
  BY <1>2, <1>3, <1>4 DEF FetchInv

LEMMA FetchStep ==
  TypeOK /\ Safe(imem) /\ Implemented(imem) /\ NoLoadForwarded /\ PathInv
    /\ DataInv /\ FetchInv /\ JumpsForward' /\ [Next]_vars => FetchInv'
<1> SUFFICES ASSUME TypeOK, Safe(imem), Implemented(imem), NoLoadForwarded,
                    PathInv, DataInv, FetchInv, JumpsForward', [Next]_vars
             PROVE  FetchInv'
  OBVIOUS
<1>1. CASE Clock
  <2>1. ResolvedInTargets
    BY <1>1, TargetResolved
  <2> QED
    BY <1>1, <2>1, PredictionStep, LoopStep, FaithfulStep DEF FetchInv
<1>2. CASE Reset
  BY <1>2, FetchReset
<1>3. CASE UNCHANGED vars
  BY <1>3, FetchStutter
<1> QED
  BY <1>1, <1>2, <1>3 DEF Next

-----------------------------------------------------------------------------
(* The theorems *)

(* The programs of instructions the core has and loops it can replay.      *)
ProgsAdmitted == ProgsImplemented /\ \A p \in Progs : Safe(p)

LEMMA FetchCorrect ==
  ProgsAdmitted =>
    (Spec /\ []JumpsForward => [](TypeOK /\ Safe(imem) /\ PathInv /\ FetchInv))
<1> SUFFICES ASSUME ProgsAdmitted
             PROVE  Spec /\ []JumpsForward
                      => [](TypeOK /\ Safe(imem) /\ PathInv /\ FetchInv)
  OBVIOUS
<1>1. Init => Implemented(imem) /\ Safe(imem)
  BY DEF Init, ProgsAdmitted, ProgsImplemented
<1>2. Implemented(imem) /\ Safe(imem) /\ [Next]_vars
        => Implemented(imem)' /\ Safe(imem)'
  BY FrontSteps DEF Implemented, Safe, WordTargets, StraightBody, NoStallAtEntry,
     NoAliasAtEntry, LoopEndExists
<1>3. FetchInv => FetchFaithful
  BY DEF FetchInv
<1> QED
  BY <1>1, <1>2, <1>3, TypeCorrect, LoadNeverForwarded, PathInit, PathStep, DataInit,
     DataStep, FetchInit, FetchStep, PTL DEF Spec

(* loop_buffer.sv returns what instruction memory holds: every word that   *)
(* reaches ID, fetched or replayed, is the word at its address, whatever   *)
(* the program of ProgsAdmitted does and however often it is reset.        *)
THEOREM FetchIsFaithful ==
  ProgsAdmitted => (Spec /\ []JumpsForward => []FetchFaithful)
<1>1. FetchInv => FetchFaithful
  BY DEF FetchInv
<1> QED
  BY <1>1, FetchCorrect, PTL

(* riscv_core.sv, the address freeze: in no cycle of a replay does the     *)
(* word read at the frozen address reach IF/ID.                            *)
THEOREM FrozenWordUnused ==
  ProgsAdmitted => (Spec /\ []JumpsForward => []FrozenReadUnused)
<1>1. TypeOK /\ Safe(imem) /\ PathInv /\ FetchInv => FrozenReadUnused
  BY ReplayedSlot DEF FetchInv, FrozenReadUnused, gate_icache_clk
<1> QED
  BY <1>1, FetchCorrect, PTL

LEMMA SlotsFaithful ==
  ASSUME TypeOK, Safe(imem), PathInv, FetchInv, InLoop
  PROVE  /\ \A k \in 0 .. write_ptr_q - 1 :
              buffer[k] = instruction_mem(imem, Wrap(loop_start_q + 4 * k))
         /\ state_q = "LOOPING" => 4 * write_ptr_q = loop_end_q - loop_start_q
<1>1. /\ \A k \in 0 .. write_ptr_q - 1 : buffer[k] = InstrAt(loop_start_q + 4 * k)
      /\ state_q = "RECORDING" => pc_if = loop_start_q + 4 * write_ptr_q
      /\ state_q = "LOOPING" => loop_end_q = loop_start_q + 4 * write_ptr_q
  BY DEF FetchInv, LoopInv, SlotsRecorded
<1>2. /\ loop_start_q \in Nat /\ pc_if \in Nat /\ pc_if <= loop_branch
      /\ loop_branch \in Word /\ loop_branch = loop_end_q - 4
  BY FetchInLoop DEF FetchInv
<1>3. write_ptr_q \in Nat /\ loop_end_q \in Word /\ BUFFER_DEPTH \in Nat
  BY DepthAssumption DEF TypeOK, LBTypeOK
<1>4. loop_start_q + 4 * write_ptr_q < Modulus
  BY <1>1, <1>2, <1>3, ModulusFacts DEF InLoop, Word
<1>5. \A k \in 0 .. write_ptr_q - 1 : Wrap(loop_start_q + 4 * k) = loop_start_q + 4 * k
  BY <1>2, <1>3, <1>4, ModulusFacts DEF Wrap
<1>6. state_q = "LOOPING" => 4 * write_ptr_q = loop_end_q - loop_start_q
  BY <1>1, <1>2, <1>3, ModulusFacts DEF Word
<1> QED
  BY <1>1, <1>5, <1>6 DEF InstrAt

(* loop_buffer.sv, the recording: whatever stalls, flushes and trainings   *)
(* come in between, slot k is the word k places after loop_start, and a    *)
(* replay starts only when the slots reach up to the loop branch.          *)
THEOREM RecordingIsFaithful ==
  ProgsAdmitted => (Spec /\ []JumpsForward => []RecordingFaithful)
<1>1. TypeOK /\ Safe(imem) /\ PathInv /\ FetchInv => RecordingFaithful
  BY SlotsFaithful DEF RecordingFaithful, InLoop
<1> QED
  BY <1>1, FetchCorrect, PTL

(* Predictor, loop buffer and pipeline together implement the machine that *)
(* executes one instruction at a time: nothing is assumed of the fetched   *)
(* words any more, only of the program.                                    *)
THEOREM CoreImplementsISA ==
  ProgsAdmitted => (Spec /\ []JumpsForward => RefinesISA)
<1>1. ProgsAdmitted => ProgsImplemented
  BY DEF ProgsAdmitted
<1> QED
  BY <1>1, FetchIsFaithful, PipelineImplementsISA, PTL

(* Programs without register jumps. *)
NoRegisterJumps == \A p \in Progs : \A w \in DOMAIN p : p[w].opcode # "JALR"

(* Without register jumps the hypothesis on executions disappears: what is *)
(* left can be read off the program text.                                  *)
THEOREM CoreImplementsISAWithoutRegisterJumps ==
  ProgsAdmitted /\ NoRegisterJumps => (Spec => RefinesISA)
<1> SUFFICES ASSUME ProgsAdmitted, NoRegisterJumps PROVE Spec => RefinesISA
  OBVIOUS
<1>1. Init => imem \in Progs
  BY DEF Init
<1>2. imem \in Progs /\ [Next]_vars => (imem \in Progs)'
  BY FrontSteps
<1>3. TypeOK /\ imem \in Progs => JumpsForward
  <2> SUFFICES ASSUME TypeOK, imem \in Progs PROVE Arch!Instruction.opcode # "JALR"
    BY DEF JumpsForward
  <2>1. arch_pc \in Word
    BY DEF arch_pc, TypeOK, ex_mem_t, id_ex_t, if_id_t
  <2>2. (arch_pc \div 4) % IMEM_WORDS \in DOMAIN imem
    BY <2>1, ModulusFacts, MemoryAssumption DEF TypeOK, Programs, Word
  <2>3. Arch!Instruction = imem[(arch_pc \div 4) % IMEM_WORDS]
    BY SameOperators DEF Arch!Instruction, instruction_mem
  <2> QED
    BY <2>2, <2>3 DEF NoRegisterJumps
<1> QED
  BY <1>1, <1>2, <1>3, TypeCorrect, CoreImplementsISA, PTL DEF Spec
=============================================================================
