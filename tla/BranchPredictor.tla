-------------------------- MODULE BranchPredictor ---------------------------
(***************************************************************************)
(* rtl/branch_predictor.sv: a direct-mapped branch predictor.  An entry    *)
(* holds a 2-bit saturating counter (bht) and, once a taken branch has     *)
(* trained it, a target (btb) tagged with the upper bits of that branch's  *)
(* address.  Lookups are combinational; training happens on a clock edge.  *)
(***************************************************************************)
EXTENDS RiscvPkg

CONSTANT ENTRIES   \* 2^IDX_BITS entries (64 in the RTL)

ASSUME EntriesAssumption == ENTRIES \in Nat /\ ENTRIES > 0

VARIABLES bht, btb, btb_valid, btb_tag

bp_vars == <<bht, btb, btb_valid, btb_tag>>

Entries == 0 .. ENTRIES - 1

(* pc[IDX_BITS+1:2] and pc[31:IDX_BITS+2] *)
idx(pc) == (pc \div 4) % ENTRIES
tag(pc) == (pc \div 4) \div ENTRIES

(* Mutant: the predictor before tags were added. *)
predict_taken_untagged(pc) == btb_valid[idx(pc)] /\ bht[idx(pc)] >= 2

predict_taken(pc) ==
  btb_valid[idx(pc)] /\ btb_tag[idx(pc)] = tag(pc) /\ bht[idx(pc)] >= 2

predict_target(pc) == btb[idx(pc)]

BPTypeOK ==
  /\ bht \in [Entries -> 0 .. 3]
  /\ btb \in [Entries -> Word]
  /\ btb_valid \in [Entries -> BOOLEAN]
  /\ btb_tag \in [Entries -> Nat]

(* Reset: every counter weakly not-taken, no entry valid. *)
BPInit ==
  /\ bht = [i \in Entries |-> 1]
  /\ btb = [i \in Entries |-> 0]
  /\ btb_valid = [i \in Entries |-> FALSE]
  /\ btb_tag = [i \in Entries |-> 0]

BPReset ==
  /\ bht' = [i \in Entries |-> 1]
  /\ btb' = [i \in Entries |-> 0]
  /\ btb_valid' = [i \in Entries |-> FALSE]
  /\ btb_tag' = [i \in Entries |-> 0]

(* Mutant: the 2-bit counter does not saturate. *)
BPTrainTaken_unsaturated(pc, target) ==
  /\ bht' = [bht EXCEPT ![idx(pc)] = @ + 1]
  /\ btb' = [btb EXCEPT ![idx(pc)] = target]
  /\ btb_valid' = [btb_valid EXCEPT ![idx(pc)] = TRUE]
  /\ btb_tag' = [btb_tag EXCEPT ![idx(pc)] = tag(pc)]

(* A taken branch saturates its counter upwards and claims the entry. *)
BPTrainTaken(pc, target) ==
  /\ bht' = [bht EXCEPT ![idx(pc)] = IF @ # 3 THEN @ + 1 ELSE @]
  /\ btb' = [btb EXCEPT ![idx(pc)] = target]
  /\ btb_valid' = [btb_valid EXCEPT ![idx(pc)] = TRUE]
  /\ btb_tag' = [btb_tag EXCEPT ![idx(pc)] = tag(pc)]

(* A branch that falls through only counts down: the entry keeps its target. *)
BPTrainNotTaken(pc) ==
  /\ bht' = [bht EXCEPT ![idx(pc)] = IF @ # 0 THEN @ - 1 ELSE @]
  /\ UNCHANGED <<btb, btb_valid, btb_tag>>

(* One clock edge. *)
BPClock(train_valid, train_pc, train_taken, train_target) ==
  \/ train_valid /\ train_taken /\ BPTrainTaken(train_pc, train_target)
  \/ train_valid /\ ~train_taken /\ BPTrainNotTaken(train_pc)
  \/ ~train_valid /\ UNCHANGED bp_vars
=============================================================================
