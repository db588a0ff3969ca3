--------------------------- MODULE CompareAccuracy ---------------------------
(***************************************************************************)
(* shared/spike/compare_accuracy.py: what the report says of two logs.     *)
(* Printing is left out; "warned" stands for its notes and warnings.       *)
(***************************************************************************)
EXTENDS SpikeLogParser, SvLogParser

CONSTANT REPEAT_THRESHOLD   \* default of truncate_at_self_loop (3)

ASSUME ThresholdAssumption == REPEAT_THRESHOLD \in Nat /\ REPEAT_THRESHOLD > 1

BASE_OFFSET == WORD \div 2      \* 0x80000000

ASSUME BaseAssumption == 2 * BASE_OFFSET = WORD

-----------------------------------------------------------------------------
(* Mutant: no tolerance for the load address. *)
values_match_exactly(sv_val, spike_val) == sv_val = spike_val

values_match_allowing_pc_base(sv_val, spike_val) ==
  \/ sv_val = spike_val
  \/ (sv_val + BASE_OFFSET) % WORD = spike_val
  \/ sv_val = (spike_val + BASE_OFFSET) % WORD

(* Everything before the first record at the entry address is dropped. *)
trim_boot_stub(records, entry_addr) ==
  LET at == {i \in DOMAIN records : records[i].pc = entry_addr}
  IN IF at = {} THEN records ELSE SubSeq(records, Min(at), Len(records))

pc_ok(sp, sv, spike_base_pc, sv_base_pc) ==
  (sp.pc - spike_base_pc) % WORD = (sv.pc - sv_base_pc) % WORD

(* A write to x0 that only one side logs is dropped, and its value is 0. *)
without_x0(reg, other) ==
  IF other = None /\ reg # None /\ reg[1] = 0 THEN None ELSE reg
x0_zeroed(reg) == IF reg[1] = 0 THEN 0 ELSE reg[2]

(* Mutant: the presence check is missing. *)
reg_ok_if_present(sp, sv) ==
  sp.reg # None /\ sv.reg # None =>
    sp.reg[1] = sv.reg[1] /\ values_match_allowing_pc_base(sv.reg[2], sp.reg[2])

reg_ok(sp, sv) ==
  LET sv_reg == without_x0(sv.reg, sp.reg)
      sp_reg == without_x0(sp.reg, sv_reg)
  IN /\ (sp_reg = None) = (sv_reg = None)
     /\ sp_reg # None =>
          /\ sp_reg[1] = sv_reg[1]
          /\ values_match_allowing_pc_base(x0_zeroed(sv_reg), x0_zeroed(sp_reg))

mem_ok(sp, sv) ==
  /\ (sp.mem = None) = (sv.mem = None)
  /\ sp.mem # None =>
       /\ values_match_allowing_pc_base(sv.mem[1], sp.mem[1])
       /\ sv.mem[2] = sp.mem[2]

-----------------------------------------------------------------------------
(* The report: how many records were compared and how many of them passed, *)
(* and whether it warns of unequal lengths, exceptions or lines it could   *)
(* not read.  An accuracy is reported if there is a record to compare.     *)
compare(spike_log, sv_log) ==
  LET spike_parsed == parse_spike_log(spike_log)
      sv_parsed == parse_sv_log(sv_log)
      spike == trunc_spike(trim_boot_stub(spike_parsed.records, BASE_OFFSET), REPEAT_THRESHOLD)
      sv == trunc_sv(sv_parsed.records, REPEAT_THRESHOLD)
      total == Min({Len(spike), Len(sv)})
      ok(i) == /\ pc_ok(spike[i], sv[i], spike[1].pc, sv[1].pc)
               /\ reg_ok(spike[i], sv[i]) /\ mem_ok(spike[i], sv[i])
  IN [total |-> total,
      passed |-> Cardinality({i \in 1 .. total : ok(i)}),
      warned |-> \/ Len(spike) # Len(sv) \/ spike_parsed.exceptions > 0
                 \/ spike_parsed.unrecognized > 0 \/ sv_parsed.unrecognized > 0]
=============================================================================
