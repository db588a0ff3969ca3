----------------------------- MODULE SvLogParser -----------------------------
(***************************************************************************)
(* shared/spike/sv_log_parser.py.  A line of commit_log.txt is a record    *)
(* with its kind, its retirement index and its fields; a field the         *)
(* simulator prints with 'x' digits is Unknown.                            *)
(***************************************************************************)
EXTENDS Integers, Sequences, SequencesExt

Unknown == -1

PC_RE(line) == line.kind = "PC" /\ line.pc # Unknown
SV_REG_RE(line) == line.kind = "REG" /\ line.val # Unknown
SV_MEM_RE(line) == line.kind = "MEM" /\ line.addr # Unknown /\ line.val # Unknown

recognized(line) == PC_RE(line) \/ SV_REG_RE(line) \/ SV_MEM_RE(line)

(* pc_by_idx, reg_by_idx and mem_by_idx: the last line of this kind with   *)
(* this index counts, <<>> if there is none.                               *)
by_idx(log, kind, idx) ==
  LET at == {k \in DOMAIN log :
               log[k].kind = kind /\ recognized(log[k]) /\ log[k].idx = idx}
      line == log[Max(at)]
  IN IF at = {} THEN <<>>
     ELSE CASE kind = "PC" -> line.pc
            [] kind = "REG" -> <<line.rd, line.val>>
            [] kind = "MEM" -> <<line.addr, line.val>>

(* The members of a set of numbers in increasing order. *)
sorted(S) == [k \in 1 .. Cardinality(S) |->
                CHOOSE e \in S : Cardinality({d \in S : d < e}) = k - 1]

(* One record per index with a PC line, in the order of the indices. *)
parse_sv_log(log) ==
  LET idxs == sorted({log[k].idx : k \in {j \in DOMAIN log : PC_RE(log[j])}})
  IN [records |-> [k \in DOMAIN idxs |->
        [idx |-> idxs[k],
         pc |-> by_idx(log, "PC", idxs[k]),
         reg |-> by_idx(log, "REG", idxs[k]),
         mem |-> by_idx(log, "MEM", idxs[k])]],
      unrecognized |-> Cardinality({k \in DOMAIN log : ~recognized(log[k])})]

(* truncate_at_self_loop, a copy of the one for Spike's log. *)
trunc_sv(records, repeat_threshold) ==
  LET full == {i \in repeat_threshold .. Len(records) :
                 \A j \in i - repeat_threshold + 1 .. i : records[j].pc = records[i].pc}
  IN IF full = {} THEN records ELSE SubSeq(records, 1, Min(full) - repeat_threshold + 1)
=============================================================================
