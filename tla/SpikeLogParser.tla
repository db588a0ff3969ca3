--------------------------- MODULE SpikeLogParser ---------------------------
(***************************************************************************)
(* shared/spike/spike_log_parser.py, and the extraction of the instruction *)
(* stream from the same log in shared/spike/run_spike.py.                  *)
(*                                                                         *)
(* A log is a sequence of lines.  A line keeps what the regular            *)
(* expressions tell apart: its tag, and for plain and commit lines the pc, *)
(* the instruction and the items printed behind them, each <<"x", rd, v>>, *)
(* <<"mem", address>>, <<"mem", address, v>> or some other item.  A field  *)
(* that is None in the code is the empty sequence.                         *)
(***************************************************************************)
EXTENDS Integers, Sequences, SequencesExt

CONSTANT WORD     \* 2^32

ASSUME WordAssumption == WORD \in Nat /\ WORD > 0

None == <<>>

-----------------------------------------------------------------------------
(* The line patterns.  An item pattern is anchored behind the instruction, *)
(* so it sees the first item only.                                         *)
WARNING_OR_BLANK(line) == line.tag \in {"blank", "warning"}
EXCEPTION_RE(line) == line.tag = "exception"
REG_RE(line) ==
  line.tag = "commit" /\ line.items # <<>> /\ line.items[1][1] = "x"
MEM_RE(line) ==
  line.tag = "commit" /\ line.items # <<>> /\ line.items[1][1] = "mem"
                      /\ Len(line.items[1]) = 3
MEM_READ_RE(line) ==
  line.tag = "commit" /\ Len(line.items) = 1 /\ line.items[1][1] = "mem"
                      /\ Len(line.items[1]) = 2
BARE_COMMIT_RE(line) == line.tag = "commit" /\ line.items = <<>>
PLAIN_RE(line) == line.tag = "plain"

Key(line) == <<line.pc, line.instr>>

(* A context maps each key seen so far to its queue of commits. *)
queue(context, key) == IF key \in DOMAIN context THEN context[key] ELSE <<>>

enqueue(context, key, commit) ==
  [k \in DOMAIN context \cup {key} |->
     IF k = key THEN Append(queue(context, key), commit) ELSE context[k]]

(* One line of the log, tried against the patterns in the code's order. *)
read_line(st, line) ==
  CASE WARNING_OR_BLANK(line) -> st
    [] EXCEPTION_RE(line) -> [st EXCEPT !.exceptions = @ + 1]
    [] REG_RE(line) ->
         [st EXCEPT !.reg = enqueue(@, Key(line),
                                    <<line.items[1][2], line.items[1][3] % WORD>>)]
    [] MEM_RE(line) ->
         [st EXCEPT !.mem = enqueue(@, Key(line),
                                    <<line.items[1][2], line.items[1][3] % WORD>>)]
    [] MEM_READ_RE(line) \/ BARE_COMMIT_RE(line) -> st
    [] PLAIN_RE(line) ->
         [st EXCEPT !.seq = Append(@, [pc |-> line.pc % WORD,
                                       instr |-> line.instr % WORD])]
    [] OTHER -> [st EXCEPT !.unrecognized = @ + 1]

pop(context, key) ==
  IF queue(context, key) = <<>> THEN context
  ELSE [context EXCEPT ![key] = Tail(@)]

front(context, key) ==
  IF queue(context, key) = <<>> THEN None ELSE Head(queue(context, key))

(* Mutant: the latest commit is taken first. *)
correlate_last_in_first_out(st, rec) ==
  LET last(context) == IF queue(context, Key(rec)) = <<>> THEN None
                       ELSE Last(queue(context, Key(rec)))
      shorter(context) == IF queue(context, Key(rec)) = <<>> THEN context
                          ELSE [context EXCEPT ![Key(rec)] = Front(@)]
  IN [records |-> Append(st.records, [pc |-> rec.pc, instr |-> rec.instr,
                                      reg |-> last(st.reg), mem |-> last(st.mem)]),
      reg |-> shorter(st.reg), mem |-> shorter(st.mem)]

(* The next record takes the oldest commits of its key. *)
correlate(st, rec) ==
  [records |-> Append(st.records,
                 [pc |-> rec.pc, instr |-> rec.instr,
                  reg |-> front(st.reg, Key(rec)), mem |-> front(st.mem, Key(rec))]),
   reg |-> pop(st.reg, Key(rec)), mem |-> pop(st.mem, Key(rec))]

(* The loop over the lines, then the loop over the plain lines found. *)
nothing_read == [seq |-> <<>>, reg |-> <<>>, mem |-> <<>>, exceptions |-> 0, unrecognized |-> 0]

read_lines(log) ==
  LET read[k \in 0 .. Len(log)] ==
        IF k = 0 THEN nothing_read ELSE read_line(read[k - 1], log[k])
  IN read[Len(log)]

correlate_all(read) ==
  LET joined[k \in 0 .. Len(read.seq)] ==
        IF k = 0 THEN [records |-> <<>>, reg |-> read.reg, mem |-> read.mem]
        ELSE correlate(joined[k - 1], read.seq[k])
  IN joined[Len(read.seq)]

parse_spike_log(log) ==
  LET read == read_lines(log)
  IN [records |-> correlate_all(read).records,
      unrecognized |-> read.unrecognized, exceptions |-> read.exceptions]

-----------------------------------------------------------------------------
(* truncate_at_self_loop: a pc repeated repeat_threshold times in a row is *)
(* the epilogue; keep its first record.                                    *)
trunc_spike(records, repeat_threshold) ==
  LET full == {i \in repeat_threshold .. Len(records) :
                 \A j \in i - repeat_threshold + 1 .. i : records[j].pc = records[i].pc}
  IN IF full = {} THEN records ELSE SubSeq(records, 1, Min(full) - repeat_threshold + 1)

-----------------------------------------------------------------------------
(* run_spike.py: run_spike_and_parse keeps the plain lines of the log, and *)
(* export_for_sv writes their instruction words, one per line.             *)
run_spike_and_parse(log) ==
  LET parsed[k \in 0 .. Len(log)] ==
        IF k = 0 THEN <<>>
        ELSE IF PLAIN_RE(log[k]) THEN Append(parsed[k - 1], log[k]) ELSE parsed[k - 1]
  IN parsed[Len(log)]
export_for_sv(parsed) == [k \in DOMAIN parsed |-> parsed[k].instr]
=============================================================================
