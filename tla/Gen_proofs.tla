----------------------------- MODULE Gen_proofs -----------------------------
(***************************************************************************)
(* The programs of shared/spike/gen_program.py, for every length, register *)
(* count, window, data memory size, span, loop length and trip count that  *)
(* the assumptions of GenProgram allow: what the generated words are, that *)
(* every load has its store, and what a run of them can do.                *)
(***************************************************************************)
EXTENDS GenRun, SequenceTheorems, TLAPS

-----------------------------------------------------------------------------
(* The inductive invariant of the generator, part by part *)

setup_words == IF n > 1 THEN 2 ELSE 1

Generated == phase \in {"pass1", "pass2", "run"}

(* x31 is set up by the first words of a program that fits. *)
SetupPlaced ==
  Generated =>
    /\ n > 0 /\ ~TooLong /\ setup_words <= i
    /\ instrs[0] = Word("AUIPC", base, {}, hi20(n))
    /\ n > 1 => instrs[1] = addi(base, base, lo12(n))

(* A loop block: the counter's initial value, the body, the decrement and  *)
(* the branch back to the body.                                            *)
BlockPlaced(r) ==
  /\ setup_words <= r[1] /\ r[1] + 4 <= r[2] /\ r[2] <= n
  /\ \E t \in LOOP_TRIP_COUNTS[1] .. LOOP_TRIP_COUNTS[2] :
       instrs[r[1]] = addi(counter, 0, t)
  /\ \A k \in r[1] + 1 .. r[2] - 3 : instrs[k] \in gen_body_instr(Offsets)
  /\ instrs[r[2] - 2] = addi(counter, counter, -1)
  /\ instrs[r[2] - 1] = Word("BNE", 0, {counter, 0}, -(r[2] - r[1] - 2))

BlocksPlaced ==
  \A r \in loop_ranges : BlockPlaced(r) /\ (phase = "pass1" => r[2] <= i)

BlocksDisjoint ==
  \A r, q \in loop_ranges : r = q \/ r[2] <= q[1] \/ q[2] <= r[1]

(* The words pass 2 still has to fill. *)
Pending(k) == \E j \in 1 .. Len(single_slots) : single_slots[j] = k

SlotsOpen ==
  \A k \in 0 .. n - 1 : Pending(k) =>
    /\ setup_words <= k /\ ~in_any_range(k, loop_ranges)
    /\ phase = "pass1" => k < i

SlotsOrdered ==
  \A a, b \in 1 .. Len(single_slots) : a < b => single_slots[a] < single_slots[b]

(* Nothing is placed where pass 1 has not been or pass 2 is still to come, *)
NotYetPlaced ==
  Generated => \A k \in 0 .. n - 1 :
    Pending(k) \/ (phase = "pass1" /\ k >= i) => instrs[k] = NoWord

(* ... and everywhere else there is a word of its kind.                    *)
WordsPlaced ==
  Generated => \A k \in 0 .. n - 1 :
    \/ k < setup_words
    \/ in_any_range(k, loop_ranges)
    \/ Pending(k)
    \/ phase = "pass1" /\ k >= i
    \/ phase # "pass1" /\ instrs[k] \in gen_one_instr(Offsets, k, n, loop_ranges)

GenInv ==
  /\ GenTypeOK /\ SetupPlaced /\ BlocksPlaced /\ BlocksDisjoint
  /\ SlotsOpen /\ SlotsOrdered /\ NotYetPlaced /\ WordsPlaced
  /\ phase = "start" =>
       i = 0 /\ loop_ranges = {} /\ single_slots = <<>> /\ written_offsets = {}
  /\ phase = "run" => single_slots = <<>>

(* An offset that may be loaded from was stored to by a word that is in a  *)
(* loop block or in front of everything pass 2 has still to fill.          *)
StoresTo(s, o) == instrs[s].op = "SW" /\ instrs[s].imm = o

OffsetsStored ==
  Generated => \A o \in written_offsets : \E s \in 0 .. n - 1 :
    /\ StoresTo(s, o)
    /\ in_any_range(s, loop_ranges) \/ \A k \in 0 .. n - 1 : Pending(k) => s < k
    /\ phase = "pass1" => s < i

LoadsBacked ==
  Generated => \A k \in 0 .. n - 1 : instrs[k].op = "LW" =>
    \E s \in 0 .. n - 1 :
      /\ s < k \/ (in_any_range(s, loop_ranges) /\ ~in_any_range(k, loop_ranges))
      /\ StoresTo(s, instrs[k].imm)

StoreInv == OffsetsStored /\ LoadsBacked

-----------------------------------------------------------------------------
(* Registers and words *)

LEMMA RegisterFacts ==
  /\ counter \in Regs /\ base \in Regs /\ counter # base /\ counter # 0 /\ base # 0
  /\ 0 \in reg /\ reg \subseteq Regs /\ counter \notin reg /\ base \notin reg
  /\ preamble_words \in Nat /\ preamble_words = NREGS - 1
BY SizesAssumption DEF counter, base, reg, Regs, preamble_words

LEMMA OffsetFacts ==
  /\ Offsets \subseteq Int
  /\ \A o \in Offsets : -LOAD_STORE_WINDOW <= o /\ o <= LOAD_STORE_WINDOW
BY SizesAssumption DEF Offsets

(* The three kinds of word a body, or any slot, may hold. *)
LEMMA BodyWords ==
  ASSUME NEW written, written \subseteq Offsets, NEW w \in gen_body_instr(written)
  PROVE  /\ w \in Instr /\ w \in gen_body_instr(Offsets)
         /\ \/ w.op = "ALU" /\ w.rd \in reg /\ w.srcs \subseteq reg
            \/ w.op = "LW" /\ w.rd \in reg /\ w.imm \in written
            \/ /\ w.op = "SW" /\ w.imm \in Offsets
               /\ w.srcs \subseteq reg \cup {base}
<1>1. CASE w \in arithmetic
  <2>1. PICK rd \in reg, a \in reg, b \in reg : w = Word("ALU", rd, {a, b}, 0)
    BY <1>1 DEF arithmetic, Word
  <2> QED
    BY <1>1, <2>1, RegisterFacts DEF Word, Instr, Ops, gen_body_instr
<1>2. CASE w \in store
  <2>1. PICK r \in reg, o \in Offsets : w = Word("SW", 0, {base, r}, o)
    BY <1>2 DEF store
  <2> QED
    BY <1>2, <2>1, RegisterFacts, OffsetFacts DEF Word, Instr, Ops, gen_body_instr
<1>3. CASE w \in load(written)
  <2>1. PICK rd \in reg, o \in written : w = Word("LW", rd, {base}, o)
    BY <1>3 DEF load
  <2>2. w \in load(Offsets)
    BY <2>1 DEF load
  <2> QED
    BY <2>1, <2>2, RegisterFacts, OffsetFacts DEF Word, Instr, Ops, gen_body_instr
<1> QED
  BY <1>1, <1>2, <1>3 DEF gen_body_instr

(* Control flow goes forward, at most to the epilogue, and not into a loop *)
(* block.                                                                  *)
LEMMA CandidateFacts ==
  ASSUME NEW total \in Nat, NEW pos \in 0 .. total - 1, NEW ranges,
         NEW d \in candidates(pos, total, ranges)
  PROVE  /\ d \in Int /\ 1 <= d /\ pos + d <= total
         /\ ~in_any_range(pos + d, ranges)
BY SizesAssumption DEF candidates, max_span

LEMMA SlotWords ==
  ASSUME NEW written, written \subseteq Offsets, NEW total \in Nat,
         NEW pos \in 0 .. total - 1, NEW ranges,
         NEW w \in gen_one_instr(written, pos, total, ranges)
  PROVE  /\ w \in Instr /\ w \in gen_one_instr(Offsets, pos, total, ranges)
         /\ \/ w \in gen_body_instr(written)
            \/ /\ w.op = "BRANCH" \/ (w.op = "JAL" /\ w.rd = 0)
               /\ 1 <= w.imm /\ pos + w.imm <= total
               /\ ~in_any_range(pos + w.imm, ranges)
<1>1. CASE w \in gen_body_instr(written)
  BY <1>1, BodyWords DEF gen_one_instr
<1>2. CASE w \in control_flow(pos, total, ranges) /\ w \notin gen_body_instr(written)
  <2>1. w \notin arithmetic
    BY <1>2 DEF gen_body_instr
  <2>2. CASE w \in branch(candidates(pos, total, ranges))
    <3>1. PICK a \in reg, b \in reg, d \in candidates(pos, total, ranges) :
            w = Word("BRANCH", 0, {a, b}, d)
      BY <2>2 DEF branch, Word
    <3> QED
      BY <1>2, <3>1, CandidateFacts, RegisterFacts DEF Word, Instr, Ops, gen_one_instr
  <2>3. CASE w \in jal(candidates(pos, total, ranges))
    <3>1. PICK d \in candidates(pos, total, ranges) : w = Word("JAL", 0, {}, d)
      BY <2>3 DEF jal
    <3> QED
      BY <1>2, <3>1, CandidateFacts, RegisterFacts DEF Word, Instr, Ops, gen_one_instr
  <2> QED
    BY <1>2, <2>1, <2>2, <2>3 DEF control_flow
<1> QED
  BY <1>1, <1>2 DEF gen_one_instr

LEMMA TripFacts ==
  ASSUME NEW t \in LOOP_TRIP_COUNTS[1] .. LOOP_TRIP_COUNTS[2]
  PROVE  t \in Nat /\ t > 0 /\ 2 * t < IMM12
<1>1. LOOP_TRIP_COUNTS[1] \in Nat /\ LOOP_TRIP_COUNTS[2] \in Nat
  BY LoopAssumption
<1> QED
  BY <1>1, LoopAssumption, WidthAssumption

(* The words of a loop block. *)
LEMMA LoopWords ==
  ASSUME NEW len \in Nat, NEW body \in [1 .. len -> gen_body_instr(Offsets)], NEW t \in Int
  PROVE  /\ Len(body) = len /\ Len(loop_words(t, body)) = len + 3
         /\ loop_words(t, body)[1] = addi(counter, 0, t)
         /\ \A j \in 1 .. len : loop_words(t, body)[j + 1] = body[j]
         /\ loop_words(t, body)[len + 2] = addi(counter, counter, -1)
         /\ loop_words(t, body)[len + 3] = Word("BNE", 0, {counter, 0}, -(len + 1))
<1>1. body \in Seq(gen_body_instr(Offsets)) /\ Len(body) = len
  OBVIOUS
<1> DEFINE a == addi(counter, 0, t)
           b == addi(counter, counter, -1)
           c == Word("BNE", 0, {counter, 0}, -(len + 1))
<1>2. loop_words(t, body) = <<a>> \o body \o <<b, c>>
  BY <1>1 DEF loop_words
<1> HIDE DEF a, b, c
<1>3. /\ Len(<<a>> \o body) = len + 1 /\ (<<a>> \o body)[1] = a
      /\ \A j \in 1 .. len : (<<a>> \o body)[j + 1] = body[j]
  BY <1>1
<1>4. /\ Len((<<a>> \o body) \o <<b, c>>) = len + 3
      /\ \A j \in 1 .. len + 1 : ((<<a>> \o body) \o <<b, c>>)[j] = (<<a>> \o body)[j]
      /\ ((<<a>> \o body) \o <<b, c>>)[len + 2] = b
      /\ ((<<a>> \o body) \o <<b, c>>)[len + 3] = c
  BY <1>1, <1>3
<1> DEFINE words == (<<a>> \o body) \o <<b, c>>
<1>5. words[1] = a /\ \A j \in 1 .. len : words[j + 1] = body[j]
  <2>1. 1 \in 1 .. len + 1 /\ \A j \in 1 .. len : j + 1 \in 1 .. len + 1
    OBVIOUS
  <2> QED
    BY <1>3, <1>4, <2>1, Zenon
<1> QED
  BY <1>1, <1>2, <1>4, <1>5, Zenon DEF a, b, c

-----------------------------------------------------------------------------
(* The generator, action by action *)

LEMMA LengthType == ASSUME GenTypeOK PROVE n \in Nat /\ i \in 0 .. n /\ i \in Nat
BY NsAssumption DEF GenTypeOK

LEMMA GenInitially == GenInit => GenInv /\ StoreInv
<1> SUFFICES ASSUME GenInit PROVE GenInv /\ StoreInv
  OBVIOUS
<1>1. n \in Nat /\ phase = "start" /\ ~Generated
  BY NsAssumption DEF GenInit, Generated
<1>2. GenTypeOK
  BY <1>1 DEF GenInit, GenTypeOK
<1>3. \A k : ~Pending(k)
  BY DEF GenInit, Pending
<1>4. SetupPlaced /\ BlocksPlaced /\ BlocksDisjoint /\ NotYetPlaced /\ WordsPlaced
  BY <1>1 DEF GenInit, SetupPlaced, BlocksPlaced, BlocksDisjoint, NotYetPlaced,
              WordsPlaced
<1>5. SlotsOpen /\ SlotsOrdered
  BY <1>3 DEF GenInit, SlotsOpen, SlotsOrdered
<1>6. StoreInv
  BY <1>1 DEF StoreInv, OffsetsStored, LoadsBacked
<1> QED
  BY <1>1, <1>2, <1>4, <1>5, <1>6 DEF GenInit, GenInv

LEMMA FailStep == ASSUME GenInv, StoreInv, Fail PROVE GenInv' /\ StoreInv'
<1>1. /\ phase = "start" /\ phase' = "error" /\ ~Generated' /\ n \in Nat
      /\ UNCHANGED <<n, i, instrs, loop_ranges, single_slots, written_offsets,
                     expected_retire>>
  BY LengthType DEF GenInv, Fail, Generated
<1>2. GenTypeOK'
  BY <1>1 DEF GenInv, GenTypeOK
<1>3. \A k : ~Pending(k)'
  BY <1>1 DEF GenInv, Pending
<1>4. SetupPlaced' /\ BlocksPlaced' /\ BlocksDisjoint' /\ NotYetPlaced' /\ WordsPlaced'
  BY <1>1 DEF GenInv, SetupPlaced, BlocksPlaced, BlocksDisjoint, NotYetPlaced,
              WordsPlaced
<1>5. SlotsOpen' /\ SlotsOrdered'
  BY <1>1, <1>3 DEF GenInv, SlotsOpen, SlotsOrdered
<1>6. StoreInv'
  BY <1>1 DEF StoreInv, OffsetsStored, LoadsBacked
<1> QED
  BY <1>1, <1>2, <1>4, <1>5, <1>6 DEF GenInv

(* The immediates of auipc and addi. *)
LEMMA ImmediateTypes ==
  ASSUME NEW len \in Nat
  PROVE  /\ data_offset(len) \in Nat /\ hi20(len) \in Int /\ lo12(len) \in Int
         /\ data_offset(len) = 4 * (len + 1) + LOAD_STORE_WINDOW
         /\ program_end_bytes(len) = 4 * (preamble_words + len + 1)
<1>1. /\ data_offset(len) \in Nat
      /\ data_offset(len) = 4 * (len + 1) + LOAD_STORE_WINDOW
  BY SizesAssumption, RegisterFacts DEF data_offset, program_end_bytes, AUIPC_PC
<1>2. /\ data_offset(len) % IMM12 \in Int /\ data_offset(len) \div IMM12 \in Int
      /\ IMM12 \in Nat
  BY <1>1, WidthAssumption
<1> QED
  BY <1>1, <1>2 DEF hi20, lo12, program_end_bytes

LEMMA SetupStep == ASSUME GenInv, StoreInv, Setup PROVE GenInv' /\ StoreInv'
<1>1. /\ phase = "start" /\ phase' = "pass1" /\ n \in Nat /\ n > 0 /\ ~TooLong
      /\ UNCHANGED <<n, loop_ranges, single_slots, written_offsets, expected_retire>>
      /\ i' = setup_words /\ loop_ranges' = {} /\ single_slots' = <<>> /\ GenTypeOK
      /\ instrs' = [k \in 0 .. n - 1 |->
                      IF k = 0 THEN Word("AUIPC", base, {}, hi20(n))
                      ELSE IF k = 1 THEN addi(base, base, lo12(n)) ELSE NoWord]
  BY LengthType DEF GenInv, Setup, setup_words
<1>2. setup_words \in 1 .. n /\ setup_words' = setup_words
  BY <1>1 DEF setup_words
<1>3. /\ Word("AUIPC", base, {}, hi20(n)) \in Instr /\ addi(base, base, lo12(n)) \in Instr
      /\ Word("AUIPC", base, {}, hi20(n)).op = "AUIPC"
      /\ addi(base, base, lo12(n)).op = "ADDI" /\ NoWord.op = "NONE"
  BY <1>1, ImmediateTypes, RegisterFacts DEF Word, addi, Instr, Ops, NoWord
<1>4. instrs' \in [0 .. n - 1 -> Instr \cup {NoWord}]
  BY <1>1, <1>3
<1>5. GenTypeOK'
  <2>1. i' \in 0 .. n
    BY <1>1, <1>2
  <2> QED
    BY <1>1, <1>4, <2>1 DEF GenTypeOK
<1>6. \A k : ~Pending(k)'
  BY <1>1 DEF Pending
<1>7. SetupPlaced'
  BY <1>1, <1>2 DEF SetupPlaced, TooLong
<1>8. BlocksPlaced' /\ BlocksDisjoint' /\ SlotsOpen' /\ SlotsOrdered'
  BY <1>1, <1>6 DEF BlocksPlaced, BlocksDisjoint, SlotsOpen, SlotsOrdered
<1>9. NotYetPlaced' /\ WordsPlaced'
  BY <1>1, <1>2, <1>6 DEF NotYetPlaced, WordsPlaced, setup_words
<1>10. OffsetsStored'
  <2>1. written_offsets = {}
    BY <1>1 DEF GenInv
  <2> QED
    BY <1>1, <2>1 DEF OffsetsStored
<1>11. LoadsBacked'
  BY <1>1, <1>3 DEF LoadsBacked
<1> QED
  BY <1>1, <1>5, <1>7, <1>8, <1>9, <1>10, <1>11 DEF GenInv, StoreInv

(* What pass 1 does when it places a loop block. *)
BlockAdded(len, trip, body) ==
  /\ len \in Nat /\ len >= 1 /\ i + len + 3 <= n
  /\ trip \in LOOP_TRIP_COUNTS[1] .. LOOP_TRIP_COUNTS[2]
  /\ body \in loop_bodies(written_offsets, len)
  /\ instrs' = [k \in 0 .. n - 1 |->
                  IF i <= k /\ k < i + len + 3 THEN loop_words(trip, body)[k - i + 1]
                  ELSE instrs[k]]
  /\ loop_ranges' = loop_ranges \cup {<<i, i + len + 3>>} /\ i' = i + len + 3
  /\ expected_retire' = expected_retire + retire_count(trip, len)
  /\ written_offsets' = written_offsets \cup StoredOffsets(body)

LEMMA LoopPlaced ==
  ASSUME GenInv, PlaceLoop
  PROVE  /\ phase = "pass1" /\ phase' = "pass1" /\ i < n
         /\ n' = n /\ single_slots' = single_slots
         /\ \E len, trip, body : BlockAdded(len, trip, body)
<1>1. PICK len \in body_lengths(n - i),
           trip \in LOOP_TRIP_COUNTS[1] .. LOOP_TRIP_COUNTS[2] :
        \E body \in loop_bodies(written_offsets, len) :
          LET words == loop_words(trip, body)
          IN /\ instrs' = [k \in (0 .. n - 1) \cup (i .. i + Len(words) - 1) |->
                            IF i <= k /\ k < i + Len(words) THEN words[k - i + 1]
                            ELSE instrs[k]]
             /\ loop_ranges' = loop_ranges \cup {<<i, i + Len(words)>>}
             /\ expected_retire' = expected_retire + retire_count(trip, len)
             /\ i' = i + Len(words)
             /\ written_offsets' = written_offsets \cup StoredOffsets(body)
  BY DEF PlaceLoop
<1>2. PICK body \in loop_bodies(written_offsets, len) :
        LET words == loop_words(trip, body)
        IN /\ instrs' = [k \in (0 .. n - 1) \cup (i .. i + Len(words) - 1) |->
                          IF i <= k /\ k < i + Len(words) THEN words[k - i + 1]
                          ELSE instrs[k]]
           /\ loop_ranges' = loop_ranges \cup {<<i, i + Len(words)>>}
           /\ expected_retire' = expected_retire + retire_count(trip, len)
           /\ i' = i + Len(words)
           /\ written_offsets' = written_offsets \cup StoredOffsets(body)
  BY <1>1
<1>3. n \in Nat /\ i \in Nat
  BY LengthType DEF GenInv
<1>4. len \in Nat /\ len >= 1 /\ i + len + 3 <= n
  BY <1>3, LoopAssumption DEF body_lengths
<1>5. Len(loop_words(trip, body)) = len + 3
  <2>1. body \in [1 .. len -> gen_body_instr(Offsets)]
    BY DEF loop_bodies
  <2>2. trip \in Int
    BY TripFacts
  <2> QED
    BY <1>4, <2>1, <2>2, LoopWords
<1>6. (0 .. n - 1) \cup (i .. i + (len + 3) - 1) = 0 .. n - 1
  BY <1>3, <1>4
<1>7. /\ instrs' = [k \in (0 .. n - 1) \cup (i .. i + (len + 3) - 1) |->
                     IF i <= k /\ k < i + (len + 3) THEN loop_words(trip, body)[k - i + 1]
                     ELSE instrs[k]]
      /\ loop_ranges' = loop_ranges \cup {<<i, i + (len + 3)>>} /\ i' = i + (len + 3)
      /\ expected_retire' = expected_retire + retire_count(trip, len)
      /\ written_offsets' = written_offsets \cup StoredOffsets(body)
  BY <1>2, <1>5, Zenon
<1>8. /\ instrs' = [k \in 0 .. n - 1 |->
                     IF i <= k /\ k < i + (len + 3) THEN loop_words(trip, body)[k - i + 1]
                     ELSE instrs[k]]
  BY <1>6, <1>7, Zenon
<1>9. i + (len + 3) = i + len + 3
  BY <1>3, <1>4
<1>10. BlockAdded(len, trip, body)
  BY <1>1, <1>2, <1>4, <1>7, <1>8, <1>9, Zenon DEF BlockAdded
<1> QED
  BY <1>10 DEF PlaceLoop

(* The words after a block has been placed. *)
BlockShape(len, trip, body) ==
  /\ n \in Nat /\ i \in Nat /\ len \in Nat /\ trip \in Int /\ DOMAIN body = 1 .. len
  /\ i + len + 3 <= n /\ len >= 1
  /\ \A j \in 1 .. len : body[j] \in gen_body_instr(Offsets)
  /\ instrs'[i] = addi(counter, 0, trip)
  /\ \A j \in 1 .. len : instrs'[i + j] = body[j]
  /\ instrs'[i + len + 1] = addi(counter, counter, -1)
  /\ instrs'[i + len + 2] = Word("BNE", 0, {counter, 0}, -(len + 1))
  /\ \A k \in 0 .. n - 1 : k < i \/ k >= i + len + 3 => instrs'[k] = instrs[k]
  /\ \A k \in i .. i + len + 2 :
       k = i \/ k - i \in 1 .. len \/ k = i + len + 1 \/ k = i + len + 2

LEMMA BlockWords ==
  ASSUME GenInv, NEW len, NEW trip, NEW body, BlockAdded(len, trip, body)
  PROVE  BlockShape(len, trip, body)
<1>1. n \in Nat /\ i \in Nat /\ len \in Nat /\ i + len + 3 <= n /\ trip \in Int
  <2>1. len \in Nat /\ i + len + 3 <= n
        /\ trip \in LOOP_TRIP_COUNTS[1] .. LOOP_TRIP_COUNTS[2]
    BY DEF BlockAdded
  <2>2. n \in Nat /\ i \in Nat
    BY LengthType DEF GenInv
  <2>3. trip \in Nat
    BY <2>1, TripFacts
  <2> QED
    BY <2>1, <2>2, <2>3
<1>2. body \in [1 .. len -> gen_body_instr(Offsets)]
  BY DEF BlockAdded, loop_bodies
<1> DEFINE words == loop_words(trip, body)
<1>3. /\ words[1] = addi(counter, 0, trip)
      /\ \A j \in 1 .. len : words[j + 1] = body[j]
      /\ words[len + 2] = addi(counter, counter, -1)
      /\ words[len + 3] = Word("BNE", 0, {counter, 0}, -(len + 1))
  BY <1>1, <1>2, LoopWords
<1> HIDE DEF words
<1>4. instrs' = [k \in 0 .. n - 1 |->
                  IF i <= k /\ k < i + len + 3 THEN words[k - i + 1] ELSE instrs[k]]
  BY DEF BlockAdded, words
<1>5. \A k \in i .. i + len + 2 : instrs'[k] = words[k - i + 1]
  BY <1>1, <1>4
<1>6. instrs'[i] = words[1] /\ instrs'[i + len + 1] = words[len + 2]
      /\ instrs'[i + len + 2] = words[len + 3]
  <2>1. i - i + 1 = 1 /\ (i + len + 1) - i + 1 = len + 2 /\ (i + len + 2) - i + 1 = len + 3
    BY <1>1
  <2>2. i \in i .. i + len + 2 /\ i + len + 1 \in i .. i + len + 2
        /\ i + len + 2 \in i .. i + len + 2
    BY <1>1
  <2> QED
    BY <1>5, <2>1, <2>2
<1>7. \A j \in 1 .. len : instrs'[i + j] = words[j + 1]
  <2> SUFFICES ASSUME NEW j \in 1 .. len PROVE instrs'[i + j] = words[j + 1]
    OBVIOUS
  <2>1. i + j \in i .. i + len + 2 /\ (i + j) - i + 1 = j + 1
    BY <1>1
  <2> QED
    BY <1>5, <2>1
<1>8. \A k \in 0 .. n - 1 : k < i \/ k >= i + len + 3 => instrs'[k] = instrs[k]
  BY <1>1, <1>4
<1>9. \A k \in i .. i + len + 2 :
        k = i \/ k - i \in 1 .. len \/ k = i + len + 1 \/ k = i + len + 2
  BY <1>1
<1>10. len >= 1
  BY DEF BlockAdded
<1> QED
  BY <1>1, <1>2, <1>3, <1>6, <1>7, <1>8, <1>9, <1>10 DEF BlockShape

LEMMA StoredIff ==
  ASSUME NEW words, NEW o
  PROVE  o \in StoredOffsets(words) <=>
           \E j \in DOMAIN words : words[j].op = "SW" /\ words[j].imm = o
BY DEF StoredOffsets, StoredOffset

(* The fixed words of a block are instructions. *)
LEMMA BlockWordTypes ==
  ASSUME NEW t \in Int, NEW d \in Int
  PROVE  /\ addi(counter, 0, t) \in Instr /\ addi(counter, counter, -1) \in Instr
         /\ Word("BNE", 0, {counter, 0}, d) \in Instr
         /\ addi(counter, 0, t).op = "ADDI" /\ addi(counter, counter, -1).op = "ADDI"
         /\ Word("BNE", 0, {counter, 0}, d).op = "BNE"
BY RegisterFacts DEF addi, Word, Instr, Ops

LEMMA RangeAdded ==
  ASSUME NEW lo, NEW hi, NEW k
  PROVE  in_any_range(k, loop_ranges \cup {<<lo, hi>>}) <=>
           in_any_range(k, loop_ranges) \/ (lo <= k /\ k < hi)
<1>1. <<lo, hi>>[1] = lo /\ <<lo, hi>>[2] = hi
  OBVIOUS
<1> QED
  BY <1>1, Zenon DEF in_any_range

LEMMA PlaceLoopTypes ==
  ASSUME GenInv, PlaceLoop, NEW len, NEW trip, NEW body, BlockAdded(len, trip, body)
  PROVE  /\ GenTypeOK'
         /\ \A k \in i .. i + len + 2 : instrs'[k] \in Instr
         /\ \A o \in StoredOffsets(body) :
              \E j \in 1 .. len : body[j].op = "SW" /\ body[j].imm = o
<1>1. /\ phase = "pass1" /\ phase' = "pass1" /\ n' = n /\ single_slots' = single_slots
      /\ GenTypeOK
  BY LoopPlaced DEF GenInv
<1>2. /\ n \in Nat /\ i \in Nat /\ len \in Nat /\ trip \in Int /\ DOMAIN body = 1 .. len
      /\ \A j \in 1 .. len : body[j] \in gen_body_instr(Offsets)
      /\ instrs'[i] = addi(counter, 0, trip)
      /\ \A j \in 1 .. len : instrs'[i + j] = body[j]
      /\ instrs'[i + len + 1] = addi(counter, counter, -1)
      /\ instrs'[i + len + 2] = Word("BNE", 0, {counter, 0}, -(len + 1))
      /\ \A k \in 0 .. n - 1 : k < i \/ k >= i + len + 3 => instrs'[k] = instrs[k]
      /\ \A k \in i .. i + len + 2 :
           k = i \/ k - i \in 1 .. len \/ k = i + len + 1 \/ k = i + len + 2
  <2>1. BlockShape(len, trip, body)
    BY BlockWords
  <2> QED
    BY <2>1 DEF BlockShape
<1>3. i + len + 3 <= n /\ i' = i + len + 3
  BY DEF BlockAdded
<1>4. \A j \in 1 .. len : body[j] \in Instr /\ (body[j].op = "SW" => body[j].imm \in Offsets)
  <2> SUFFICES ASSUME NEW j \in 1 .. len
               PROVE  body[j] \in Instr /\ (body[j].op = "SW" => body[j].imm \in Offsets)
    OBVIOUS
  <2>1. body[j] \in gen_body_instr(Offsets)
    BY <1>2
  <2> QED
    BY <2>1, BodyWords
<1>5. \A k \in i .. i + len + 2 : instrs'[k] \in Instr
  <2> SUFFICES ASSUME NEW k \in i .. i + len + 2 PROVE instrs'[k] \in Instr
    OBVIOUS
  <2>1. CASE k - i \in 1 .. len
    <3>1. i + (k - i) = k
      BY <1>2
    <3> QED
      BY <1>2, <1>4, <2>1, <3>1
  <2>2. CASE k = i \/ k = i + len + 1 \/ k = i + len + 2
    <3>1. -(len + 1) \in Int
      BY <1>2
    <3> QED
      BY <1>2, <2>2, <3>1, BlockWordTypes
  <2> QED
    BY <1>2, <2>1, <2>2
<1>6. instrs' \in [0 .. n - 1 -> Instr \cup {NoWord}]
  <2>1. instrs' = [k \in 0 .. n - 1 |-> instrs'[k]]
    BY DEF BlockAdded
  <2>2. \A k \in 0 .. n - 1 : instrs'[k] \in Instr \cup {NoWord}
    <3> SUFFICES ASSUME NEW k \in 0 .. n - 1 PROVE instrs'[k] \in Instr \cup {NoWord}
      OBVIOUS
    <3>1. CASE k \in i .. i + len + 2
      BY <1>5, <3>1
    <3>2. CASE k < i \/ k >= i + len + 3
      BY <1>1, <1>2, <3>2 DEF GenTypeOK
    <3> QED
      BY <1>2, <3>1, <3>2
  <2> QED
    BY <2>1, <2>2
<1>7. \A o \in StoredOffsets(body) :
        \E j \in 1 .. len : body[j].op = "SW" /\ body[j].imm = o
  <2>1. DOMAIN body = 1 .. len
    BY <1>2
  <2> QED
    BY <2>1, StoredIff, Zenon
<1>8. written_offsets' \subseteq Offsets
  <2>1. StoredOffsets(body) \subseteq Offsets
    BY <1>4, <1>7
  <2> QED
    BY <1>1, <2>1 DEF BlockAdded, GenTypeOK
<1>9. loop_ranges' \subseteq (0 .. n) \X (0 .. n)
  <2>1. <<i, i + len + 3>> \in (0 .. n) \X (0 .. n)
    BY <1>2, <1>3
  <2> QED
    BY <1>1, <2>1 DEF BlockAdded, GenTypeOK
<1>10. expected_retire' \in Nat
  <2>1. trip \in Nat /\ len + 2 \in Nat
    <3>1. trip \in LOOP_TRIP_COUNTS[1] .. LOOP_TRIP_COUNTS[2]
      BY DEF BlockAdded
    <3>2. trip \in Nat
      BY <3>1, TripFacts
    <3> QED
      BY <1>2, <3>2
  <2>2. \A a, b \in Nat : a * b \in Nat
    OBVIOUS
  <2>3. trip * (len + 2) \in Nat
    BY <2>1, <2>2
  <2>4. retire_count(trip, len) \in Nat
    BY <2>3 DEF retire_count
  <2> QED
    BY <1>1, <2>4 DEF BlockAdded, GenTypeOK
<1>11. i' \in 0 .. n
  BY <1>2, <1>3
<1> QED
  BY <1>1, <1>5, <1>6, <1>7, <1>8, <1>9, <1>10, <1>11 DEF GenTypeOK

LEMMA PlaceLoopBlocks ==
  ASSUME GenInv, PlaceLoop, NEW len, NEW trip, NEW body, BlockAdded(len, trip, body),
         BlockShape(len, trip, body)
  PROVE  BlocksPlaced' /\ BlocksDisjoint'
<1>1. /\ phase = "pass1" /\ phase' = "pass1" /\ n' = n /\ setup_words' = setup_words
      /\ n \in Nat /\ i \in Nat /\ len \in Nat /\ len >= 1 /\ i + len + 3 <= n
      /\ i' = i + len + 3 /\ loop_ranges' = loop_ranges \cup {<<i, i + len + 3>>}
  BY LoopPlaced DEF BlockShape, BlockAdded, setup_words
<1>2. setup_words <= i /\ setup_words \in Nat
  BY <1>1 DEF GenInv, SetupPlaced, Generated, setup_words
<1>3. \A r \in loop_ranges :
        /\ r[1] \in Nat /\ r[2] \in Nat /\ setup_words <= r[1] /\ r[1] + 4 <= r[2]
        /\ r[2] <= i /\ BlockPlaced(r)
  <2> SUFFICES ASSUME NEW r \in loop_ranges
               PROVE  /\ r[1] \in Nat /\ r[2] \in Nat
                      /\ setup_words <= r[1] /\ r[1] + 4 <= r[2]
                      /\ r[2] <= i /\ BlockPlaced(r)
    OBVIOUS
  <2>1. r \in (0 .. n) \X (0 .. n)
    BY DEF GenInv, GenTypeOK
  <2>2. r[1] \in Nat /\ r[2] \in Nat
    BY <2>1
  <2>3. BlockPlaced(r) /\ r[2] <= i
    BY <1>1 DEF GenInv, BlocksPlaced
  <2>4. setup_words <= r[1] /\ r[1] + 4 <= r[2]
    BY <2>3 DEF BlockPlaced
  <2> QED
    BY <2>2, <2>3, <2>4
<1>4. \A r \in loop_ranges : BlockPlaced(r)' /\ r[2] <= i'
  <2> SUFFICES ASSUME NEW r \in loop_ranges PROVE BlockPlaced(r)' /\ r[2] <= i'
    OBVIOUS
  <2>1. /\ r[1] \in Nat /\ r[2] \in Nat /\ r[1] + 4 <= r[2] /\ r[2] <= i
        /\ BlockPlaced(r)
    BY <1>3
  <2>2. \A k \in r[1] .. r[2] - 1 : instrs'[k] = instrs[k]
    <3>1. \A k \in 0 .. n - 1 : k < i \/ k >= i + len + 3 => instrs'[k] = instrs[k]
      BY Zenon DEF BlockShape
    <3>2. \A k \in r[1] .. r[2] - 1 : k \in 0 .. n - 1 /\ k < i
      BY <1>1, <2>1
    <3> QED
      BY <3>1, <3>2, Zenon
  <2>3. /\ instrs'[r[1]] = instrs[r[1]] /\ instrs'[r[2] - 2] = instrs[r[2] - 2]
        /\ instrs'[r[2] - 1] = instrs[r[2] - 1]
        /\ \A k \in r[1] + 1 .. r[2] - 3 : instrs'[k] = instrs[k]
    BY <2>1, <2>2
  <2>4. /\ setup_words <= r[1] /\ r[2] <= n
        /\ \E t \in LOOP_TRIP_COUNTS[1] .. LOOP_TRIP_COUNTS[2] :
             instrs[r[1]] = addi(counter, 0, t)
        /\ \A k \in r[1] + 1 .. r[2] - 3 : instrs[k] \in gen_body_instr(Offsets)
        /\ instrs[r[2] - 2] = addi(counter, counter, -1)
        /\ instrs[r[2] - 1] = Word("BNE", 0, {counter, 0}, -(r[2] - r[1] - 2))
    BY <2>1, Zenon DEF BlockPlaced
  <2>5. \A k \in r[1] + 1 .. r[2] - 3 : instrs'[k] \in gen_body_instr(Offsets)
    BY <2>3, <2>4, Zenon
  <2>6. BlockPlaced(r)'
    BY <1>1, <2>1, <2>3, <2>4, <2>5, Zenon DEF BlockPlaced
  <2> QED
    BY <1>1, <2>1, <2>6
<1>5. \A r : r = <<i, i + len + 3>> => BlockPlaced(r)' /\ r[2] <= i' /\ r[1] = i
  <2> SUFFICES ASSUME NEW r, r = <<i, i + len + 3>>
               PROVE  BlockPlaced(r)' /\ r[2] <= i' /\ r[1] = i
    OBVIOUS
  <2>1. r[1] = i /\ r[2] = i + len + 3
    OBVIOUS
  <2>2. /\ r[2] - 2 = i + len + 1 /\ r[2] - 1 = i + len + 2 /\ r[2] - r[1] - 2 = len + 1
        /\ r[2] - 3 = i + len /\ r[1] + 4 <= r[2] /\ r[2] <= n /\ r[2] \in Int
    BY <1>1, <2>1
  <2>3. \A k \in r[1] + 1 .. r[2] - 3 : instrs'[k] \in gen_body_instr(Offsets)
    <3> SUFFICES ASSUME NEW k \in r[1] + 1 .. r[2] - 3
                 PROVE  instrs'[k] \in gen_body_instr(Offsets)
      OBVIOUS
    <3>1. k - i \in 1 .. len /\ i + (k - i) = k
      BY <1>1, <2>1, <2>2
    <3> QED
      BY <3>1 DEF BlockShape
  <2>4. /\ instrs'[i] = addi(counter, 0, trip)
        /\ instrs'[i + len + 1] = addi(counter, counter, -1)
        /\ instrs'[i + len + 2] = Word("BNE", 0, {counter, 0}, -(len + 1))
    BY DEF BlockShape
  <2>5. /\ instrs'[r[1]] = addi(counter, 0, trip)
        /\ instrs'[r[2] - 2] = addi(counter, counter, -1)
        /\ instrs'[r[2] - 1] = Word("BNE", 0, {counter, 0}, -(r[2] - r[1] - 2))
    BY <2>1, <2>2, <2>4, Zenon
  <2>6. trip \in LOOP_TRIP_COUNTS[1] .. LOOP_TRIP_COUNTS[2]
    BY DEF BlockAdded
  <2>7. setup_words' <= r[1] /\ r[2] <= n'
    BY <1>1, <1>2, <2>1, <2>2
  <2>8. BlockPlaced(r)'
    BY <2>2, <2>3, <2>5, <2>6, <2>7, Zenon DEF BlockPlaced
  <2> QED
    BY <1>1, <2>1, <2>2, <2>8
<1>6. BlocksPlaced'
  <2> SUFFICES ASSUME NEW r \in loop_ranges' PROVE BlockPlaced(r)' /\ r[2] <= i'
    BY DEF BlocksPlaced
  <2>1. CASE r \in loop_ranges
    BY <1>4, <2>1
  <2>2. CASE r = <<i, i + len + 3>>
    BY <1>1, <1>5, <2>2
  <2> QED
    BY <1>1, <2>1, <2>2
<1>7. BlocksDisjoint'
  <2> SUFFICES ASSUME NEW r \in loop_ranges', NEW q \in loop_ranges'
               PROVE  r = q \/ r[2] <= q[1] \/ q[2] <= r[1]
    BY DEF BlocksDisjoint
  <2>1. CASE r \in loop_ranges /\ q \in loop_ranges
    BY <2>1 DEF GenInv, BlocksDisjoint
  <2>2. CASE r = <<i, i + len + 3>> \/ q = <<i, i + len + 3>>
    <3>1. \A p, s : p \in loop_ranges /\ s = <<i, i + len + 3>> => p[2] <= s[1]
      BY <1>3, <1>5
    <3> QED
      BY <1>1, <2>2, <3>1, Zenon
  <2> QED
    BY <1>1, <2>1, <2>2
<1> QED
  BY <1>6, <1>7

LEMMA PlaceLoopWords ==
  ASSUME GenInv, PlaceLoop, NEW len, NEW trip, NEW body, BlockAdded(len, trip, body),
         BlockShape(len, trip, body)
  PROVE  SetupPlaced' /\ SlotsOpen' /\ SlotsOrdered' /\ NotYetPlaced' /\ WordsPlaced'
<1>1. /\ phase = "pass1" /\ phase' = "pass1" /\ n' = n /\ setup_words' = setup_words
      /\ single_slots' = single_slots
      /\ n \in Nat /\ i \in Nat /\ len \in Nat /\ len >= 1 /\ i + len + 3 <= n
      /\ i' = i + len + 3 /\ loop_ranges' = loop_ranges \cup {<<i, i + len + 3>>}
      /\ Generated /\ Generated'
  BY LoopPlaced DEF BlockShape, BlockAdded, setup_words, Generated
<1>2. \A k : Pending(k)' <=> Pending(k)
  BY <1>1 DEF Pending
<1>3. setup_words \in Nat /\ setup_words >= 1 /\ (n > 1 => setup_words = 2) /\ setup_words <= i
  BY <1>1 DEF GenInv, SetupPlaced, setup_words
<1>4. \A k : in_any_range(k, loop_ranges') <=>
               in_any_range(k, loop_ranges) \/ (i <= k /\ k < i + len + 3)
  BY <1>1, RangeAdded
<1>5. \A k \in 0 .. n - 1 : k < i \/ k >= i + len + 3 => instrs'[k] = instrs[k]
  BY DEF BlockShape
<1>6. SetupPlaced'
  <2>1. instrs'[0] = instrs[0] /\ (n > 1 => instrs'[1] = instrs[1])
    BY <1>1, <1>3, <1>5
  <2> QED
    BY <1>1, <1>3, <2>1 DEF GenInv, SetupPlaced, TooLong
<1>7. SlotsOpen'
  <2> SUFFICES ASSUME NEW k \in 0 .. n - 1, Pending(k)
               PROVE  setup_words <= k /\ ~in_any_range(k, loop_ranges') /\ k < i'
    BY <1>1, <1>2 DEF SlotsOpen
  <2>1. setup_words <= k /\ ~in_any_range(k, loop_ranges) /\ k < i
    BY <1>1 DEF GenInv, SlotsOpen
  <2> QED
    BY <1>1, <1>4, <2>1
<1>8. SlotsOrdered'
  BY <1>1 DEF GenInv, SlotsOrdered
<1>9. NotYetPlaced'
  <2> SUFFICES ASSUME NEW k \in 0 .. n - 1, Pending(k) \/ k >= i'
               PROVE  instrs'[k] = NoWord
    BY <1>1, <1>2 DEF NotYetPlaced
  <2>1. Pending(k) => k < i
    BY <1>1 DEF GenInv, SlotsOpen
  <2>2. instrs[k] = NoWord
    BY <1>1 DEF GenInv, NotYetPlaced
  <2> QED
    BY <1>1, <1>5, <2>1, <2>2
<1>10. WordsPlaced'
  <2> SUFFICES ASSUME NEW k \in 0 .. n - 1
               PROVE  \/ k < setup_words
                      \/ in_any_range(k, loop_ranges') \/ Pending(k) \/ k >= i'
    BY <1>1, <1>2 DEF WordsPlaced
  <2>1. k < setup_words \/ in_any_range(k, loop_ranges) \/ Pending(k) \/ k >= i
    BY <1>1 DEF GenInv, WordsPlaced
  <2> QED
    BY <1>1, <1>4, <2>1
<1> QED
  BY <1>6, <1>7, <1>8, <1>9, <1>10

(* A load in a body names an offset stored to before the block or earlier  *)
(* in the body.                                                            *)
LEMMA BodyLoads ==
  ASSUME NEW written, written \subseteq Offsets, NEW len \in Nat,
         NEW body \in loop_bodies(written, len), NEW j \in 1 .. len, body[j].op = "LW"
  PROVE  \/ body[j].imm \in written
         \/ \E m \in 1 .. j - 1 : body[m].op = "SW" /\ body[m].imm = body[j].imm
<1> DEFINE before == SubSeq(body, 1, j - 1)
<1>1. body \in [1 .. len -> gen_body_instr(Offsets)]
  BY DEF loop_bodies
<1>2. DOMAIN before = 1 .. j - 1 /\ \A m \in 1 .. j - 1 : before[m] = body[m]
  BY <1>1
<1>3. body[j] \in gen_body_instr(written \cup StoredOffsets(before))
  BY DEF loop_bodies
<1> HIDE DEF before
<1>4. \A o \in StoredOffsets(before) :
        \E m \in 1 .. j - 1 : body[m].op = "SW" /\ body[m].imm = o
  BY <1>2, StoredIff
<1>5. \A m \in 1 .. j - 1 : body[m].op = "SW" => body[m].imm \in Offsets
  <2> SUFFICES ASSUME NEW m \in 1 .. j - 1, body[m].op = "SW" PROVE body[m].imm \in Offsets
    OBVIOUS
  <2>1. body[m] \in gen_body_instr(Offsets)
    BY <1>1
  <2> QED
    BY <2>1, BodyWords
<1>6. written \cup StoredOffsets(before) \subseteq Offsets
  BY <1>4, <1>5
<1>7. body[j].imm \in written \cup StoredOffsets(before)
  BY <1>3, <1>6, BodyWords
<1> QED
  BY <1>4, <1>7

LEMMA PlaceLoopStores ==
  ASSUME GenInv, StoreInv, PlaceLoop, NEW len, NEW trip, NEW body,
         BlockAdded(len, trip, body), BlockShape(len, trip, body)
  PROVE  StoreInv'
<1>1. /\ phase = "pass1" /\ phase' = "pass1" /\ n' = n
      /\ single_slots' = single_slots
      /\ n \in Nat /\ i \in Nat /\ len \in Nat /\ len >= 1 /\ i + len + 3 <= n
      /\ i' = i + len + 3 /\ loop_ranges' = loop_ranges \cup {<<i, i + len + 3>>}
      /\ Generated /\ Generated' /\ body \in loop_bodies(written_offsets, len)
      /\ written_offsets' = written_offsets \cup StoredOffsets(body)
  BY LoopPlaced DEF BlockShape, BlockAdded, Generated
<1>2. \A k : Pending(k)' <=> Pending(k)
  BY <1>1 DEF Pending
<1>3. \A k : in_any_range(k, loop_ranges') <=>
               in_any_range(k, loop_ranges) \/ (i <= k /\ k < i + len + 3)
  BY <1>1, RangeAdded
<1>4. /\ \A k \in 0 .. n - 1 : k < i \/ k >= i + len + 3 => instrs'[k] = instrs[k]
      /\ \A j \in 1 .. len : instrs'[i + j] = body[j]
      /\ \A k \in i .. i + len + 2 :
           k = i \/ k - i \in 1 .. len \/ k = i + len + 1 \/ k = i + len + 2
  BY DEF BlockShape
<1>5. \A k \in 0 .. n - 1 : k >= i => instrs[k] = NoWord /\ instrs[k].op = "NONE"
  BY <1>1 DEF GenInv, NotYetPlaced, NoWord
<1>6. \A o \in written_offsets : \E s \in 0 .. i - 1 :
        /\ StoresTo(s, o)' /\ s \in 0 .. n - 1
        /\ in_any_range(s, loop_ranges) \/ \A k \in 0 .. n - 1 : Pending(k) => s < k
  <2> SUFFICES ASSUME NEW o \in written_offsets
               PROVE  \E s \in 0 .. i - 1 :
                        /\ StoresTo(s, o)' /\ s \in 0 .. n - 1
                        /\ \/ in_any_range(s, loop_ranges)
                           \/ \A k \in 0 .. n - 1 : Pending(k) => s < k
    OBVIOUS
  <2>1. PICK s \in 0 .. n - 1 :
          /\ StoresTo(s, o) /\ s < i
          /\ in_any_range(s, loop_ranges) \/ \A k \in 0 .. n - 1 : Pending(k) => s < k
    BY <1>1 DEF StoreInv, OffsetsStored
  <2>2. s \in 0 .. i - 1 /\ instrs'[s] = instrs[s]
    BY <1>1, <1>4, <2>1
  <2>3. StoresTo(s, o)'
    BY <2>1, <2>2 DEF StoresTo
  <2> QED
    BY <2>1, <2>2, <2>3
<1>7. OffsetsStored'
  <2> SUFFICES ASSUME NEW o \in written_offsets'
               PROVE  \E s \in 0 .. n - 1 :
                        /\ StoresTo(s, o)'
                        /\ \/ in_any_range(s, loop_ranges')
                           \/ \A k \in 0 .. n - 1 : Pending(k) => s < k
                        /\ s < i'
    BY <1>1, <1>2 DEF OffsetsStored
  <2>1. CASE o \in written_offsets
    <3>1. PICK s \in 0 .. i - 1 :
            /\ StoresTo(s, o)' /\ s \in 0 .. n - 1
            /\ in_any_range(s, loop_ranges) \/ \A k \in 0 .. n - 1 : Pending(k) => s < k
      BY <1>6, <2>1
    <3>2. s < i'
      BY <1>1, <3>1
    <3> QED
      BY <1>3, <3>1, <3>2
  <2>2. CASE o \in StoredOffsets(body)
    <3>1. PICK j \in 1 .. len : body[j].op = "SW" /\ body[j].imm = o
      BY <2>2, PlaceLoopTypes
    <3>2. PICK s : s = i + j
      OBVIOUS
    <3>3. s \in 0 .. n - 1 /\ i <= s /\ s < i + len + 3 /\ s < i'
      BY <1>1, <3>2
    <3>4. StoresTo(s, o)' /\ in_any_range(s, loop_ranges')
      BY <1>3, <1>4, <3>1, <3>2, <3>3 DEF StoresTo
    <3> QED
      BY <3>3, <3>4
  <2> QED
    BY <1>1, <2>1, <2>2
<1>8. LoadsBacked'
  <2> SUFFICES ASSUME NEW k \in 0 .. n - 1, instrs'[k].op = "LW"
               PROVE  \E s \in 0 .. n - 1 :
                        /\ \/ s < k
                           \/ in_any_range(s, loop_ranges') /\ ~in_any_range(k, loop_ranges')
                        /\ StoresTo(s, instrs[k].imm)'
    BY <1>1 DEF LoadsBacked
  <2>1. CASE k >= i + len + 3
    BY <1>1, <1>4, <1>5, <2>1
  <2>2. CASE k < i
    <3>1. instrs'[k] = instrs[k]
      BY <1>4, <2>2
    <3>2. PICK s \in 0 .. n - 1 :
            /\ s < k \/ (in_any_range(s, loop_ranges) /\ ~in_any_range(k, loop_ranges))
            /\ StoresTo(s, instrs[k].imm)
      BY <1>1, <3>1 DEF StoreInv, LoadsBacked
    <3>3. s < i
      BY <1>1, <1>5, <3>2 DEF StoresTo
    <3>4. StoresTo(s, instrs[k].imm)'
      BY <1>4, <3>1, <3>2, <3>3 DEF StoresTo
    <3>5. ~in_any_range(k, loop_ranges) => ~in_any_range(k, loop_ranges')
      BY <1>1, <1>3, <2>2
    <3> QED
      BY <1>3, <3>2, <3>4, <3>5
  <2>3. CASE k \in i .. i + len + 2
    <3>1. k - i \in 1 .. len
      <4>1. -(len + 1) \in Int /\ trip \in Int
        BY <1>1 DEF BlockShape
      <4>2. /\ instrs'[i].op = "ADDI" /\ instrs'[i + len + 1].op = "ADDI"
            /\ instrs'[i + len + 2].op = "BNE"
        BY <4>1, BlockWordTypes DEF BlockShape
      <4> QED
        BY <1>4, <2>3, <4>2
    <3>2. PICK j : j = k - i
      OBVIOUS
    <3>3. j \in 1 .. len /\ i + j = k
      BY <1>1, <3>1, <3>2
    <3>4. instrs'[k] = body[j] /\ body[j].op = "LW"
      BY <1>4, <3>3
    <3>5. written_offsets \subseteq Offsets
      BY DEF GenInv, GenTypeOK
    <3>6. CASE body[j].imm \in written_offsets
      <4>1. PICK s \in 0 .. i - 1 : StoresTo(s, body[j].imm)' /\ s \in 0 .. n - 1
        BY <1>6, <3>6
      <4>2. s < k
        BY <1>1, <2>3, <4>1
      <4> QED
        BY <3>4, <4>1, <4>2 DEF StoresTo
    <3>7. CASE \E m \in 1 .. j - 1 : body[m].op = "SW" /\ body[m].imm = body[j].imm
      <4>1. PICK m \in 1 .. j - 1 : body[m].op = "SW" /\ body[m].imm = body[j].imm
        BY <3>7
      <4>2. m \in 1 .. len /\ i + m \in 0 .. n - 1 /\ i + m < k
        BY <1>1, <3>3
      <4>3. PICK s : s = i + m
        OBVIOUS
      <4>4. StoresTo(s, instrs[k].imm)'
        BY <1>4, <3>4, <4>1, <4>2, <4>3 DEF StoresTo
      <4> QED
        BY <4>2, <4>3, <4>4
    <3> QED
      BY <1>1, <3>3, <3>4, <3>5, <3>6, <3>7, BodyLoads
  <2> QED
    BY <1>1, <2>1, <2>2, <2>3
<1> QED
  BY <1>7, <1>8 DEF StoreInv

LEMMA PlaceLoopStep == ASSUME GenInv, StoreInv, PlaceLoop PROVE GenInv' /\ StoreInv'
<1>1. phase' = "pass1"
  BY LoopPlaced
<1>2. PICK len, trip, body : BlockAdded(len, trip, body)
  BY LoopPlaced
<1>3. BlockShape(len, trip, body)
  BY <1>2, BlockWords
<1>4. GenTypeOK'
  BY <1>2, PlaceLoopTypes
<1>5. BlocksPlaced' /\ BlocksDisjoint'
  BY <1>2, <1>3, PlaceLoopBlocks
<1>6. SetupPlaced' /\ SlotsOpen' /\ SlotsOrdered' /\ NotYetPlaced' /\ WordsPlaced'
  BY <1>2, <1>3, PlaceLoopWords
<1>7. StoreInv'
  BY <1>2, <1>3, PlaceLoopStores
<1> QED
  BY <1>1, <1>4, <1>5, <1>6, <1>7 DEF GenInv

LEMMA DeferSlotStep == ASSUME GenInv, StoreInv, DeferSlot PROVE GenInv' /\ StoreInv'
<1>1. /\ phase = "pass1" /\ phase' = "pass1" /\ i < n /\ n \in Nat /\ i \in Nat
      /\ i' = i + 1 /\ single_slots' = Append(single_slots, i)
      /\ expected_retire' = expected_retire + 1 /\ GenTypeOK /\ Generated /\ Generated'
      /\ UNCHANGED <<n, instrs, loop_ranges, written_offsets>> /\ setup_words' = setup_words
      /\ single_slots \in Seq(0 .. n - 1)
  BY LengthType DEF GenInv, DeferSlot, Generated, setup_words, GenTypeOK
<1>2. GenTypeOK'
  BY <1>1 DEF GenTypeOK
<1>3. /\ Len(single_slots') = Len(single_slots) + 1 /\ Len(single_slots) \in Nat
      /\ single_slots'[Len(single_slots) + 1] = i
      /\ \A j \in 1 .. Len(single_slots) : single_slots'[j] = single_slots[j]
      /\ \A j \in 1 .. Len(single_slots) : single_slots[j] \in 0 .. n - 1
  BY <1>1
<1>4. \A k : Pending(k)' <=> Pending(k) \/ k = i
  <2>1. \A j \in 1 .. Len(single_slots) + 1 :
          j \in 1 .. Len(single_slots) \/ j = Len(single_slots) + 1
    BY <1>3
  <2>2. /\ Len(single_slots) + 1 \in 1 .. Len(single_slots) + 1
        /\ \A j \in 1 .. Len(single_slots) : j \in 1 .. Len(single_slots) + 1
    BY <1>3
  <2> QED
    BY <1>3, <2>1, <2>2, Zenon DEF Pending
<1>5. ~in_any_range(i, loop_ranges)
  <2> SUFFICES ASSUME NEW r \in loop_ranges PROVE ~(i < r[2])
    BY DEF in_any_range
  <2>1. r[2] <= i /\ r \in (0 .. n) \X (0 .. n)
    BY <1>1 DEF GenInv, BlocksPlaced, GenTypeOK
  <2> QED
    BY <1>1, <2>1
<1>6. setup_words <= i /\ instrs[i] = NoWord
  BY <1>1 DEF GenInv, SetupPlaced, NotYetPlaced
<1>7. SetupPlaced'
  BY <1>1, <1>6 DEF GenInv, SetupPlaced, TooLong, setup_words
<1>8. BlocksPlaced' /\ BlocksDisjoint'
  <2>1. \A r \in loop_ranges : BlockPlaced(r) /\ r[2] <= i /\ r \in (0 .. n) \X (0 .. n)
    BY <1>1 DEF GenInv, BlocksPlaced, GenTypeOK
  <2>2. \A r \in loop_ranges : BlockPlaced(r)'
    BY <1>1, <2>1, Zenon DEF BlockPlaced, setup_words
  <2>3. \A r \in loop_ranges : r[2] <= i'
    BY <1>1, <2>1
  <2> QED
    BY <1>1, <2>2, <2>3 DEF GenInv, BlocksPlaced, BlocksDisjoint
<1>9. \A k \in 0 .. n - 1 : Pending(k) => k < i
  BY <1>1 DEF GenInv, SlotsOpen
<1>10. SlotsOpen'
  <2> SUFFICES ASSUME NEW k \in 0 .. n - 1, Pending(k) \/ k = i
               PROVE  setup_words <= k /\ ~in_any_range(k, loop_ranges) /\ k < i'
    BY <1>1, <1>4 DEF SlotsOpen
  <2>1. CASE k = i
    BY <1>1, <1>5, <1>6, <2>1
  <2>2. CASE Pending(k)
    BY <1>1, <1>9, <2>2 DEF GenInv, SlotsOpen
  <2> QED
    BY <2>1, <2>2
<1>11. SlotsOrdered'
  <2>1. \A j \in 1 .. Len(single_slots) : single_slots[j] < i
    BY <1>3, <1>9 DEF Pending
  <2>2. \A a, b \in 1 .. Len(single_slots) : a < b => single_slots[a] < single_slots[b]
    BY DEF GenInv, SlotsOrdered
  <2> SUFFICES ASSUME NEW a \in 1 .. Len(single_slots) + 1,
                      NEW b \in 1 .. Len(single_slots) + 1, a < b
               PROVE  single_slots'[a] < single_slots'[b]
    BY <1>3 DEF SlotsOrdered
  <2>3. a \in 1 .. Len(single_slots)
    BY <1>3
  <2>4. CASE b \in 1 .. Len(single_slots)
    BY <1>3, <2>2, <2>3, <2>4
  <2>5. CASE b = Len(single_slots) + 1
    BY <1>3, <2>1, <2>3, <2>5
  <2> QED
    BY <1>3, <2>4, <2>5
<1>12. NotYetPlaced'
  <2> SUFFICES ASSUME NEW k \in 0 .. n - 1, Pending(k) \/ k = i \/ k >= i'
               PROVE  instrs[k] = NoWord
    BY <1>1, <1>4 DEF NotYetPlaced
  <2> QED
    BY <1>1, <1>6 DEF GenInv, NotYetPlaced
<1>13. WordsPlaced'
  <2> SUFFICES ASSUME NEW k \in 0 .. n - 1
               PROVE  \/ k < setup_words
                      \/ in_any_range(k, loop_ranges) \/ Pending(k) \/ k = i \/ k >= i'
    BY <1>1, <1>4 DEF WordsPlaced
  <2>1. k < setup_words \/ in_any_range(k, loop_ranges) \/ Pending(k) \/ k >= i
    BY <1>1 DEF GenInv, WordsPlaced
  <2> QED
    BY <1>1, <2>1
<1>14. OffsetsStored'
  <2> SUFFICES ASSUME NEW o \in written_offsets
               PROVE  \E s \in 0 .. n - 1 :
                        /\ StoresTo(s, o)
                        /\ \/ in_any_range(s, loop_ranges)
                           \/ \A k \in 0 .. n - 1 : Pending(k) \/ k = i => s < k
                        /\ s < i'
    BY <1>1, <1>4 DEF OffsetsStored, StoresTo
  <2>1. PICK s \in 0 .. n - 1 :
          /\ StoresTo(s, o) /\ s < i
          /\ in_any_range(s, loop_ranges) \/ \A k \in 0 .. n - 1 : Pending(k) => s < k
    BY <1>1 DEF StoreInv, OffsetsStored
  <2> QED
    BY <1>1, <2>1
<1>15. LoadsBacked'
  BY <1>1 DEF StoreInv, LoadsBacked, StoresTo
<1> QED
  BY <1>1, <1>2, <1>7, <1>8, <1>10, <1>11, <1>12, <1>13, <1>14, <1>15 DEF GenInv, StoreInv

LEMMA EndPass1Step == ASSUME GenInv, StoreInv, EndPass1 PROVE GenInv' /\ StoreInv'
<1>1. /\ phase = "pass1" /\ phase' = "pass2" /\ n \in Nat /\ i \in 0 .. n /\ i >= n
      /\ GenTypeOK /\ Generated /\ Generated' /\ setup_words' = setup_words
      /\ UNCHANGED <<n, i, instrs, loop_ranges, single_slots, written_offsets,
                     expected_retire>>
  BY LengthType DEF GenInv, EndPass1, Generated, setup_words
<1>2. GenTypeOK'
  BY <1>1 DEF GenTypeOK
<1>3. \A k : Pending(k)' <=> Pending(k)
  BY <1>1 DEF Pending
<1>4. SetupPlaced'
  BY <1>1 DEF GenInv, SetupPlaced, TooLong
<1>5. BlocksPlaced' /\ BlocksDisjoint'
  <2>1. \A r \in loop_ranges : BlockPlaced(r)'
    BY <1>1, Zenon DEF GenInv, BlocksPlaced, BlockPlaced
  <2> QED
    BY <1>1, <2>1 DEF GenInv, BlocksPlaced, BlocksDisjoint
<1>6. SlotsOpen' /\ SlotsOrdered'
  BY <1>1, <1>3 DEF GenInv, SlotsOpen, SlotsOrdered
<1>7. NotYetPlaced'
  BY <1>1, <1>3 DEF GenInv, NotYetPlaced
<1>8. WordsPlaced'
  BY <1>1, <1>3 DEF GenInv, WordsPlaced
<1>9. OffsetsStored'
  BY <1>1, <1>3 DEF StoreInv, OffsetsStored, StoresTo
<1>10. LoadsBacked'
  BY <1>1 DEF StoreInv, LoadsBacked, StoresTo
<1> QED
  BY <1>1, <1>2, <1>4, <1>5, <1>6, <1>7, <1>8, <1>9, <1>10 DEF GenInv, StoreInv

LEMMA EndPass2Step == ASSUME GenInv, StoreInv, EndPass2 PROVE GenInv' /\ StoreInv'
<1>1. /\ phase = "pass2" /\ phase' = "run" /\ n \in Nat /\ i \in 0 .. n
      /\ GenTypeOK /\ Generated /\ Generated' /\ setup_words' = setup_words
      /\ single_slots = <<>>
      /\ UNCHANGED <<n, i, instrs, loop_ranges, single_slots, written_offsets,
                     expected_retire>>
  BY LengthType DEF GenInv, EndPass2, Generated, setup_words
<1>2. \A k : ~Pending(k) /\ ~Pending(k)'
  BY <1>1 DEF Pending
<1>3. \A k \in 0 .. n - 1 : instrs[k] \in Instr
  <2> SUFFICES ASSUME NEW k \in 0 .. n - 1 PROVE instrs[k] \in Instr
    OBVIOUS
  <2>1. CASE k < setup_words
    <3>1. /\ instrs[0] = Word("AUIPC", base, {}, hi20(n))
          /\ n > 1 => instrs[1] = addi(base, base, lo12(n))
      BY <1>1 DEF GenInv, SetupPlaced
    <3>2. /\ Word("AUIPC", base, {}, hi20(n)) \in Instr
          /\ addi(base, base, lo12(n)) \in Instr
      BY <1>1, ImmediateTypes, RegisterFacts DEF Word, addi, Instr, Ops
    <3> QED
      BY <1>1, <2>1, <3>1, <3>2 DEF setup_words
  <2>2. CASE in_any_range(k, loop_ranges)
    <3>1. PICK r \in loop_ranges : r[1] <= k /\ k < r[2]
      BY <2>2 DEF in_any_range
    <3>2. r[1] \in Nat /\ r[2] \in Nat /\ BlockPlaced(r)
      <4>1. r \in (0 .. n) \X (0 .. n)
        BY <1>1 DEF GenTypeOK
      <4>2. BlockPlaced(r)
        BY DEF GenInv, BlocksPlaced
      <4> QED
        BY <4>1, <4>2
    <3>3. CASE k = r[1]
      <4>1. PICK t \in LOOP_TRIP_COUNTS[1] .. LOOP_TRIP_COUNTS[2] :
              instrs[r[1]] = addi(counter, 0, t)
        BY <3>2, Zenon DEF BlockPlaced
      <4>2. t \in Int
        BY TripFacts
      <4> QED
        BY <3>3, <4>1, <4>2, BlockWordTypes
    <3>4. CASE k \in r[1] + 1 .. r[2] - 3
      <4>1. instrs[k] \in gen_body_instr(Offsets)
        BY <3>2, <3>4 DEF BlockPlaced
      <4> QED
        BY <4>1, BodyWords
    <3>5. CASE k = r[2] - 2 \/ k = r[2] - 1
      <4>1. -(r[2] - r[1] - 2) \in Int
        BY <3>2
      <4>2. /\ instrs[r[2] - 2] = addi(counter, counter, -1)
            /\ instrs[r[2] - 1] = Word("BNE", 0, {counter, 0}, -(r[2] - r[1] - 2))
        BY <3>2 DEF BlockPlaced
      <4> QED
        BY <3>5, <4>1, <4>2, BlockWordTypes
    <3> QED
      BY <1>1, <3>1, <3>2, <3>3, <3>4, <3>5
  <2>3. CASE instrs[k] \in gen_one_instr(Offsets, k, n, loop_ranges)
    BY <1>1, <2>3, SlotWords
  <2> QED
    BY <1>1, <1>2, <2>1, <2>2, <2>3 DEF GenInv, WordsPlaced
<1>4. GenTypeOK'
  <2>1. instrs \in [0 .. n - 1 -> Instr \cup {NoWord}]
    BY <1>1 DEF GenTypeOK
  <2>2. instrs \in [0 .. n - 1 -> Instr]
    BY <1>3, <2>1
  <2> QED
    BY <1>1, <2>2 DEF GenTypeOK
<1>5. SetupPlaced'
  BY <1>1 DEF GenInv, SetupPlaced, TooLong
<1>6. BlocksPlaced' /\ BlocksDisjoint'
  <2>1. \A r \in loop_ranges : BlockPlaced(r)'
    BY <1>1, Zenon DEF GenInv, BlocksPlaced, BlockPlaced
  <2> QED
    BY <1>1, <2>1 DEF GenInv, BlocksPlaced, BlocksDisjoint
<1>7. SlotsOpen' /\ SlotsOrdered'
  BY <1>1, <1>2 DEF GenInv, SlotsOpen, SlotsOrdered
<1>8. NotYetPlaced'
  BY <1>1, <1>2 DEF NotYetPlaced
<1>9. WordsPlaced'
  BY <1>1, <1>2 DEF GenInv, WordsPlaced
<1>10. OffsetsStored'
  BY <1>1, <1>2 DEF StoreInv, OffsetsStored, StoresTo
<1>11. LoadsBacked'
  BY <1>1 DEF StoreInv, LoadsBacked, StoresTo
<1> QED
  BY <1>1, <1>4, <1>5, <1>6, <1>7, <1>8, <1>9, <1>10, <1>11 DEF GenInv, StoreInv

(* Pass 2 takes the least pending word. *)
LEMMA FirstSlot ==
  ASSUME GenInv, single_slots # <<>>, single_slots' = Tail(single_slots)
  PROVE  /\ Head(single_slots) \in 0 .. n - 1 /\ Pending(Head(single_slots))
         /\ \A k : Pending(k) <=> k = Head(single_slots) \/ Pending(k)'
         /\ \A k : Pending(k)' => k \in 0 .. n - 1 /\ Head(single_slots) < k
         /\ single_slots' \in Seq(0 .. n - 1) /\ SlotsOrdered'
<1> DEFINE L == Len(single_slots)
<1>1. /\ single_slots \in Seq(0 .. n - 1) /\ L \in Nat /\ L >= 1
      /\ single_slots' \in Seq(0 .. n - 1) /\ Len(single_slots') = L - 1
      /\ Head(single_slots) = single_slots[1]
      /\ \A j \in 1 .. L - 1 : single_slots'[j] = single_slots[j + 1]
      /\ \A j \in 1 .. L : single_slots[j] \in 0 .. n - 1
  <2>1. single_slots \in Seq(0 .. n - 1) /\ n \in Nat
    BY LengthType DEF GenInv, GenTypeOK
  <2>2. L \in Nat /\ L >= 1
    <3>1. \A seq \in Seq(0 .. n - 1) : seq # <<>> => Len(seq) \in Nat \ {0}
      BY EmptySeq, Zenon
    <3>2. Len(single_slots) \in Nat \ {0}
      BY <2>1, <3>1, Zenon
    <3> QED
      BY <3>2
  <2>3. \A j \in 1 .. L : single_slots[j] \in 0 .. n - 1
    BY <2>1, <2>2
  <2>4. /\ Tail(single_slots) \in Seq(0 .. n - 1)
        /\ Len(Tail(single_slots)) = Len(single_slots) - 1
        /\ \A j \in 1 .. Len(Tail(single_slots)) :
             Tail(single_slots)[j] = single_slots[j + 1]
    BY <2>1, HeadTailProperties, Zenon
  <2> QED
    BY <2>1, <2>2, <2>3, <2>4
<1>2. \A a, b \in 1 .. L : a < b => single_slots[a] < single_slots[b]
  BY DEF GenInv, SlotsOrdered
<1>3. \A k : Pending(k) <=> \E j \in 1 .. L : single_slots[j] = k
  BY DEF Pending
<1>4. \A k : Pending(k)' <=> \E j \in 1 .. L - 1 : single_slots[j + 1] = k
  BY <1>1 DEF Pending
<1> HIDE DEF L
<1>5. Head(single_slots) \in 0 .. n - 1 /\ Pending(Head(single_slots))
  BY <1>1, <1>3
<1>6. \A k : Pending(k)' => Pending(k) /\ k \in 0 .. n - 1 /\ Head(single_slots) < k
  <2> SUFFICES ASSUME NEW k, Pending(k)'
               PROVE  Pending(k) /\ k \in 0 .. n - 1 /\ Head(single_slots) < k
    OBVIOUS
  <2>1. PICK j \in 1 .. L - 1 : single_slots[j + 1] = k
    BY <1>4
  <2>2. j + 1 \in 1 .. L /\ 1 \in 1 .. L /\ 1 < j + 1
    BY <1>1
  <2> QED
    BY <1>1, <1>2, <1>3, <2>1, <2>2
<1>7. \A k : Pending(k) => k = Head(single_slots) \/ Pending(k)'
  <2> SUFFICES ASSUME NEW k, Pending(k), k # single_slots[1] PROVE Pending(k)'
    BY <1>1
  <2>1. PICK j \in 1 .. L : single_slots[j] = k
    BY <1>3
  <2>2. j - 1 \in 1 .. L - 1 /\ (j - 1) + 1 = j
    BY <1>1, <2>1
  <2> QED
    BY <1>4, <2>1, <2>2
<1>8. SlotsOrdered'
  <2> SUFFICES ASSUME NEW a \in 1 .. L - 1, NEW b \in 1 .. L - 1, a < b
               PROVE  single_slots'[a] < single_slots'[b]
    BY <1>1 DEF SlotsOrdered
  <2>1. a + 1 \in 1 .. L /\ b + 1 \in 1 .. L /\ a + 1 < b + 1
    BY <1>1
  <2> QED
    BY <1>1, <1>2, <2>1
<1> QED
  BY <1>1, <1>5, <1>6, <1>7, <1>8

LEMMA FillSlotStep == ASSUME GenInv, StoreInv, FillSlot PROVE GenInv' /\ StoreInv'
<1>1. PICK slot : slot = Head(single_slots)
  OBVIOUS
<1>2. PICK w \in gen_one_instr(written_offsets, slot, n, loop_ranges) :
        /\ instrs' = [instrs EXCEPT ![slot] = w]
        /\ written_offsets' = written_offsets \cup StoredOffset(w)
  BY <1>1 DEF FillSlot
<1>3. /\ phase = "pass2" /\ phase' = "pass2" /\ n \in Nat /\ i \in 0 .. n
      /\ GenTypeOK /\ Generated /\ Generated' /\ setup_words' = setup_words
      /\ single_slots # <<>> /\ single_slots' = Tail(single_slots)
      /\ UNCHANGED <<n, i, loop_ranges, expected_retire>>
      /\ written_offsets \subseteq Offsets
      /\ instrs \in [0 .. n - 1 -> Instr \cup {NoWord}]
  BY LengthType DEF GenInv, FillSlot, Generated, setup_words, GenTypeOK
<1>4. /\ slot \in 0 .. n - 1 /\ Pending(slot)
      /\ \A k : Pending(k) <=> k = slot \/ Pending(k)'
      /\ \A k : Pending(k)' => k \in 0 .. n - 1 /\ slot < k
      /\ single_slots' \in Seq(0 .. n - 1) /\ SlotsOrdered'
  BY <1>1, <1>3, FirstSlot
<1>5. /\ setup_words <= slot /\ ~in_any_range(slot, loop_ranges)
      /\ instrs[slot] = NoWord /\ NoWord.op = "NONE"
  BY <1>3, <1>4 DEF GenInv, SlotsOpen, NotYetPlaced, NoWord
<1>6. /\ w \in Instr /\ w \in gen_one_instr(Offsets, slot, n, loop_ranges)
      /\ w.op = "SW" => w.imm \in Offsets
      /\ w.op = "LW" => w.imm \in written_offsets
  <2>1. /\ w \in Instr /\ w \in gen_one_instr(Offsets, slot, n, loop_ranges)
        /\ w \in gen_body_instr(written_offsets) \/ w.op = "BRANCH" \/ w.op = "JAL"
    BY <1>2, <1>3, <1>4, SlotWords
  <2>2. CASE w \in gen_body_instr(written_offsets)
    BY <1>3, <2>1, <2>2, BodyWords
  <2> QED
    BY <2>1, <2>2
<1>7. /\ instrs'[slot] = w /\ instrs' \in [0 .. n - 1 -> Instr \cup {NoWord}]
      /\ \A k \in 0 .. n - 1 : k # slot => instrs'[k] = instrs[k]
  BY <1>2, <1>3, <1>4, <1>6
<1>8. /\ written_offsets' \subseteq Offsets
      /\ \A o \in written_offsets' : o \in written_offsets \/ (w.op = "SW" /\ w.imm = o)
  BY <1>2, <1>3, <1>6 DEF StoredOffset
<1>9. GenTypeOK'
  BY <1>3, <1>4, <1>7, <1>8 DEF GenTypeOK
<1>10. SetupPlaced'
  <2>1. instrs'[0] = instrs[0] /\ (n > 1 => instrs'[1] = instrs[1])
    BY <1>3, <1>4, <1>5, <1>7 DEF setup_words
  <2> QED
    BY <1>3, <2>1 DEF GenInv, SetupPlaced, TooLong
<1>11. BlocksPlaced' /\ BlocksDisjoint'
  <2> SUFFICES ASSUME NEW r \in loop_ranges PROVE BlockPlaced(r)'
    BY <1>3 DEF GenInv, BlocksPlaced, BlocksDisjoint
  <2>1. r[1] \in Nat /\ r[2] \in Nat
    <3>1. r \in (0 .. n) \X (0 .. n)
      BY <1>3 DEF GenTypeOK
    <3> QED
      BY <3>1
  <2>2. /\ setup_words <= r[1] /\ r[1] + 4 <= r[2] /\ r[2] <= n
        /\ \E t \in LOOP_TRIP_COUNTS[1] .. LOOP_TRIP_COUNTS[2] :
             instrs[r[1]] = addi(counter, 0, t)
        /\ \A k \in r[1] + 1 .. r[2] - 3 : instrs[k] \in gen_body_instr(Offsets)
        /\ instrs[r[2] - 2] = addi(counter, counter, -1)
        /\ instrs[r[2] - 1] = Word("BNE", 0, {counter, 0}, -(r[2] - r[1] - 2))
    BY Zenon DEF GenInv, BlocksPlaced, BlockPlaced
  <2>3. ~(r[1] <= slot /\ slot < r[2])
    BY <1>5 DEF in_any_range
  <2>4. \A k \in r[1] .. r[2] - 1 : instrs'[k] = instrs[k]
    <3>1. r[2] <= n
      BY <2>2, Zenon
    <3>2. \A k \in r[1] .. r[2] - 1 : k \in 0 .. n - 1 /\ k # slot
      BY <1>3, <1>4, <2>1, <2>3, <3>1
    <3> QED
      BY <1>7, <3>2, Zenon
  <2>5. /\ instrs'[r[1]] = instrs[r[1]] /\ instrs'[r[2] - 2] = instrs[r[2] - 2]
        /\ instrs'[r[2] - 1] = instrs[r[2] - 1]
        /\ \A k \in r[1] + 1 .. r[2] - 3 : instrs'[k] = instrs[k]
    BY <2>1, <2>2, <2>4
  <2>6. \A k \in r[1] + 1 .. r[2] - 3 : instrs'[k] \in gen_body_instr(Offsets)
    BY <2>2, <2>5, Zenon
  <2> QED
    BY <1>3, <2>2, <2>5, <2>6, Zenon DEF BlockPlaced
<1>12. SlotsOpen'
  BY <1>3, <1>4 DEF GenInv, SlotsOpen
<1>13. NotYetPlaced'
  <2> SUFFICES ASSUME NEW k \in 0 .. n - 1, Pending(k)' PROVE instrs'[k] = NoWord
    BY <1>3 DEF NotYetPlaced
  <2>1. Pending(k) /\ k # slot
    BY <1>4
  <2> QED
    BY <1>3, <1>7, <2>1 DEF GenInv, NotYetPlaced
<1>14. WordsPlaced'
  <2> SUFFICES ASSUME NEW k \in 0 .. n - 1
               PROVE  \/ k < setup_words \/ in_any_range(k, loop_ranges) \/ Pending(k)'
                      \/ instrs'[k] \in gen_one_instr(Offsets, k, n, loop_ranges)
    BY <1>3 DEF WordsPlaced
  <2>1. CASE k = slot
    BY <1>6, <1>7, <2>1
  <2>2. CASE k # slot
    BY <1>3, <1>4, <1>7, <2>2 DEF GenInv, WordsPlaced
  <2> QED
    BY <2>1, <2>2
<1>15. \A o \in written_offsets : \E s \in 0 .. n - 1 :
         /\ StoresTo(s, o)'
         /\ in_any_range(s, loop_ranges) \/ \A k \in 0 .. n - 1 : Pending(k) => s < k
  <2> SUFFICES ASSUME NEW o \in written_offsets
               PROVE  \E s \in 0 .. n - 1 :
                        /\ StoresTo(s, o)'
                        /\ \/ in_any_range(s, loop_ranges)
                           \/ \A k \in 0 .. n - 1 : Pending(k) => s < k
    OBVIOUS
  <2>1. PICK s \in 0 .. n - 1 :
          /\ StoresTo(s, o)
          /\ in_any_range(s, loop_ranges) \/ \A k \in 0 .. n - 1 : Pending(k) => s < k
    BY <1>3 DEF StoreInv, OffsetsStored
  <2>2. StoresTo(s, o)'
    BY <1>5, <1>7, <2>1 DEF StoresTo
  <2> QED
    BY <2>1, <2>2
<1>16. OffsetsStored'
  <2> SUFFICES ASSUME NEW o \in written_offsets'
               PROVE  \E s \in 0 .. n - 1 :
                        /\ StoresTo(s, o)'
                        /\ \/ in_any_range(s, loop_ranges)
                           \/ \A k \in 0 .. n - 1 : Pending(k)' => s < k
    BY <1>3 DEF OffsetsStored
  <2>1. CASE o \in written_offsets
    <3>1. PICK s \in 0 .. n - 1 :
            /\ StoresTo(s, o)'
            /\ in_any_range(s, loop_ranges) \/ \A k \in 0 .. n - 1 : Pending(k) => s < k
      BY <1>15, <2>1
    <3> QED
      BY <1>4, <3>1
  <2>2. CASE w.op = "SW" /\ w.imm = o
    <3>1. StoresTo(slot, o)'
      BY <1>7, <2>2 DEF StoresTo
    <3> QED
      BY <1>4, <3>1
  <2> QED
    BY <1>8, <2>1, <2>2
<1>17. LoadsBacked'
  <2> SUFFICES ASSUME NEW k \in 0 .. n - 1, instrs'[k].op = "LW"
               PROVE  \E s \in 0 .. n - 1 :
                        /\ \/ s < k
                           \/ in_any_range(s, loop_ranges) /\ ~in_any_range(k, loop_ranges)
                        /\ StoresTo(s, instrs[k].imm)'
    BY <1>3 DEF LoadsBacked
  <2>1. CASE k = slot
    <3>1. w.imm \in written_offsets
      BY <1>6, <1>7, <2>1
    <3>2. PICK s \in 0 .. n - 1 :
            /\ StoresTo(s, w.imm)'
            /\ in_any_range(s, loop_ranges) \/ \A q \in 0 .. n - 1 : Pending(q) => s < q
      BY <1>15, <3>1
    <3>3. StoresTo(s, instrs[k].imm)'
      BY <1>7, <2>1, <3>2 DEF StoresTo
    <3> QED
      BY <1>4, <1>5, <2>1, <3>2, <3>3
  <2>2. CASE k # slot
    <3>1. instrs'[k] = instrs[k]
      BY <1>7, <2>2
    <3>2. PICK s \in 0 .. n - 1 :
            /\ s < k \/ (in_any_range(s, loop_ranges) /\ ~in_any_range(k, loop_ranges))
            /\ StoresTo(s, instrs[k].imm)
      BY <1>3, <3>1 DEF StoreInv, LoadsBacked
    <3>3. StoresTo(s, instrs[k].imm)'
      BY <1>5, <1>7, <3>1, <3>2 DEF StoresTo
    <3> QED
      BY <3>2, <3>3
  <2> QED
    BY <2>1, <2>2
<1> QED
  BY <1>3, <1>4, <1>9, <1>10, <1>11, <1>12, <1>13, <1>14, <1>16, <1>17 DEF GenInv, StoreInv

LEMMA GenStutters ==
  ASSUME GenInv, StoreInv, UNCHANGED gen_vars PROVE GenInv' /\ StoreInv'
<1>1. UNCHANGED <<phase, n, i, instrs, loop_ranges, single_slots, written_offsets,
                  expected_retire>>
  BY DEF gen_vars
<1>2. /\ setup_words' = setup_words /\ (Generated' <=> Generated) /\ (TooLong' <=> TooLong)
      /\ \A k : Pending(k)' <=> Pending(k)
  BY <1>1 DEF setup_words, Generated, TooLong, Pending
<1>3. \A r : BlockPlaced(r)' <=> BlockPlaced(r)
  BY <1>1, <1>2, Zenon DEF BlockPlaced
<1>4. \A s, o : StoresTo(s, o)' <=> StoresTo(s, o)
  BY <1>1 DEF StoresTo
<1>5. GenTypeOK' /\ SetupPlaced' /\ BlocksPlaced' /\ BlocksDisjoint'
  BY <1>1, <1>2, <1>3 DEF GenInv, GenTypeOK, SetupPlaced, BlocksPlaced, BlocksDisjoint
<1>6. SlotsOpen' /\ SlotsOrdered' /\ NotYetPlaced' /\ WordsPlaced'
  BY <1>1, <1>2 DEF GenInv, SlotsOpen, SlotsOrdered, NotYetPlaced, WordsPlaced
<1>7. StoreInv'
  BY <1>1, <1>2, <1>4 DEF StoreInv, OffsetsStored, LoadsBacked
<1> QED
  BY <1>1, <1>5, <1>6, <1>7 DEF GenInv

LEMMA GenStep ==
  ASSUME GenInv, StoreInv, [Next]_vars PROVE GenInv' /\ StoreInv'
<1>1. CASE GenNext
  BY <1>1, FailStep, SetupStep, PlaceLoopStep, DeferSlotStep, EndPass1Step, FillSlotStep,
     EndPass2Step DEF GenNext
<1>2. CASE UNCHANGED gen_vars
  BY <1>2, GenStutters
<1> QED
  BY <1>1, <1>2 DEF Next, Generate, Run, vars

LEMMA GenInvariant == Spec => [](GenInv /\ StoreInv)
<1>1. Init => GenInv /\ StoreInv
  BY GenInitially DEF Init
<1>2. GenInv /\ StoreInv /\ [Next]_vars => (GenInv /\ StoreInv)'
  BY GenStep
<1> QED
  BY <1>1, <1>2, PTL DEF Spec

-----------------------------------------------------------------------------
(* Arithmetic *)

LEMMA ModSmall == ASSUME NEW W \in Nat, W > 0, NEW y \in 0 .. W - 1 PROVE y % W = y
OBVIOUS

LEMMA ModTypes == ASSUME NEW W \in Nat, W > 0, NEW y \in Int PROVE y % W \in 0 .. W - 1
OBVIOUS

LEMMA DivMod ==
  ASSUME NEW W \in Nat, W > 0, NEW y \in Int PROVE y % W = y - W * (y \div W)
OBVIOUS

(* A residue may be taken between two additions. *)
LEMMA ModBetween ==
  ASSUME NEW W \in Nat, W > 0, NEW a \in Nat, a < 2 * W, NEW b \in Int,
         a + b >= 0, a + b < W
  PROVE  ((a % W) + b) % W = a + b
<1>1. a + b \in 0 .. W - 1
  OBVIOUS
<1>2. CASE a < W
  <2>1. a % W = a
    BY <1>2
  <2> QED
    BY <1>1, <2>1, ModSmall
<1>3. CASE a >= W
  <2>1. a % W = a - W
    BY <1>3
  <2>2. (a % W) + b = (a + b) - W
    BY <2>1
  <2>3. PICK y : y = a + b
    OBVIOUS
  <2>4. y \in 0 .. W - 1 /\ (a % W) + b = y - W
    BY <1>1, <2>2, <2>3
  <2>5. (y - W) % W = y
    BY <2>4
  <2> QED
    BY <2>3, <2>4, <2>5
<1> QED
  BY <1>2, <1>3

LEMMA HalfImmediate ==
  IMM12 \div 2 \in Nat /\ IMM12 = 2 * (IMM12 \div 2) /\ IMM12 \div 2 >= 1
BY WidthAssumption

(* An immediate of twelve bits is read back as it was written. *)
LEMMA SignExtended ==
  ASSUME NEW imm \in Int, -(IMM12 \div 2) <= imm, imm < IMM12 \div 2
  PROVE  sext12(imm) = imm
<1>1. IMM12 \in Nat /\ IMM12 > 0
  BY WidthAssumption
<1>2. imm + (IMM12 \div 2) \in 0 .. IMM12 - 1
  BY HalfImmediate
<1>3. (imm + (IMM12 \div 2)) % IMM12 = imm + (IMM12 \div 2)
  BY <1>1, <1>2, ModSmall
<1> QED
  BY <1>3, HalfImmediate DEF sext12

(* auipc and addi add up to the offset. *)
LEMMA SplitOffset ==
  ASSUME NEW len \in Nat
  PROVE  /\ hi20(len) \in Int /\ lo12(len) \in Int
         /\ IMM12 * hi20(len) \in Int
         /\ IMM12 * hi20(len) + lo12(len) = data_offset(len)
         /\ -(IMM12 \div 2) <= lo12(len) /\ lo12(len) < IMM12 \div 2
<1> DEFINE d == data_offset(len)
           h == d \div IMM12
           m == d % IMM12
<1>1. d \in Nat /\ IMM12 \in Nat /\ IMM12 > 0
  BY ImmediateTypes, WidthAssumption
<1>2. h \in Int /\ m \in 0 .. IMM12 - 1 /\ m = d - IMM12 * h
  BY <1>1, DivMod, ModTypes
<1>3. borrows(len) <=> m >= IMM12 \div 2
  BY DEF borrows
<1>4. /\ lo12(len) = m - (IF borrows(len) THEN IMM12 ELSE 0)
      /\ hi20(len) = h + (IF borrows(len) THEN 1 ELSE 0)
  BY DEF lo12, hi20
<1>5. IMM12 * (h + 1) = IMM12 * h + IMM12 /\ IMM12 * h \in Int /\ h + 0 = h
  BY <1>1, <1>2
<1> HIDE DEF d, h, m
<1>6. CASE borrows(len)
  <2>1. lo12(len) = m - IMM12 /\ hi20(len) = h + 1 /\ m >= IMM12 \div 2
    BY <1>3, <1>4, <1>6
  <2>2. IMM12 * hi20(len) = IMM12 * h + IMM12
    BY <1>5, <2>1
  <2> QED
    BY <1>1, <1>2, <1>5, <2>1, <2>2, HalfImmediate DEF d
<1>7. CASE ~borrows(len)
  <2>1. lo12(len) = m - 0 /\ hi20(len) = h + 0
    BY <1>4, <1>7, Zenon
  <2>2. m < IMM12 \div 2 /\ m - 0 = m
    BY <1>2, <1>3, <1>7, HalfImmediate, WidthAssumption
  <2>3. IMM12 * hi20(len) = IMM12 * h
    BY <1>5, <2>1
  <2> QED
    BY <1>1, <1>2, <1>5, <2>1, <2>2, <2>3, HalfImmediate DEF d
<1> QED
  BY <1>6, <1>7

(* The value of x31 once both are executed, in a program that fits. *)
LEMMA BaseValue ==
  ASSUME NEW len \in Nat, ~(program_end_bytes(len) > max_valid_end)
  PROVE  (((4 * preamble_words + IMM12 * hi20(len)) % WORD) + sext12(lo12(len))) % WORD
           = program_end_bytes(len) + LOAD_STORE_WINDOW
<1> DEFINE a == 4 * preamble_words + IMM12 * hi20(len)
           b == lo12(len)
<1>1. /\ IMM12 * hi20(len) \in Int /\ b \in Int
      /\ IMM12 * hi20(len) + b = data_offset(len)
      /\ -(IMM12 \div 2) <= b /\ b < IMM12 \div 2
  BY SplitOffset
<1>2. sext12(b) = b
  BY <1>1, SignExtended
<1>3. /\ program_end_bytes(len) = 4 * (preamble_words + len + 1)
      /\ data_offset(len) = 4 * (len + 1) + LOAD_STORE_WINDOW /\ preamble_words \in Nat
  BY ImmediateTypes, RegisterFacts
<1>4. /\ WORD \in Nat /\ WORD > 0 /\ WORD >= IMM12 /\ WORD >= DATA_MEM_BYTES
      /\ LOAD_STORE_WINDOW \in Nat /\ DATA_MEM_BYTES \in Nat
  BY WidthAssumption, SizesAssumption
<1>5. program_end_bytes(len) <= DATA_MEM_BYTES - 4 - 2 * LOAD_STORE_WINDOW
  BY <1>3, <1>4 DEF max_valid_end
<1>6. a + b = program_end_bytes(len) + LOAD_STORE_WINDOW /\ a \in Int
  <2>1. PICK c : c = IMM12 * hi20(len)
    OBVIOUS
  <2>2. c \in Int /\ c + b = 4 * (len + 1) + LOAD_STORE_WINDOW /\ a = 4 * preamble_words + c
    BY <1>1, <1>3, <2>1
  <2> QED
    BY <1>1, <1>3, <1>4, <2>2
<1> HIDE DEF a, b
<1>7. a + b >= 0 /\ a + b < WORD
  BY <1>3, <1>4, <1>5, <1>6
<1>8. a \in Nat /\ a < 2 * WORD
  <2>1. IMM12 * hi20(len) >= 0
    <3>1. hi20(len) >= 0 /\ hi20(len) \in Int
      <4>1. data_offset(len) \div IMM12 \in Nat
        BY ImmediateTypes, WidthAssumption
      <4> QED
        BY <4>1 DEF hi20
    <3> QED
      BY <3>1, WidthAssumption
  <2>2. a >= 0
    BY <1>1, <1>3, <2>1 DEF a
  <2> QED
    BY <1>1, <1>4, <1>6, <1>7, <2>2, HalfImmediate
<1>9. ((a % WORD) + b) % WORD = a + b
  BY <1>1, <1>4, <1>7, <1>8, ModBetween
<1> QED
  BY <1>2, <1>6, <1>9 DEF a, b

-----------------------------------------------------------------------------
(* The inductive invariant of a run, part by part *)

(* Nothing is executed before the program is complete. *)
NotStarted == phase # "run" => RunInit

RunTypes ==
  /\ pc \in 0 .. epilogue_at
  /\ x \in [Tracked -> 0 .. WORD - 1]
  /\ differs \subseteq Regs \ {0} /\ same \subseteq Offsets
  /\ stored \subseteq Offsets /\ early_load \in BOOLEAN
  /\ retired \in Nat /\ jumped \in BOOLEAN

(* x31 after auipc, and from the addi on. *)
BaseSet ==
  phase = "run" =>
    /\ pc = preamble_words + 1 =>
         x[base] = (4 * preamble_words + IMM12 * hi20(n)) % WORD
    /\ pc >= preamble_words + 2 =>
         x[base] = program_end_bytes(n) + LOAD_STORE_WINDOW

(* The preamble clears one register after the other. *)
ClearedSoFar == phase = "run" /\ pc <= preamble_words => differs \cap (0 .. pc) = {}

(* Both simulators hold the same data where the run has stored any, and    *)
(* the same registers but x31.                                             *)
Agree ==
  ~early_load => /\ stored \subseteq same
                 /\ pc >= preamble_words => differs \subseteq {base}

(* Without a branch or jump taken, the stores passed have been executed. *)
StoredSoFar ==
  phase = "run" /\ ~jumped =>
    \A s \in 0 .. n - 1 :
      s < pc - preamble_words /\ instrs[s].op = "SW" => instrs[s].imm \in stored

RunInv ==
  /\ GenInv /\ NotStarted /\ RunTypes /\ LoopEnteredAtInit /\ BaseSet /\ ClearedSoFar
  /\ Agree

-----------------------------------------------------------------------------
(* The words a run meets *)

LEMMA RunTypeFacts ==
  ASSUME RunInv
  PROVE  /\ n \in Nat /\ i \in Nat /\ pc \in Nat /\ pc <= epilogue_at
         /\ epilogue_at = preamble_words + n /\ preamble_words \in Nat
         /\ counter \in Tracked /\ base \in Tracked /\ 0 \notin Tracked
         /\ x[counter] \in 0 .. WORD - 1 /\ x[base] \in 0 .. WORD - 1
         /\ WORD \in Nat /\ WORD > 0 /\ 0 \notin differs
<1>1. n \in Nat /\ i \in Nat
  BY LengthType DEF RunInv, GenInv
<1> QED
  BY <1>1, RegisterFacts, WidthAssumption DEF RunInv, RunTypes, epilogue_at, Tracked

LEMMA BlockBounds ==
  ASSUME RunInv, NEW r \in loop_ranges
  PROVE  /\ r[1] \in Nat /\ r[2] \in Nat /\ setup_words \in Nat /\ setup_words >= 1
         /\ setup_words <= r[1] /\ r[1] + 4 <= r[2] /\ r[2] <= n
         /\ (n > 1 => setup_words = 2)
<1>1. r \in (0 .. n) \X (0 .. n)
  BY DEF RunInv, GenInv, GenTypeOK
<1>2. BlockPlaced(r)
  BY DEF RunInv, GenInv, BlocksPlaced
<1>3. setup_words <= r[1] /\ r[1] + 4 <= r[2] /\ r[2] <= n
  BY <1>2, Zenon DEF BlockPlaced
<1> QED
  BY <1>1, <1>3 DEF setup_words

(* Where the current word comes from. *)
LEMMA WordOrigin ==
  ASSUME RunInv, Running
  PROVE  \/ pc < preamble_words /\ instruction = addi(pc + 1, 0, 0)
         \/ pc = preamble_words /\ instruction = Word("AUIPC", base, {}, hi20(n))
         \/ /\ pc = preamble_words + 1 /\ n > 1
            /\ instruction = addi(base, base, lo12(n))
         \/ \E r \in loop_ranges :
              /\ r[1] <= pc - preamble_words /\ pc - preamble_words < r[2]
              /\ instruction = instrs[pc - preamble_words]
         \/ /\ setup_words <= pc - preamble_words
            /\ pc - preamble_words \in 0 .. n - 1
            /\ ~in_any_range(pc - preamble_words, loop_ranges)
            /\ instruction
                 \in gen_one_instr(Offsets, pc - preamble_words, n, loop_ranges)
<1>1. /\ n \in Nat /\ pc \in Nat /\ preamble_words \in Nat /\ pc < preamble_words + n
      /\ epilogue_at = preamble_words + n /\ phase = "run" /\ Generated
      /\ preamble_words = NREGS - 1 /\ NREGS \in Nat
  BY RunTypeFacts, RegisterFacts, SizesAssumption DEF Running, Generated
<1>2. CASE pc < preamble_words
  <2>1. pc \in 0 .. NREGS - 2
    BY <1>1, <1>2
  <2> QED
    BY <1>2, <2>1 DEF instruction, build_full_program, clear_all_regs_preamble
<1>3. CASE pc >= preamble_words
  <2>1. PICK k : k = pc - preamble_words
    OBVIOUS
  <2>2. k \in 0 .. n - 1 /\ instruction = instrs[k] /\ pc = preamble_words + k
    BY <1>1, <1>3, <2>1 DEF instruction, build_full_program
  <2>3. /\ instrs[0] = Word("AUIPC", base, {}, hi20(n))
        /\ n > 1 => instrs[1] = addi(base, base, lo12(n))
    BY <1>1 DEF RunInv, GenInv, SetupPlaced
  <2>4. ~Pending(k)
    BY <1>1 DEF RunInv, GenInv, Pending
  <2>5. \/ k < setup_words
        \/ in_any_range(k, loop_ranges)
        \/ instrs[k] \in gen_one_instr(Offsets, k, n, loop_ranges)
    BY <1>1, <2>2, <2>4 DEF RunInv, GenInv, WordsPlaced
  <2>6. CASE k = 0
    BY <1>1, <2>2, <2>3, <2>6
  <2>7. CASE k = 1
    BY <1>1, <2>2, <2>3, <2>7
  <2>8. CASE k >= 2 /\ in_any_range(k, loop_ranges)
    BY <2>1, <2>2, <2>8 DEF in_any_range
  <2>9. CASE k >= 2 /\ ~in_any_range(k, loop_ranges)
    BY <1>1, <2>1, <2>2, <2>5, <2>9 DEF setup_words
  <2> QED
    BY <2>2, <2>6, <2>7, <2>8, <2>9
<1> QED
  BY <1>1, <1>2, <1>3

(* Only the action of the current word's operation can be taken. *)
LEMMA RunByOperation ==
  ASSUME RunInv, Running, Run
  PROVE  /\ UNCHANGED gen_vars
         /\ \/ instruction.op = "ADDI" /\ Addi
            \/ instruction.op = "AUIPC" /\ Auipc
            \/ instruction.op = "ALU" /\ Arithmetic
            \/ instruction.op = "LW" /\ Load
            \/ instruction.op = "SW" /\ Store
            \/ instruction.op = "BRANCH" /\ Branch
            \/ instruction.op = "JAL" /\ Jump
            \/ instruction.op = "BNE" /\ LoopBranch
<1>1. ~SelfBranch /\ ~NoProgram
  BY RunTypeFacts DEF Running, SelfBranch, AtEpilogue, NoProgram
<1>2. /\ Addi => instruction.op = "ADDI"
      /\ Auipc => instruction.op = "AUIPC"
      /\ Arithmetic => instruction.op = "ALU"
      /\ Load => instruction.op = "LW"
      /\ Store => instruction.op = "SW"
      /\ Branch => instruction.op = "BRANCH"
      /\ Jump => instruction.op = "JAL"
      /\ LoopBranch => instruction.op = "BNE"
  BY Zenon DEF Addi, Auipc, Arithmetic, Load, Store, Branch, Jump, LoopBranch
<1> QED
  BY <1>1, <1>2 DEF Run

(* The words of a block. *)
LEMMA BlockOrigin ==
  ASSUME RunInv, Running, NEW r \in loop_ranges,
         r[1] <= pc - preamble_words, pc - preamble_words < r[2],
         instruction = instrs[pc - preamble_words]
  PROVE  \/ /\ pc - preamble_words = r[1]
            /\ \E t \in LOOP_TRIP_COUNTS[1] .. LOOP_TRIP_COUNTS[2] :
                 instruction = addi(counter, 0, t)
         \/ /\ r[1] < pc - preamble_words /\ pc - preamble_words < r[2] - 2
            /\ instruction \in gen_body_instr(Offsets)
         \/ /\ pc - preamble_words = r[2] - 2
            /\ instruction = addi(counter, counter, -1)
         \/ /\ pc - preamble_words = r[2] - 1
            /\ instruction = Word("BNE", 0, {counter, 0}, -(r[2] - r[1] - 2))
<1>1. PICK k : k = pc - preamble_words
  OBVIOUS
<1>2. /\ r[1] \in Nat /\ r[2] \in Nat /\ r[1] + 4 <= r[2] /\ k \in Int
      /\ r[1] <= k /\ k < r[2] /\ instruction = instrs[k]
  BY <1>1, BlockBounds, RunTypeFacts
<1>3. BlockPlaced(r)
  BY DEF RunInv, GenInv, BlocksPlaced
<1>4. /\ \E t \in LOOP_TRIP_COUNTS[1] .. LOOP_TRIP_COUNTS[2] :
           instrs[r[1]] = addi(counter, 0, t)
      /\ \A j \in r[1] + 1 .. r[2] - 3 : instrs[j] \in gen_body_instr(Offsets)
      /\ instrs[r[2] - 2] = addi(counter, counter, -1)
      /\ instrs[r[2] - 1] = Word("BNE", 0, {counter, 0}, -(r[2] - r[1] - 2))
  BY <1>3, Zenon DEF BlockPlaced
<1>5. CASE k = r[1]
  BY <1>1, <1>2, <1>4, <1>5, Zenon
<1>6. CASE k \in r[1] + 1 .. r[2] - 3
  <2>1. r[1] < k /\ k < r[2] - 2
    BY <1>2, <1>6
  <2> QED
    BY <1>1, <1>2, <1>4, <1>6, <2>1, Zenon
<1>7. CASE k = r[2] - 2
  BY <1>1, <1>2, <1>4, <1>7, Zenon
<1>8. CASE k = r[2] - 1
  BY <1>1, <1>2, <1>4, <1>8, Zenon
<1>9. k = r[1] \/ k \in r[1] + 1 .. r[2] - 3 \/ k = r[2] - 2 \/ k = r[2] - 1
  BY <1>2
<1> QED
  BY <1>5, <1>6, <1>7, <1>8, <1>9

LEMMA InstructionTypes ==
  ASSUME RunInv, Running
  PROVE  instruction \in Instr /\ (instruction.op = "SW" => instruction.imm \in Offsets)
<1>1. CASE pc < preamble_words /\ instruction = addi(pc + 1, 0, 0)
  <2>1. pc + 1 \in Regs /\ 0 \in Regs
    BY <1>1, RunTypeFacts, RegisterFacts, SizesAssumption DEF Regs
  <2> QED
    BY <1>1, <2>1 DEF addi, Word, Instr, Ops
<1>2. CASE instruction = Word("AUIPC", base, {}, hi20(n))
  BY <1>2, RunTypeFacts, ImmediateTypes, RegisterFacts DEF Word, Instr, Ops
<1>3. CASE instruction = addi(base, base, lo12(n))
  BY <1>3, RunTypeFacts, ImmediateTypes, RegisterFacts DEF addi, Word, Instr, Ops
<1>4. CASE \E r \in loop_ranges :
             /\ r[1] <= pc - preamble_words /\ pc - preamble_words < r[2]
             /\ instruction = instrs[pc - preamble_words]
  <2>1. PICK r \in loop_ranges :
          /\ r[1] <= pc - preamble_words /\ pc - preamble_words < r[2]
          /\ instruction = instrs[pc - preamble_words]
    BY <1>4
  <2>2. CASE \E t \in LOOP_TRIP_COUNTS[1] .. LOOP_TRIP_COUNTS[2] :
               instruction = addi(counter, 0, t)
    <3>1. PICK t \in LOOP_TRIP_COUNTS[1] .. LOOP_TRIP_COUNTS[2] :
            instruction = addi(counter, 0, t)
      BY <2>2
    <3>2. t \in Int
      BY TripFacts
    <3> QED
      BY <3>1, <3>2, BlockWordTypes
  <2>3. CASE instruction \in gen_body_instr(Offsets)
    BY <2>3, BodyWords
  <2>4. CASE \/ instruction = addi(counter, counter, -1)
             \/ instruction = Word("BNE", 0, {counter, 0}, -(r[2] - r[1] - 2))
    <3>1. -(r[2] - r[1] - 2) \in Int
      BY BlockBounds
    <3> QED
      BY <2>4, <3>1, BlockWordTypes
  <2> QED
    BY <2>1, <2>2, <2>3, <2>4, BlockOrigin
<1>5. CASE /\ pc - preamble_words \in 0 .. n - 1
           /\ instruction
                 \in gen_one_instr(Offsets, pc - preamble_words, n, loop_ranges)
  <2>1. /\ instruction \in Instr
        /\ \/ instruction \in gen_body_instr(Offsets)
           \/ instruction.op = "BRANCH" \/ instruction.op = "JAL"
    BY <1>5, RunTypeFacts, SlotWords
  <2> QED
    BY <2>1, BodyWords
<1> QED
  BY <1>1, <1>2, <1>3, <1>4, <1>5, WordOrigin

(* Writing a tracked register. *)
LEMMA WriteTypes ==
  ASSUME RunInv, NEW rd, NEW v \in Int
  PROVE  write(rd, v) \in [Tracked -> 0 .. WORD - 1]
<1>1. v % WORD \in 0 .. WORD - 1
  BY RunTypeFacts, ModTypes
<1> QED
  BY <1>1 DEF write, RunInv, RunTypes

LEMMA StepTypes ==
  ASSUME RunInv, Running, Run
  PROVE  /\ x' \in [Tracked -> 0 .. WORD - 1]
         /\ differs' \subseteq Regs \ {0} /\ same' \subseteq Offsets
         /\ stored' \subseteq Offsets /\ early_load' \in BOOLEAN
         /\ retired' \in Nat /\ jumped' \in BOOLEAN
<1>1. /\ instruction \in Instr /\ (instruction.op = "SW" => instruction.imm \in Offsets)
      /\ instruction.rd \in Regs /\ instruction.srcs \subseteq Regs /\ instruction.imm \in Int
  BY InstructionTypes DEF Instr
<1>2. /\ x \in [Tracked -> 0 .. WORD - 1] /\ differs \subseteq Regs \ {0}
      /\ same \subseteq Offsets /\ stored \subseteq Offsets /\ early_load \in BOOLEAN
      /\ retired \in Nat /\ jumped \in BOOLEAN /\ pc \in Nat
  BY RunTypeFacts DEF RunInv, RunTypes
<1>3. \A d \in BOOLEAN : differs_after(instruction.rd, d) \subseteq Regs \ {0}
  BY <1>1, <1>2 DEF differs_after
<1>4. computed(instruction.rd) \subseteq [Tracked -> 0 .. WORD - 1]
  BY <1>2, WriteTypes DEF computed
<1>5. \A d : Go(d) => retired' \in Nat
  BY <1>2 DEF Go
<1>6. CASE Addi
  <2>1. PICK rs \in instruction.srcs :
          /\ x' = IF instruction.rd \in Tracked
                  THEN write(instruction.rd, value(rs) + sext12(instruction.imm)) ELSE x
          /\ differs' = differs_after(instruction.rd, rs \in differs)
    BY <1>6 DEF Addi
  <2>2. value(rs) \in Int
    BY <1>2, RunTypeFacts DEF value
  <2>3. sext12(instruction.imm) \in Int
    BY <1>1, WidthAssumption, HalfImmediate DEF sext12
  <2>4. value(rs) + sext12(instruction.imm) \in Int
    BY <2>2, <2>3
  <2>5. x' \in [Tracked -> 0 .. WORD - 1]
    <3>1. write(instruction.rd, value(rs) + sext12(instruction.imm))
            \in [Tracked -> 0 .. WORD - 1]
      BY <2>4, WriteTypes
    <3> QED
      BY <1>2, <2>1, <3>1
  <2>6. differs' \subseteq Regs \ {0}
    <3>1. (rs \in differs) \in BOOLEAN
      OBVIOUS
    <3> QED
      BY <1>3, <2>1, <3>1, Zenon
  <2>7. UNCHANGED <<same, stored, early_load, jumped>> /\ retired' \in Nat
    BY <1>5, <1>6 DEF Addi, mem_vars
  <2> QED
    BY <1>2, <2>5, <2>6, <2>7
<1>7. CASE Auipc
  <2>1. 4 * pc + IMM12 * instruction.imm \in Int
    BY <1>1, <1>2, WidthAssumption
  <2> QED
    BY <1>2, <1>3, <1>5, <1>7, <2>1, WriteTypes DEF Auipc, mem_vars
<1>8. CASE Arithmetic \/ Load
  BY <1>2, <1>3, <1>4, <1>5, <1>8 DEF Arithmetic, Load, mem_vars
<1>9. CASE instruction.op = "SW" /\ Store
  BY <1>1, <1>2, <1>5, <1>9 DEF Store
<1>10. CASE Branch \/ Jump \/ LoopBranch
  BY <1>2, <1>3, <1>5, <1>10 DEF Branch, Jump, LoopBranch, mem_vars
<1> QED
  BY <1>6, <1>7, <1>8, <1>9, <1>10, RunByOperation

-----------------------------------------------------------------------------
(* What each kind of word does *)

(* An addi of a register to a tracked or cleared one. *)
LEMMA AddiEffect ==
  ASSUME RunInv, Running, Run, NEW rd \in Regs, NEW rs \in Regs, NEW m \in Int,
         instruction = addi(rd, rs, m)
  PROVE  /\ pc' = pc + 1 /\ UNCHANGED mem_vars
         /\ differs' = differs_after(rd, rs \in differs)
         /\ x' = IF rd \in Tracked THEN write(rd, value(rs) + sext12(m)) ELSE x
<1>1. /\ instruction.op = "ADDI" /\ instruction.rd = rd /\ instruction.srcs = {rs}
      /\ instruction.imm = m
  BY DEF addi, Word
<1>2. Addi
  BY <1>1, RunByOperation
<1>3. PICK s \in instruction.srcs :
        /\ x' = IF instruction.rd \in Tracked
                THEN write(instruction.rd, value(s) + sext12(instruction.imm)) ELSE x
        /\ differs' = differs_after(instruction.rd, s \in differs)
  BY <1>2 DEF Addi
<1>4. s = rs
  BY <1>1
<1> QED
  BY <1>1, <1>2, <1>3, <1>4, Zenon DEF Addi, Go

LEMMA PreambleEffect ==
  ASSUME RunInv, Running, Run, pc < preamble_words, instruction = addi(pc + 1, 0, 0)
  PROVE  pc' = pc + 1 /\ UNCHANGED mem_vars /\ differs' = differs \ {pc + 1}
<1>1. pc + 1 \in Regs /\ 0 \in Regs /\ 0 \notin differs
  BY RunTypeFacts, RegisterFacts, SizesAssumption DEF Regs
<1>2. pc' = pc + 1 /\ UNCHANGED mem_vars /\ differs' = differs_after(pc + 1, 0 \in differs)
  BY <1>1, AddiEffect
<1> QED
  BY <1>1, <1>2 DEF differs_after

LEMMA AuipcEffect ==
  ASSUME RunInv, Running, Run, instruction = Word("AUIPC", base, {}, hi20(n))
  PROVE  /\ pc' = pc + 1 /\ UNCHANGED mem_vars /\ differs' \subseteq differs \cup {base}
         /\ x'[base] = (4 * pc + IMM12 * hi20(n)) % WORD
<1>1. instruction.op = "AUIPC" /\ instruction.rd = base /\ instruction.imm = hi20(n)
  BY DEF Word
<1>2. Auipc
  BY <1>1, RunByOperation
<1>3. x' = write(base, 4 * pc + IMM12 * hi20(n)) /\ differs' = differs_after(base, TRUE)
  BY <1>1, <1>2, Zenon DEF Auipc
<1>4. base \in DOMAIN x
  BY RunTypeFacts DEF RunInv, RunTypes
<1>5. x'[base] = (4 * pc + IMM12 * hi20(n)) % WORD
  BY <1>3, <1>4 DEF write
<1> QED
  BY <1>2, <1>3, <1>5 DEF Auipc, Go, differs_after

LEMMA BaseEffect ==
  ASSUME RunInv, Running, Run, instruction = addi(base, base, lo12(n))
  PROVE  /\ pc' = pc + 1 /\ UNCHANGED mem_vars /\ differs' \subseteq differs \cup {base}
         /\ x'[base] = (x[base] + sext12(lo12(n))) % WORD
<1>1. base \in Regs /\ lo12(n) \in Int /\ base \in Tracked /\ base \in DOMAIN x
  BY RunTypeFacts, RegisterFacts, ImmediateTypes DEF RunInv, RunTypes
<1>2. /\ pc' = pc + 1 /\ UNCHANGED mem_vars
      /\ differs' = differs_after(base, base \in differs)
      /\ x' = IF base \in Tracked THEN write(base, value(base) + sext12(lo12(n))) ELSE x
  BY <1>1, AddiEffect
<1>3. x' = write(base, x[base] + sext12(lo12(n)))
  BY <1>1, <1>2 DEF value
<1>4. x'[base] = (x[base] + sext12(lo12(n))) % WORD
  BY <1>1, <1>3 DEF write
<1> QED
  BY <1>2, <1>4 DEF differs_after

LEMMA CounterEffect ==
  ASSUME RunInv, Running, Run, NEW rs \in {0, counter}, NEW m \in Int,
         instruction = addi(counter, rs, m)
  PROVE  /\ pc' = pc + 1 /\ UNCHANGED mem_vars /\ differs' \subseteq differs
         /\ x'[counter] = (value(rs) + sext12(m)) % WORD /\ x'[base] = x[base]
<1>1. /\ counter \in Regs /\ rs \in Regs /\ counter \in Tracked /\ base # counter
      /\ 0 \notin differs /\ counter \in DOMAIN x /\ base \in DOMAIN x
  BY RunTypeFacts, RegisterFacts DEF RunInv, RunTypes, reg, Regs
<1>2. /\ pc' = pc + 1 /\ UNCHANGED mem_vars
      /\ differs' = differs_after(counter, rs \in differs)
      /\ x' = IF counter \in Tracked THEN write(counter, value(rs) + sext12(m)) ELSE x
  BY <1>1, AddiEffect
<1>3. differs' \subseteq differs
  BY <1>1, <1>2 DEF differs_after
<1>4. x' = write(counter, value(rs) + sext12(m))
  BY <1>1, <1>2
<1>5. x'[counter] = (value(rs) + sext12(m)) % WORD /\ x'[base] = x[base]
  BY <1>1, <1>4 DEF write
<1> QED
  BY <1>2, <1>3, <1>5

(* A step after which the simulators agree if they did before. *)
KeepsAgreement ==
  /\ early_load => early_load'
  /\ stored \subseteq same /\ differs \subseteq {base} =>
       early_load' \/ (stored' \subseteq same' /\ differs' \subseteq {base})

LEMMA BodyEffect ==
  ASSUME RunInv, Running, Run, instruction \in gen_body_instr(Offsets)
  PROVE  pc' = pc + 1 /\ x' = x /\ KeepsAgreement
<1>1. \/ instruction.op = "ALU" /\ instruction.rd \in reg /\ instruction.srcs \subseteq reg
      \/ instruction.op = "LW" /\ instruction.rd \in reg /\ instruction.imm \in Offsets
      \/ /\ instruction.op = "SW" /\ instruction.imm \in Offsets
         /\ instruction.srcs \subseteq reg \cup {base}
  BY BodyWords
<1>2. \A rd \in reg : computed(rd) = {x}
  BY RegisterFacts DEF computed, Tracked
<1>3. CASE instruction.op = "ALU" /\ instruction.rd \in reg /\ instruction.srcs \subseteq reg
  <2>1. Arithmetic
    BY <1>3, RunByOperation
  <2>2. /\ pc' = pc + 1 /\ x' = x /\ UNCHANGED mem_vars
        /\ differs' = differs_after(instruction.rd, instruction.srcs \cap differs # {})
    BY <1>2, <1>3, <2>1 DEF Arithmetic, Go
  <2>3. differs \subseteq {base} => instruction.srcs \cap differs = {}
    BY <1>3, RegisterFacts
  <2> QED
    BY <2>2, <2>3 DEF KeepsAgreement, differs_after, mem_vars
<1>4. CASE instruction.op = "LW" /\ instruction.rd \in reg /\ instruction.imm \in Offsets
  <2>1. Load
    BY <1>4, RunByOperation
  <2>2. /\ pc' = pc + 1 /\ x' = x /\ UNCHANGED <<same, stored>>
        /\ differs' = differs_after(instruction.rd, instruction.imm \notin same)
        /\ early_load' = (early_load \/ instruction.imm \notin stored)
    BY <1>2, <1>4, <2>1 DEF Load, Go
  <2> QED
    BY <1>4, <2>2 DEF KeepsAgreement, differs_after
<1>5. CASE /\ instruction.op = "SW" /\ instruction.imm \in Offsets
           /\ instruction.srcs \subseteq reg \cup {base}
  <2>1. Store
    BY <1>5, RunByOperation
  <2>2. /\ pc' = pc + 1 /\ x' = x /\ differs' = differs
        /\ same' = IF (instruction.srcs \ {base}) \cap differs = {}
                   THEN same \cup {instruction.imm} ELSE same \ {instruction.imm}
        /\ stored' = stored \cup {instruction.imm} /\ early_load' = early_load
    BY <2>1 DEF Store, Go
  <2>3. differs \subseteq {base} => (instruction.srcs \ {base}) \cap differs = {}
    OBVIOUS
  <2> QED
    BY <1>5, <2>2, <2>3 DEF KeepsAgreement
<1> QED
  BY <1>1, <1>3, <1>4, <1>5

LEMMA LoopBranchEffect ==
  ASSUME RunInv, Running, Run, NEW m \in Int,
         instruction = Word("BNE", 0, {counter, 0}, m)
  PROVE  /\ pc' = pc + (IF x[counter] # 0 THEN m ELSE 1)
         /\ x' = x /\ UNCHANGED mem_vars /\ differs' = differs
<1>1. instruction.op = "BNE" /\ instruction.imm = m
  BY DEF Word
<1>2. LoopBranch
  BY <1>1, RunByOperation
<1> QED
  BY <1>1, <1>2, Zenon DEF LoopBranch, Go

LEMMA ForwardEffect ==
  ASSUME RunInv, Running, Run,
         instruction.op = "BRANCH" \/ (instruction.op = "JAL" /\ instruction.rd = 0)
  PROVE  /\ pc' = pc + instruction.imm \/ pc' = pc + 1
         /\ x' = x /\ UNCHANGED mem_vars /\ differs' \subseteq differs
<1>1. CASE instruction.op = "BRANCH"
  <2>1. Branch
    BY <1>1, RunByOperation
  <2> QED
    BY <2>1 DEF Branch, Go
<1>2. CASE instruction.op = "JAL" /\ instruction.rd = 0
  <2>1. Jump
    BY <1>2, RunByOperation
  <2> QED
    BY <1>2, <2>1 DEF Jump, Go, differs_after
<1> QED
  BY <1>1, <1>2

-----------------------------------------------------------------------------
(* The moves of a run: the preamble, the two words that set x31, the words *)
(* of a loop block, and the words between the blocks.                      *)

ClearMove ==
  pc < preamble_words /\ pc' = pc + 1 /\ UNCHANGED mem_vars /\ differs' = differs \ {pc + 1}

AuipcMove ==
  /\ pc = preamble_words /\ pc' = pc + 1 /\ KeepsAgreement
  /\ x'[base] = (4 * pc + IMM12 * hi20(n)) % WORD

BaseMove ==
  /\ pc = preamble_words + 1 /\ pc' = pc + 1 /\ KeepsAgreement
  /\ x'[base] = (x[base] + sext12(lo12(n))) % WORD

BlockMove(r) ==
  LET k == pc - preamble_words
  IN /\ r[1] <= k /\ k < r[2] /\ x'[base] = x[base] /\ KeepsAgreement
     /\ \/ /\ k = r[1] /\ pc' = pc + 1
           /\ x'[counter] = instrs[r[1]].imm /\ x'[counter] > 0
        \/ /\ r[1] < k /\ k < r[2] - 2 /\ pc' = pc + 1
           /\ x'[counter] = x[counter]
        \/ /\ k = r[2] - 2 /\ pc' = pc + 1
           /\ x'[counter] = (x[counter] - 1) % WORD
        \/ /\ k = r[2] - 1 /\ x'[counter] = x[counter]
           /\ pc' = IF x[counter] # 0 THEN preamble_words + r[1] + 1 ELSE pc + 1

SlotMove ==
  LET k == pc - preamble_words
  IN /\ setup_words <= k /\ k \in 0 .. n - 1 /\ ~in_any_range(k, loop_ranges)
     /\ x' = x /\ KeepsAgreement
     /\ \/ pc' = pc + 1
        \/ /\ pc' \in Int /\ pc' > pc /\ pc' <= epilogue_at
           /\ ~in_any_range(pc' - preamble_words, loop_ranges)

LEMMA AgreementKept ==
  ASSUME UNCHANGED mem_vars, differs' \subseteq differs \cup {base} PROVE KeepsAgreement
BY DEF KeepsAgreement, mem_vars

LEMMA BlockMoves ==
  ASSUME RunInv, Running, Run, NEW r \in loop_ranges,
         r[1] <= pc - preamble_words, pc - preamble_words < r[2],
         instruction = instrs[pc - preamble_words]
  PROVE  BlockMove(r)
<1>1. PICK k : k = pc - preamble_words
  OBVIOUS
<1>2. /\ r[1] \in Nat /\ r[2] \in Nat /\ r[1] + 4 <= r[2] /\ k \in Int /\ pc \in Nat
      /\ preamble_words \in Nat /\ pc = preamble_words + k
      /\ WORD \in Nat /\ WORD > 0 /\ x[counter] \in 0 .. WORD - 1
  BY <1>1, BlockBounds, RunTypeFacts
<1>3. CASE /\ k = r[1]
           /\ \E t \in LOOP_TRIP_COUNTS[1] .. LOOP_TRIP_COUNTS[2] :
                instruction = addi(counter, 0, t)
  <2>1. PICK t \in LOOP_TRIP_COUNTS[1] .. LOOP_TRIP_COUNTS[2] :
          instruction = addi(counter, 0, t)
    BY <1>3
  <2>2. t \in Int /\ t > 0 /\ 2 * t < IMM12
    BY TripFacts
  <2>3. /\ pc' = pc + 1 /\ UNCHANGED mem_vars /\ differs' \subseteq differs
        /\ x'[counter] = (value(0) + sext12(t)) % WORD /\ x'[base] = x[base]
    BY <2>1, <2>2, CounterEffect
  <2>4. value(0) = 0
    BY RunTypeFacts DEF value
  <2>5. sext12(t) = t
    BY <2>2, HalfImmediate, SignExtended
  <2>6. t \in 0 .. WORD - 1 /\ 0 + t = t
    BY <2>2, WidthAssumption
  <2>7. x'[counter] = t
    BY <1>2, <2>3, <2>4, <2>5, <2>6, ModSmall
  <2>8. instrs[r[1]].imm = t
    <3>1. instrs[r[1]] = addi(counter, 0, t)
      BY <1>1, <1>3, <2>1, Zenon
    <3>2. addi(counter, 0, t).imm = t
      BY DEF addi, Word
    <3> QED
      BY <3>1, <3>2
  <2> QED
    BY <1>1, <1>2, <1>3, <2>2, <2>3, <2>7, <2>8, AgreementKept DEF BlockMove
<1>4. CASE r[1] < k /\ k < r[2] - 2 /\ instruction \in gen_body_instr(Offsets)
  BY <1>1, <1>2, <1>4, BodyEffect DEF BlockMove
<1>5. CASE k = r[2] - 2 /\ instruction = addi(counter, counter, -1)
  <2>1. /\ pc' = pc + 1 /\ UNCHANGED mem_vars /\ differs' \subseteq differs
        /\ x'[counter] = (value(counter) + sext12(-1)) % WORD /\ x'[base] = x[base]
    BY <1>5, CounterEffect
  <2>2. value(counter) = x[counter]
    BY RunTypeFacts DEF value
  <2>3. sext12(-1) = -1
    BY HalfImmediate, SignExtended
  <2>4. x[counter] + (-1) = x[counter] - 1
    BY <1>2
  <2>5. x'[counter] = (x[counter] - 1) % WORD
    BY <2>1, <2>2, <2>3, <2>4
  <2> QED
    BY <1>1, <1>2, <1>5, <2>1, <2>5, AgreementKept DEF BlockMove
<1>6. CASE k = r[2] - 1 /\ instruction = Word("BNE", 0, {counter, 0}, -(r[2] - r[1] - 2))
  <2>1. -(r[2] - r[1] - 2) \in Int
    BY <1>2
  <2>2. /\ pc' = pc + (IF x[counter] # 0 THEN -(r[2] - r[1] - 2) ELSE 1)
        /\ x' = x /\ UNCHANGED mem_vars /\ differs' = differs
    BY <1>6, <2>1, LoopBranchEffect
  <2>3. pc' = IF x[counter] # 0 THEN preamble_words + r[1] + 1 ELSE pc + 1
    BY <1>2, <1>6, <2>2
  <2> QED
    BY <1>1, <1>2, <1>6, <2>2, <2>3, AgreementKept DEF BlockMove
<1> QED
  BY <1>1, <1>3, <1>4, <1>5, <1>6, BlockOrigin

LEMMA SlotMoves ==
  ASSUME RunInv, Running, Run, setup_words <= pc - preamble_words,
         pc - preamble_words \in 0 .. n - 1,
         ~in_any_range(pc - preamble_words, loop_ranges),
         instruction \in gen_one_instr(Offsets, pc - preamble_words, n, loop_ranges)
  PROVE  SlotMove
<1>1. PICK k : k = pc - preamble_words
  OBVIOUS
<1>2. /\ k \in 0 .. n - 1 /\ n \in Nat /\ pc \in Nat /\ preamble_words \in Nat
      /\ pc = preamble_words + k /\ epilogue_at = preamble_words + n
      /\ instruction.imm \in Int
  BY <1>1, RunTypeFacts, InstructionTypes DEF Instr
<1>3. CASE instruction \in gen_body_instr(Offsets)
  BY <1>3, BodyEffect DEF SlotMove
<1>4. CASE /\ instruction.op = "BRANCH" \/ (instruction.op = "JAL" /\ instruction.rd = 0)
           /\ 1 <= instruction.imm /\ k + instruction.imm <= n
           /\ ~in_any_range(k + instruction.imm, loop_ranges)
  <2>1. /\ pc' = pc + instruction.imm \/ pc' = pc + 1
        /\ x' = x /\ UNCHANGED mem_vars /\ differs' \subseteq differs
    BY <1>4, ForwardEffect
  <2>2. KeepsAgreement
    BY <2>1, AgreementKept
  <2>3. CASE pc' = pc + instruction.imm
    <3>1. pc' \in Int /\ pc' > pc /\ pc' <= epilogue_at
      BY <1>2, <1>4, <2>3
    <3>2. pc' - preamble_words = k + instruction.imm
      BY <1>2, <2>3
    <3>3. ~in_any_range(pc' - preamble_words, loop_ranges)
      BY <1>4, <3>2, Zenon
    <3> QED
      BY <2>1, <2>2, <3>1, <3>3 DEF SlotMove
  <2>4. CASE pc' = pc + 1
    BY <2>1, <2>2, <2>4 DEF SlotMove
  <2> QED
    BY <2>1, <2>3, <2>4
<1> QED
  BY <1>1, <1>2, <1>3, <1>4, SlotWords

LEMMA RunMoves ==
  ASSUME RunInv, Running, Run
  PROVE  \/ ClearMove
         \/ AuipcMove
         \/ BaseMove
         \/ \E r \in loop_ranges : BlockMove(r)
         \/ SlotMove
<1>1. CASE pc < preamble_words /\ instruction = addi(pc + 1, 0, 0)
  BY <1>1, PreambleEffect DEF ClearMove
<1>2. CASE pc = preamble_words /\ instruction = Word("AUIPC", base, {}, hi20(n))
  BY <1>2, AuipcEffect, AgreementKept DEF AuipcMove
<1>3. CASE pc = preamble_words + 1 /\ instruction = addi(base, base, lo12(n))
  BY <1>3, BaseEffect, AgreementKept DEF BaseMove
<1>4. CASE \E r \in loop_ranges :
             /\ r[1] <= pc - preamble_words /\ pc - preamble_words < r[2]
             /\ instruction = instrs[pc - preamble_words]
  BY <1>4, BlockMoves
<1>5. CASE /\ setup_words <= pc - preamble_words /\ pc - preamble_words \in 0 .. n - 1
           /\ ~in_any_range(pc - preamble_words, loop_ranges)
           /\ instruction
                 \in gen_one_instr(Offsets, pc - preamble_words, n, loop_ranges)
  BY <1>5, SlotMoves
<1> QED
  BY <1>1, <1>2, <1>3, <1>4, <1>5, WordOrigin

-----------------------------------------------------------------------------
(* The invariant, move by move *)

(* A block is a stretch of words of its own. *)
LEMMA OneBlock ==
  ASSUME RunInv, NEW r \in loop_ranges, NEW q \in loop_ranges, NEW k \in Int,
         r[1] <= k, k < r[2], q[1] <= k, k < q[2]
  PROVE  q = r
<1>1. r = q \/ r[2] <= q[1] \/ q[2] <= r[1]
  BY DEF RunInv, GenInv, BlocksDisjoint
<1>2. r[1] \in Nat /\ r[2] \in Nat
  BY BlockBounds
<1>3. q[1] \in Nat /\ q[2] \in Nat
  BY BlockBounds
<1> QED
  BY <1>1, <1>2, <1>3

LEMMA CounterStep ==
  ASSUME RunInv, Running, Run PROVE LoopEnteredAtInit'
<1>1. /\ UNCHANGED <<phase, n, instrs, loop_ranges>> /\ pc \in Nat /\ n \in Nat
      /\ preamble_words \in Nat /\ x[counter] \in 0 .. WORD - 1
      /\ WORD \in Nat /\ WORD > 0
  BY RunByOperation, RunTypeFacts DEF gen_vars
<1> SUFFICES ASSUME NEW q \in loop_ranges,
                    q[1] < pc' - preamble_words, pc' - preamble_words < q[2]
             PROVE  /\ x'[counter] <= instrs[q[1]].imm
                    /\ x'[counter] = 0 => pc' - preamble_words = q[2] - 1
  BY <1>1 DEF LoopEnteredAtInit
<1>2. /\ q[1] \in Nat /\ q[2] \in Nat /\ setup_words \in Nat /\ setup_words >= 1
      /\ setup_words <= q[1] /\ q[1] + 4 <= q[2] /\ (n > 1 => setup_words = 2)
      /\ q[2] <= n
  BY BlockBounds
<1>3. ~ClearMove /\ ~AuipcMove /\ ~BaseMove
  BY <1>1, <1>2 DEF ClearMove, AuipcMove, BaseMove
<1>4. ~SlotMove
  <2> SUFFICES ASSUME SlotMove PROVE FALSE
    OBVIOUS
  <2>1. CASE pc' = pc + 1
    <3>1. q[1] <= pc - preamble_words /\ pc - preamble_words < q[2]
      BY <1>1, <1>2, <2>1
    <3> QED
      BY <3>1 DEF SlotMove, in_any_range
  <2>2. CASE pc' \in Int /\ ~in_any_range(pc' - preamble_words, loop_ranges)
    <3>1. q[1] <= pc' - preamble_words
      BY <1>1, <1>2, <2>2
    <3> QED
      BY <2>2, <3>1 DEF in_any_range
  <2> QED
    BY <2>1, <2>2 DEF SlotMove
<1>5. PICK r \in loop_ranges : BlockMove(r)
  BY <1>3, <1>4, RunMoves
<1>6. PICK k : k = pc - preamble_words
  OBVIOUS
<1>7. /\ r[1] \in Nat /\ r[2] \in Nat /\ r[1] + 4 <= r[2] /\ k \in Int
      /\ pc = preamble_words + k /\ r[1] <= k /\ k < r[2]
  BY <1>1, <1>5, <1>6, BlockBounds DEF BlockMove
<1>8. pc' = pc + 1 \/ (k = r[2] - 1 /\ pc' = preamble_words + r[1] + 1)
  BY <1>5, <1>6 DEF BlockMove
<1>9. q = r
  <2>1. CASE pc' = pc + 1
    <3>1. q[1] <= k /\ k < q[2]
      BY <1>1, <1>2, <1>7, <2>1
    <3> QED
      BY <1>7, <3>1, OneBlock
  <2>2. CASE pc' = preamble_words + r[1] + 1
    <3>1. /\ r[1] + 1 \in Int /\ r[1] <= r[1] + 1 /\ r[1] + 1 < r[2]
          /\ q[1] <= r[1] + 1 /\ r[1] + 1 < q[2]
      BY <1>1, <1>2, <1>7, <2>2
    <3> QED
      BY <3>1, OneBlock
  <2> QED
    BY <1>8, <2>1, <2>2
<1>10. r[1] < k => /\ x[counter] <= instrs[r[1]].imm
                   /\ x[counter] = 0 => k = r[2] - 1
  BY <1>6, <1>7 DEF RunInv, LoopEnteredAtInit
<1>11. instrs[r[1]].imm \in Int
  <2>1. instrs[r[1]] \in Instr
    BY <1>1, <1>2, <1>9 DEF RunInv, GenInv, GenTypeOK, Running
  <2> QED
    BY <2>1 DEF Instr
<1>12. CASE k = r[1] /\ pc' = pc + 1 /\ x'[counter] = instrs[r[1]].imm /\ x'[counter] > 0
  BY <1>1, <1>7, <1>9, <1>11, <1>12
<1>13. CASE r[1] < k /\ k < r[2] - 2 /\ pc' = pc + 1 /\ x'[counter] = x[counter]
  BY <1>1, <1>7, <1>9, <1>10, <1>13
<1>14. CASE k = r[2] - 2 /\ pc' = pc + 1 /\ x'[counter] = (x[counter] - 1) % WORD
  <2>1. x[counter] # 0 /\ x[counter] <= instrs[r[1]].imm
    BY <1>7, <1>10, <1>14
  <2>2. x[counter] - 1 \in 0 .. WORD - 1
    BY <1>1, <2>1
  <2>3. x'[counter] = x[counter] - 1
    BY <1>1, <1>14, <2>2, ModSmall
  <2> QED
    BY <1>1, <1>7, <1>9, <1>11, <1>14, <2>1, <2>3
<1>15. CASE /\ k = r[2] - 1 /\ x'[counter] = x[counter]
            /\ pc' = IF x[counter] # 0 THEN preamble_words + r[1] + 1 ELSE pc + 1
  <2>1. x[counter] # 0
    BY <1>1, <1>7, <1>9, <1>15
  <2> QED
    BY <1>7, <1>9, <1>10, <1>15, <2>1
<1> QED
  BY <1>5, <1>6, <1>12, <1>13, <1>14, <1>15 DEF BlockMove

LEMMA PositionStep ==
  ASSUME RunInv, Running, Run
  PROVE  /\ pc' \in 0 .. epilogue_at'
         /\ pc >= preamble_words + 2 => pc' >= preamble_words + 2
         /\ pc >= preamble_words => pc' >= preamble_words
<1>1. /\ pc \in Nat /\ n \in Nat /\ preamble_words \in Nat /\ pc < epilogue_at
      /\ epilogue_at' = epilogue_at /\ epilogue_at = preamble_words + n
  BY RunByOperation, RunTypeFacts DEF gen_vars, epilogue_at, Running
<1>2. CASE ClearMove \/ AuipcMove \/ BaseMove
  BY <1>1, <1>2 DEF ClearMove, AuipcMove, BaseMove
<1>3. CASE \E r \in loop_ranges : BlockMove(r)
  <2>1. PICK r \in loop_ranges : BlockMove(r)
    BY <1>3
  <2>2. /\ r[1] \in Nat /\ r[2] \in Nat /\ setup_words >= 1 /\ setup_words \in Nat
        /\ setup_words <= r[1] /\ r[1] + 4 <= r[2] /\ r[2] <= n
    BY BlockBounds
  <2>3. pc' = pc + 1 \/ pc' = preamble_words + r[1] + 1
    BY <2>1 DEF BlockMove
  <2> QED
    BY <1>1, <2>2, <2>3
<1>4. CASE SlotMove
  BY <1>1, <1>4 DEF SlotMove
<1> QED
  BY <1>2, <1>3, <1>4, RunMoves

LEMMA BaseStep ==
  ASSUME RunInv, Running, Run PROVE BaseSet'
<1>1. /\ pc \in Nat /\ n \in Nat /\ preamble_words \in Nat /\ pc < epilogue_at
      /\ epilogue_at = preamble_words + n /\ UNCHANGED <<phase, n>> /\ phase = "run"
  BY RunByOperation, RunTypeFacts DEF gen_vars, Running
<1>2. CASE ClearMove
  BY <1>1, <1>2 DEF ClearMove, BaseSet
<1>3. CASE AuipcMove
  BY <1>1, <1>3 DEF AuipcMove, BaseSet
<1>4. CASE BaseMove
  <2>1. x[base] = (4 * preamble_words + IMM12 * hi20(n)) % WORD
    BY <1>1, <1>4 DEF RunInv, BaseSet, BaseMove
  <2>2. ~(program_end_bytes(n) > max_valid_end)
    BY <1>1 DEF RunInv, GenInv, SetupPlaced, Generated, TooLong
  <2>3. x'[base] = program_end_bytes(n) + LOAD_STORE_WINDOW
    BY <1>1, <1>4, <2>1, <2>2, BaseValue DEF BaseMove
  <2> QED
    BY <1>1, <1>4, <2>3 DEF BaseMove, BaseSet
<1>5. CASE pc >= preamble_words + 2 /\ x'[base] = x[base]
  <2>1. pc' >= preamble_words + 2 /\ pc' \in Int
    BY <1>5, PositionStep
  <2>2. x[base] = program_end_bytes(n) + LOAD_STORE_WINDOW
    BY <1>1, <1>5 DEF RunInv, BaseSet
  <2> QED
    BY <1>1, <1>5, <2>1, <2>2 DEF BaseSet
<1>6. CASE \E r \in loop_ranges : BlockMove(r)
  <2>1. PICK r \in loop_ranges : BlockMove(r)
    BY <1>6
  <2>2. /\ r[1] \in Nat /\ r[2] \in Nat /\ setup_words \in Nat /\ setup_words >= 1
        /\ setup_words <= r[1] /\ r[1] + 4 <= r[2] /\ r[2] <= n
        /\ (n > 1 => setup_words = 2)
    BY BlockBounds
  <2>3. r[1] <= pc - preamble_words /\ x'[base] = x[base]
    BY <2>1 DEF BlockMove
  <2> QED
    BY <1>1, <1>5, <2>2, <2>3
<1>7. CASE SlotMove
  BY <1>1, <1>5, <1>7 DEF SlotMove, setup_words
<1> QED
  BY <1>2, <1>3, <1>4, <1>6, <1>7, RunMoves

LEMMA ClearedStep ==
  ASSUME RunInv, Running, Run PROVE ClearedSoFar'
<1>1. pc \in Nat /\ preamble_words \in Nat /\ phase = "run"
  BY RunTypeFacts DEF Running
<1>2. CASE pc < preamble_words
  <2>1. ~(\E r \in loop_ranges : BlockMove(r))
    <3> SUFFICES ASSUME NEW r \in loop_ranges, BlockMove(r) PROVE FALSE
      OBVIOUS
    <3>1. r[1] \in Nat /\ r[1] <= pc - preamble_words
      BY BlockBounds DEF BlockMove
    <3> QED
      BY <1>1, <1>2, <3>1
  <2>2. ~AuipcMove /\ ~BaseMove /\ ~SlotMove
    BY <1>1, <1>2 DEF AuipcMove, BaseMove, SlotMove
  <2>3. ClearMove
    BY <2>1, <2>2, RunMoves
  <2>4. differs \cap (0 .. pc) = {}
    BY <1>1, <1>2 DEF RunInv, ClearedSoFar
  <2>5. 0 .. pc + 1 = (0 .. pc) \cup {pc + 1}
    BY <1>1
  <2> QED
    BY <2>3, <2>4, <2>5 DEF ClearMove, ClearedSoFar
<1>3. CASE pc >= preamble_words
  <2>1. pc' >= preamble_words /\ pc' \in Int
    BY <1>3, PositionStep
  <2>2. pc' # preamble_words
    <3>1. CASE AuipcMove \/ BaseMove \/ ClearMove \/ SlotMove
      BY <1>1, <1>3, <3>1 DEF AuipcMove, BaseMove, ClearMove, SlotMove
    <3>2. CASE \E r \in loop_ranges : BlockMove(r)
      <4>1. PICK r \in loop_ranges : BlockMove(r)
        BY <3>2
      <4>2. r[1] \in Nat
        BY BlockBounds
      <4>3. pc' = pc + 1 \/ pc' = preamble_words + r[1] + 1
        BY <4>1 DEF BlockMove
      <4> QED
        BY <1>1, <1>3, <4>2, <4>3
    <3> QED
      BY <3>1, <3>2, RunMoves
  <2> QED
    BY <1>1, <2>1, <2>2 DEF ClearedSoFar
<1> QED
  BY <1>1, <1>2, <1>3

LEMMA AgreeStep ==
  ASSUME RunInv, Running, Run, Agree PROVE Agree'
<1>1. pc \in Nat /\ preamble_words \in Nat /\ phase = "run"
  BY RunTypeFacts DEF Running
<1>2. CASE ClearMove
  <2>1. pc' <= preamble_words
    BY <1>1, <1>2 DEF ClearMove
  <2>2. CASE pc' = preamble_words
    <3>1. differs' \cap (0 .. pc') = {}
      <4>1. phase' = "run"
        BY <1>1, RunByOperation DEF gen_vars
      <4> QED
        BY <2>1, <4>1, ClearedStep DEF ClearedSoFar
    <3>2. differs' \subseteq 0 .. preamble_words
      BY StepTypes, RegisterFacts DEF Regs
    <3> QED
      BY <1>2, <2>2, <3>1, <3>2 DEF Agree, ClearMove, mem_vars
  <2>3. CASE pc' < preamble_words
    BY <1>1, <1>2, <2>3 DEF Agree, ClearMove, mem_vars
  <2> QED
    BY <1>1, <1>2, <2>1, <2>2, <2>3 DEF ClearMove
<1>3. CASE pc >= preamble_words /\ KeepsAgreement
  BY <1>3 DEF Agree, KeepsAgreement
<1>4. CASE AuipcMove \/ BaseMove \/ SlotMove
  BY <1>1, <1>3, <1>4 DEF AuipcMove, BaseMove, SlotMove
<1>5. CASE \E r \in loop_ranges : BlockMove(r)
  <2>1. PICK r \in loop_ranges : BlockMove(r)
    BY <1>5
  <2>2. r[1] \in Nat /\ r[1] <= pc - preamble_words /\ KeepsAgreement
    BY <2>1, BlockBounds DEF BlockMove
  <2> QED
    BY <1>1, <1>3, <2>2
<1> QED
  BY <1>2, <1>4, <1>5, RunMoves

(* Before its first step a run satisfies the invariant. *)
LEMMA RunStarts == GenInv /\ RunInit => RunInv
<1> SUFFICES ASSUME GenInv, RunInit PROVE RunInv
  OBVIOUS
<1>1. /\ n \in Nat /\ preamble_words \in Nat /\ preamble_words >= 2 /\ pc = 0
      /\ WORD \in Nat /\ WORD > 0
  BY LengthType, RegisterFacts, SizesAssumption, WidthAssumption DEF GenInv, RunInit
<1>2. RunTypes
  <2>1. pc \in 0 .. epilogue_at
    BY <1>1 DEF epilogue_at
  <2>2. x \in [Tracked -> 0 .. WORD - 1]
    BY <1>1 DEF RunInit
  <2>3. /\ differs \subseteq Regs \ {0} /\ same \subseteq Offsets
        /\ stored \subseteq Offsets /\ early_load \in BOOLEAN
    BY DEF RunInit
  <2> QED
    BY <2>1, <2>2, <2>3 DEF RunTypes, RunInit
<1>3. LoopEnteredAtInit
  <2> SUFFICES ASSUME NEW r \in loop_ranges PROVE ~(r[1] < pc - preamble_words)
    BY DEF LoopEnteredAtInit
  <2>1. r \in (0 .. n) \X (0 .. n)
    BY DEF GenInv, GenTypeOK
  <2> QED
    BY <1>1, <2>1
<1>4. BaseSet
  BY <1>1 DEF BaseSet
<1>5. ClearedSoFar
  BY <1>1 DEF ClearedSoFar, RunInit
<1>6. Agree
  BY <1>1 DEF Agree, RunInit
<1> QED
  BY <1>2, <1>3, <1>4, <1>5, <1>6 DEF RunInv, NotStarted

LEMMA RunInvStep ==
  ASSUME RunInv, StoreInv, [Next]_vars PROVE RunInv'
<1>1. GenInv'
  BY GenStep DEF RunInv
<1>2. CASE Generate
  <2>1. phase # "run"
    BY <1>2 DEF Generate, GenNext, Fail, Setup, PlaceLoop, DeferSlot, EndPass1, FillSlot,
                EndPass2
  <2>2. RunInit'
    BY <1>2, <2>1 DEF Generate, run_vars, mem_vars, RunInv, NotStarted, RunInit
  <2>3. (GenInv /\ RunInit)' => RunInv'
    BY RunStarts, PTL
  <2> QED
    BY <1>1, <2>2, <2>3
<1>3. CASE Run /\ Running
  <2>1. phase' = "run"
    BY <1>3, RunByOperation DEF Running, gen_vars
  <2>2. RunTypes'
    BY <1>3, StepTypes, PositionStep DEF RunTypes
  <2>3. LoopEnteredAtInit' /\ BaseSet' /\ ClearedSoFar'
    BY <1>3, CounterStep, BaseStep, ClearedStep
  <2>4. Agree'
    BY <1>3, AgreeStep DEF RunInv
  <2> QED
    BY <1>1, <2>1, <2>2, <2>3, <2>4 DEF RunInv, NotStarted
<1>4. CASE UNCHANGED vars
  <2>1. UNCHANGED <<phase, n, instrs, loop_ranges, pc, x, differs, same, stored,
                  early_load, retired, jumped>>
    BY <1>4 DEF vars, gen_vars, run_vars, mem_vars
  <2>2. NotStarted' /\ RunTypes'
    BY <2>1 DEF RunInv, NotStarted, RunInit, RunTypes, epilogue_at
  <2>3. LoopEnteredAtInit'
    BY <2>1 DEF RunInv, LoopEnteredAtInit, Running, epilogue_at
  <2>4. BaseSet' /\ ClearedSoFar' /\ Agree'
    BY <2>1 DEF RunInv, BaseSet, ClearedSoFar, Agree
  <2> QED
    BY <1>1, <2>2, <2>3, <2>4 DEF RunInv
<1>5. CASE Run /\ ~Running
  <2>1. UNCHANGED vars
    BY <1>5 DEF Run, Addi, Auipc, Arithmetic, Load, Store, Branch, Jump, LoopBranch,
                SelfBranch, NoProgram, vars
  <2> QED
    BY <1>4, <2>1
<1> QED
  BY <1>2, <1>3, <1>4, <1>5 DEF Next

LEMMA RunInvariant == Spec => []RunInv
<1>1. Init => RunInv
  BY GenInitially, RunStarts DEF Init
<1>2. RunInv /\ StoreInv /\ [Next]_vars => RunInv'
  BY RunInvStep
<1> QED
  BY <1>1, <1>2, GenInvariant, PTL DEF Spec

(* random_program fills exactly the n words it is asked for, and a run of  *)
(* them never leaves the program: every branch, jump and loop lands on a   *)
(* word or on the epilogue.                                                *)
THEOREM GeneratedRunsTyped == Spec => []TypeOK
<1>1. RunInv => TypeOK
  BY DEF RunInv, RunTypes, GenInv, TypeOK
<1> QED
  BY <1>1, RunInvariant, PTL

(* No random branch or jump enters a loop block behind its first word, so  *)
(* that inside a block the counter is the one its addi set: it counts down *)
(* from the trip count and is 0 only at the branch that leaves the loop.   *)
(* It is the invariant that makes every generated loop terminate.          *)
THEOREM LoopsEnteredAtInit == Spec => []LoopEnteredAtInit
<1>1. RunInv => LoopEnteredAtInit
  BY DEF RunInv
<1> QED
  BY <1>1, RunInvariant, PTL

(* However long the program and however it branches, a load or store       *)
(* addresses the data region behind the program and inside the core's      *)
(* memory: auipc and addi add up to the offset, with the borrow of a       *)
(* negative low part and at every width, and no later word writes x31.     *)
THEOREM AccessesStayInDataRegion == Spec => []AccessesInDataRegion
<1>1. RunInv => AccessesInDataRegion
  <2> SUFFICES ASSUME RunInv, Running, instruction.op \in {"LW", "SW"}
               PROVE  /\ program_end_bytes(n) <= x[base] + instruction.imm
                      /\ x[base] + instruction.imm + 4 <= DATA_MEM_BYTES
    BY DEF AccessesInDataRegion
  <2>1. /\ n \in Nat /\ pc \in Nat /\ preamble_words \in Nat /\ phase = "run"
    BY RunTypeFacts DEF Running
  <2>2. /\ addi(pc + 1, 0, 0).op = "ADDI" /\ addi(base, base, lo12(n)).op = "ADDI"
        /\ Word("AUIPC", base, {}, hi20(n)).op = "AUIPC"
    BY DEF addi, Word
  <2>3. pc >= preamble_words + 2 /\ instruction.imm \in Offsets
    <3>1. CASE \E r \in loop_ranges :
                 /\ r[1] <= pc - preamble_words /\ pc - preamble_words < r[2]
                 /\ instruction = instrs[pc - preamble_words]
      <4>1. PICK r \in loop_ranges :
              /\ r[1] <= pc - preamble_words /\ pc - preamble_words < r[2]
              /\ instruction = instrs[pc - preamble_words]
        BY <3>1
      <4>2. /\ r[1] \in Nat /\ r[2] \in Nat /\ setup_words \in Nat /\ setup_words >= 1
            /\ setup_words <= r[1] /\ r[1] + 4 <= r[2] /\ r[2] <= n
            /\ (n > 1 => setup_words = 2)
        BY BlockBounds
      <4>3. instruction \in gen_body_instr(Offsets)
        <5>1. \A t : addi(counter, 0, t).op = "ADDI"
          BY DEF addi, Word
        <5>2. /\ addi(counter, counter, -1).op = "ADDI"
              /\ \A d : Word("BNE", 0, {counter, 0}, d).op = "BNE"
          BY DEF addi, Word
        <5> QED
          BY <4>1, <5>1, <5>2, BlockOrigin
      <4> QED
        BY <2>1, <4>1, <4>2, <4>3, BodyWords
    <3>2. CASE /\ setup_words <= pc - preamble_words
               /\ pc - preamble_words \in 0 .. n - 1
               /\ instruction
                     \in gen_one_instr(Offsets, pc - preamble_words, n, loop_ranges)
      <4>1. instruction \in gen_body_instr(Offsets)
        BY <2>1, <3>2, SlotWords
      <4> QED
        BY <2>1, <3>2, <4>1, BodyWords DEF setup_words
    <3> QED
      BY <2>2, <3>1, <3>2, WordOrigin
  <2>4. x[base] = program_end_bytes(n) + LOAD_STORE_WINDOW
    BY <2>1, <2>3 DEF RunInv, BaseSet
  <2>5. program_end_bytes(n) <= max_valid_end
    <3>1. ~(program_end_bytes(n) > max_valid_end)
      BY <2>1 DEF RunInv, GenInv, SetupPlaced, Generated, TooLong
    <3> QED
      BY <2>1, <3>1, SizesAssumption DEF program_end_bytes, max_valid_end
  <2>6. /\ instruction.imm \in Int /\ -LOAD_STORE_WINDOW <= instruction.imm
        /\ instruction.imm <= LOAD_STORE_WINDOW
    BY <2>3, OffsetFacts
  <2> QED
    BY <2>1, <2>4, <2>5, <2>6, SizesAssumption DEF program_end_bytes, max_valid_end
<1> QED
  BY <1>1, RunInvariant, PTL

(* From the end of the preamble on a run leaves every register but x31     *)
(* equal in both simulators, whatever the program and whatever their data  *)
(* memories held before, as long as it loads only words it has stored to:  *)
(* the load address, the boot stub and link addresses never show.          *)
THEOREM TracesDifferOnlyInBase == Spec => []OnlyBaseDiffers
<1>1. RunInv => OnlyBaseDiffers
  BY DEF RunInv, Agree, OnlyBaseDiffers
<1> QED
  BY <1>1, RunInvariant, PTL

-----------------------------------------------------------------------------
(* The retirement estimate *)

(* P counts, for each word, the retirements in front of it of a run that   *)
(* takes no random branch or jump: one for a word between the blocks, the  *)
(* block's estimate for a loop.  The estimate leaves the setup words out.  *)
Estimate(P) ==
  /\ P \in [0 .. i -> Nat] /\ P[0] = 0
  /\ \A j, k \in 0 .. i : j <= k => P[j] <= P[k]
  /\ \A k \in 0 .. i - 1 : ~in_any_range(k, loop_ranges) => P[k + 1] = P[k] + 1
  /\ \A r \in loop_ranges :
       P[r[2]] = P[r[1]] + retire_count(instrs[r[1]].imm, r[2] - r[1] - 3)
  /\ P[i] = expected_retire + setup_words

(* The run has retired v words of the program, or fewer if it has jumped.  *)
Counted(v) ==
  retired <= preamble_words + v /\ (~jumped => retired = preamble_words + v)

InBlock(r, k) == r[1] < k /\ k < r[2]

(* The iterations of a loop that are still to finish. *)
left_in(r, k) == IF k = r[2] - 1 THEN x[counter] + 1 ELSE x[counter]

(* What has been retired up to word k of block r: the addi, the finished   *)
(* iterations and the part of the current one.                             *)
in_block(P, r, k) ==
  P[r[1]] + 1 + (instrs[r[1]].imm - left_in(r, k)) * (r[2] - r[1] - 1) + (k - r[1] - 1)

Reached(P) ==
  \/ pc < preamble_words /\ Counted(pc - preamble_words)
  \/ /\ pc >= preamble_words /\ Counted(P[pc - preamble_words])
     /\ \A r \in loop_ranges : ~InBlock(r, pc - preamble_words)
  \/ /\ pc >= preamble_words
     /\ \E r \in loop_ranges :
          /\ InBlock(r, pc - preamble_words)
          /\ Counted(in_block(P, r, pc - preamble_words))

EstimateInv ==
  /\ phase = "start" => expected_retire = 0
  /\ phase \in {"pass2", "run"} => i = n
  /\ Generated => \E P : Estimate(P) /\ (phase = "run" => Reached(P))

LEMMA TripType ==
  ASSUME GenInv, NEW r \in loop_ranges
  PROVE  /\ r[1] \in Nat /\ r[2] \in Nat /\ r[1] + 4 <= r[2] /\ r[2] <= n
         /\ instrs[r[1]].imm \in Nat /\ instrs[r[1]].imm > 0
         /\ setup_words <= r[1] /\ (phase = "pass1" => r[2] <= i)
<1>1. r \in (0 .. n) \X (0 .. n)
  BY DEF GenInv, GenTypeOK
<1>2. BlockPlaced(r) /\ (phase = "pass1" => r[2] <= i)
  BY DEF GenInv, BlocksPlaced
<1>3. /\ setup_words <= r[1] /\ r[1] + 4 <= r[2] /\ r[2] <= n
      /\ \E t \in LOOP_TRIP_COUNTS[1] .. LOOP_TRIP_COUNTS[2] :
           instrs[r[1]] = addi(counter, 0, t)
  BY <1>2, Zenon DEF BlockPlaced
<1>4. PICK t \in LOOP_TRIP_COUNTS[1] .. LOOP_TRIP_COUNTS[2] :
        instrs[r[1]] = addi(counter, 0, t)
  BY <1>3
<1>5. t \in Nat /\ t > 0
  BY TripFacts
<1>6. addi(counter, 0, t).imm = t
  BY DEF addi, Word
<1>7. instrs[r[1]].imm = t
  BY <1>4, <1>6, Zenon
<1>8. r[1] \in Nat /\ r[2] \in Nat
  BY <1>1
<1> QED
  BY <1>2, <1>3, <1>5, <1>7, <1>8

(* The estimate depends on the blocks' first words only. *)
LEMMA EstimateKept ==
  ASSUME NEW P, Estimate(P), UNCHANGED <<n, i, loop_ranges, expected_retire>>,
         \A r \in loop_ranges : instrs'[r[1]] = instrs[r[1]]
  PROVE  Estimate(P)'
<1>1. setup_words' = setup_words
  BY DEF setup_words
<1>2. \A r \in loop_ranges : instrs'[r[1]].imm = instrs[r[1]].imm
  BY Zenon
<1> QED
  BY <1>1, <1>2, Zenon DEF Estimate

LEMMA EstimateSetup ==
  ASSUME GenInv, EstimateInv, Setup PROVE EstimateInv'
<1>1. /\ phase = "start" /\ phase' = "pass1" /\ n \in Nat /\ n > 0 /\ n' = n
      /\ i' = setup_words /\ loop_ranges' = {} /\ expected_retire' = 0
  BY LengthType DEF GenInv, EstimateInv, Setup, setup_words
<1>2. setup_words \in Nat /\ setup_words' = setup_words
  BY <1>1 DEF setup_words
<1> DEFINE P == [k \in 0 .. setup_words |-> k]
<1>3. Estimate(P)'
  BY <1>1, <1>2 DEF Estimate
<1> HIDE DEF P
<1> QED
  BY <1>1, <1>3 DEF EstimateInv

(* Placing a block extends the count by the block's estimate, *)
LEMMA EstimateLoop ==
  ASSUME GenInv, EstimateInv, PlaceLoop PROVE EstimateInv'
<1>1. /\ phase = "pass1" /\ phase' = "pass1" /\ i < n /\ n' = n /\ Generated
      /\ setup_words' = setup_words
  BY LoopPlaced DEF Generated, setup_words
<1>2. PICK len, trip, body : BlockAdded(len, trip, body)
  BY LoopPlaced
<1>3. BlockShape(len, trip, body)
  BY <1>2, BlockWords
<1>4. /\ n \in Nat /\ i \in Nat /\ len \in Nat /\ i' = i + len + 3 /\ i + len + 3 <= n
      /\ loop_ranges' = loop_ranges \cup {<<i, i + len + 3>>}
      /\ expected_retire' = expected_retire + retire_count(trip, len)
      /\ instrs'[i] = addi(counter, 0, trip)
      /\ \A k \in 0 .. n - 1 : k < i \/ k >= i + len + 3 => instrs'[k] = instrs[k]
  BY <1>2, <1>3, Zenon DEF BlockAdded, BlockShape
<1>5. trip \in Nat /\ retire_count(trip, len) \in Nat
  <2>1. trip \in LOOP_TRIP_COUNTS[1] .. LOOP_TRIP_COUNTS[2]
    BY <1>2 DEF BlockAdded
  <2>2. trip \in Nat
    BY <2>1, TripFacts
  <2> QED
    BY <1>4, <2>2 DEF retire_count
<1>6. PICK P : Estimate(P)
  BY <1>1 DEF EstimateInv
<1>7. /\ P \in [0 .. i -> Nat] /\ P[0] = 0
      /\ \A j, k \in 0 .. i : j <= k => P[j] <= P[k]
      /\ \A k \in 0 .. i - 1 : ~in_any_range(k, loop_ranges) => P[k + 1] = P[k] + 1
      /\ \A r \in loop_ranges :
           P[r[2]] = P[r[1]] + retire_count(instrs[r[1]].imm, r[2] - r[1] - 3)
      /\ P[i] = expected_retire + setup_words
  BY <1>6, Zenon DEF Estimate
<1>8. PICK c : c = retire_count(trip, len)
  OBVIOUS
<1>9. PICK Q : Q = [k \in 0 .. i' |-> IF k <= i THEN P[k] ELSE P[i] + c]
  OBVIOUS
<1>10. c \in Nat /\ P[i] \in Nat /\ \A k \in 0 .. i : P[k] \in Nat /\ P[k] <= P[i]
  BY <1>4, <1>5, <1>7, <1>8
<1>11. Q \in [0 .. i' -> Nat] /\ Q[0] = 0 /\ (\A k \in 0 .. i : Q[k] = P[k]) /\ Q[i'] = P[i] + c
  BY <1>4, <1>7, <1>9, <1>10
<1>12. \A j, k \in 0 .. i' : j <= k => Q[j] <= Q[k]
  <2> SUFFICES ASSUME NEW j \in 0 .. i', NEW k \in 0 .. i', j <= k PROVE Q[j] <= Q[k]
    OBVIOUS
  <2>1. CASE k <= i
    <3>1. j \in 0 .. i /\ k \in 0 .. i
      BY <1>4, <2>1
    <3> QED
      BY <1>7, <1>11, <3>1
  <2>2. CASE ~(k <= i) /\ j <= i
    <3>1. j \in 0 .. i /\ Q[k] = P[i] + c
      BY <1>4, <1>9, <2>2
    <3> QED
      BY <1>10, <1>11, <3>1
  <2>3. CASE ~(k <= i) /\ ~(j <= i)
    BY <1>9, <1>10, <2>3
  <2> QED
    BY <2>1, <2>2, <2>3
<1>13. \A k \in 0 .. i' - 1 : ~in_any_range(k, loop_ranges') => Q[k + 1] = Q[k] + 1
  <2> SUFFICES ASSUME NEW k \in 0 .. i' - 1, ~in_any_range(k, loop_ranges')
               PROVE  Q[k + 1] = Q[k] + 1
    OBVIOUS
  <2>1. ~in_any_range(k, loop_ranges) /\ ~(i <= k /\ k < i + len + 3)
    BY <1>4, RangeAdded
  <2>2. k \in 0 .. i - 1 /\ k \in 0 .. i /\ k + 1 \in 0 .. i
    BY <1>4, <2>1
  <2> QED
    BY <1>7, <1>11, <2>1, <2>2
<1>14. \A r \in loop_ranges' :
         Q[r[2]] = Q[r[1]] + retire_count(instrs'[r[1]].imm, r[2] - r[1] - 3)
  <2> SUFFICES ASSUME NEW r \in loop_ranges'
               PROVE  Q[r[2]] = Q[r[1]] + retire_count(instrs'[r[1]].imm, r[2] - r[1] - 3)
    OBVIOUS
  <2>1. CASE r \in loop_ranges
    <3>1. r[1] \in Nat /\ r[2] \in Nat /\ r[1] + 4 <= r[2] /\ r[2] <= i
      BY <1>1, <2>1, TripType
    <3>2. r[1] \in 0 .. i /\ r[2] \in 0 .. i /\ r[1] \in 0 .. n - 1 /\ r[1] < i
      BY <1>1, <1>4, <3>1
    <3>3. instrs'[r[1]] = instrs[r[1]] /\ Q[r[1]] = P[r[1]] /\ Q[r[2]] = P[r[2]]
      BY <1>4, <1>11, <3>2, Zenon
    <3> QED
      BY <1>7, <2>1, <3>3, Zenon
  <2>2. CASE r = <<i, i + len + 3>>
    <3>1. r[1] = i /\ r[2] = i' /\ i \in 0 .. i
      BY <1>4, <2>2
    <3>2. r[2] - r[1] - 3 = len
      BY <1>4, <3>1
    <3>3. instrs'[r[1]].imm = trip
      <4>1. addi(counter, 0, trip).imm = trip
        BY DEF addi, Word
      <4> QED
        BY <1>4, <3>1, <4>1, Zenon
    <3>4. Q[r[2]] = P[i] + c /\ Q[r[1]] = P[i]
      BY <1>11, <3>1, Zenon
    <3> QED
      BY <1>8, <3>2, <3>3, <3>4, Zenon
  <2> QED
    BY <1>4, <2>1, <2>2
<1>15. Q[i'] = expected_retire' + setup_words'
  <2>1. expected_retire \in Nat /\ setup_words \in Nat
    BY DEF GenInv, GenTypeOK, setup_words
  <2> QED
    BY <1>1, <1>4, <1>5, <1>7, <1>8, <1>11, <2>1
<1>16. Estimate(Q)'
  BY <1>11, <1>12, <1>13, <1>14, <1>15, Zenon DEF Estimate
<1> QED
  BY <1>1, <1>16 DEF EstimateInv

(* ... and a word between the blocks by one. *)
LEMMA EstimateSlot ==
  ASSUME GenInv, EstimateInv, DeferSlot PROVE EstimateInv'
<1>1. /\ phase = "pass1" /\ phase' = "pass1" /\ i < n /\ n' = n /\ Generated
      /\ setup_words' = setup_words /\ n \in Nat /\ i \in Nat /\ i' = i + 1
      /\ UNCHANGED <<instrs, loop_ranges>> /\ expected_retire' = expected_retire + 1
      /\ expected_retire \in Nat /\ setup_words \in Nat
  BY LengthType DEF GenInv, GenTypeOK, DeferSlot, Generated, setup_words
<1>2. PICK P : Estimate(P)
  BY <1>1 DEF EstimateInv
<1>3. /\ P \in [0 .. i -> Nat] /\ P[0] = 0
      /\ \A j, k \in 0 .. i : j <= k => P[j] <= P[k]
      /\ \A k \in 0 .. i - 1 : ~in_any_range(k, loop_ranges) => P[k + 1] = P[k] + 1
      /\ \A r \in loop_ranges :
           P[r[2]] = P[r[1]] + retire_count(instrs[r[1]].imm, r[2] - r[1] - 3)
      /\ P[i] = expected_retire + setup_words
  BY <1>2, Zenon DEF Estimate
<1>4. PICK Q : Q = [k \in 0 .. i' |-> IF k <= i THEN P[k] ELSE P[i] + 1]
  OBVIOUS
<1>5. P[i] \in Nat /\ \A k \in 0 .. i : P[k] \in Nat /\ P[k] <= P[i]
  BY <1>1, <1>3
<1>6. Q \in [0 .. i' -> Nat] /\ Q[0] = 0 /\ (\A k \in 0 .. i : Q[k] = P[k]) /\ Q[i'] = P[i] + 1
  BY <1>1, <1>3, <1>4, <1>5
<1>7. \A j, k \in 0 .. i' : j <= k => Q[j] <= Q[k]
  <2> SUFFICES ASSUME NEW j \in 0 .. i', NEW k \in 0 .. i', j <= k PROVE Q[j] <= Q[k]
    OBVIOUS
  <2>1. CASE k <= i
    <3>1. j \in 0 .. i /\ k \in 0 .. i
      BY <1>1, <2>1
    <3> QED
      BY <1>3, <1>6, <3>1
  <2>2. CASE k = i' /\ j <= i
    <3>1. j \in 0 .. i
      BY <1>1, <2>2
    <3> QED
      BY <1>5, <1>6, <2>2, <3>1
  <2>3. CASE k = i' /\ j = i'
    BY <1>5, <1>6, <2>3
  <2> QED
    BY <1>1, <2>1, <2>2, <2>3
<1>8. \A k \in 0 .. i' - 1 : ~in_any_range(k, loop_ranges') => Q[k + 1] = Q[k] + 1
  <2> SUFFICES ASSUME NEW k \in 0 .. i' - 1, ~in_any_range(k, loop_ranges)
               PROVE  Q[k + 1] = Q[k] + 1
    BY <1>1
  <2>1. CASE k = i
    BY <1>1, <1>5, <1>6, <2>1
  <2>2. CASE k # i
    <3>1. k \in 0 .. i - 1 /\ k \in 0 .. i /\ k + 1 \in 0 .. i
      BY <1>1, <2>2
    <3> QED
      BY <1>3, <1>6, <3>1
  <2> QED
    BY <2>1, <2>2
<1>9. \A r \in loop_ranges' :
        Q[r[2]] = Q[r[1]] + retire_count(instrs'[r[1]].imm, r[2] - r[1] - 3)
  <2> SUFFICES ASSUME NEW r \in loop_ranges
               PROVE  Q[r[2]] = Q[r[1]] + retire_count(instrs[r[1]].imm, r[2] - r[1] - 3)
    BY <1>1
  <2>1. r[1] \in Nat /\ r[2] \in Nat /\ r[1] + 4 <= r[2] /\ r[2] <= i
    BY <1>1, TripType
  <2>2. r[1] \in 0 .. i /\ r[2] \in 0 .. i
    BY <1>1, <2>1
  <2>3. Q[r[1]] = P[r[1]] /\ Q[r[2]] = P[r[2]]
    BY <1>6, <2>2, Zenon
  <2> QED
    BY <1>3, <2>3, Zenon
<1>10. Q[i'] = expected_retire' + setup_words'
  BY <1>1, <1>3, <1>6
<1>11. Estimate(Q)'
  BY <1>6, <1>7, <1>8, <1>9, <1>10, Zenon DEF Estimate
<1> QED
  BY <1>1, <1>11 DEF EstimateInv

(* Pass 2 changes no first word of a block, and the run starts at word 0. *)
LEMMA EstimateFill ==
  ASSUME GenInv, EstimateInv, FillSlot PROVE EstimateInv'
<1>1. PICK slot : slot = Head(single_slots)
  OBVIOUS
<1>2. /\ phase = "pass2" /\ phase' = "pass2" /\ Generated /\ n \in Nat
      /\ single_slots # <<>> /\ single_slots' = Tail(single_slots)
      /\ UNCHANGED <<n, i, loop_ranges, expected_retire>>
      /\ instrs \in [0 .. n - 1 -> Instr \cup {NoWord}]
      /\ \E w : instrs' = [instrs EXCEPT ![slot] = w]
  BY <1>1, LengthType DEF GenInv, FillSlot, Generated, GenTypeOK
<1>3. slot \in 0 .. n - 1 /\ Pending(slot)
  BY <1>1, <1>2, FirstSlot
<1>4. ~in_any_range(slot, loop_ranges)
  BY <1>3 DEF GenInv, SlotsOpen
<1>5. \A r \in loop_ranges : instrs'[r[1]] = instrs[r[1]]
  <2> SUFFICES ASSUME NEW r \in loop_ranges PROVE instrs'[r[1]] = instrs[r[1]]
    OBVIOUS
  <2>1. r[1] \in Nat /\ r[2] \in Nat /\ r[1] + 4 <= r[2] /\ r[2] <= n
    BY TripType
  <2>2. r[1] <= r[1] /\ r[1] < r[2] /\ r[1] \in 0 .. n - 1
    BY <1>2, <2>1
  <2>3. r[1] # slot
    BY <1>4, <2>2, Zenon DEF in_any_range
  <2> QED
    BY <1>2, <2>2, <2>3
<1>6. PICK P : Estimate(P)
  BY <1>2 DEF EstimateInv
<1>7. Estimate(P)'
  BY <1>2, <1>5, <1>6, EstimateKept
<1> QED
  BY <1>2, <1>7 DEF EstimateInv

LEMMA EstimatePasses ==
  ASSUME RunInv, EstimateInv, EndPass1 \/ EndPass2, UNCHANGED run_vars PROVE EstimateInv'
<1>1. /\ UNCHANGED <<n, i, instrs, loop_ranges, expected_retire>> /\ Generated
      /\ phase # "run" /\ n \in Nat /\ i \in 0 .. n /\ UNCHANGED <<pc, retired, jumped>>
      /\ phase' \in {"pass2", "run"}
  BY LengthType DEF EndPass1, EndPass2, Generated, RunInv, GenInv, run_vars
<1>2. PICK P : Estimate(P)
  BY <1>1 DEF EstimateInv
<1>3. Estimate(P)'
  <2>1. \A r \in loop_ranges : instrs'[r[1]] = instrs[r[1]]
    BY <1>1
  <2> QED
    BY <1>1, <1>2, <2>1, EstimateKept
<1>4. i' = n'
  BY <1>1 DEF EndPass1, EndPass2, EstimateInv
<1>5. Reached(P)'
  <2>1. pc' = 0 /\ retired' = 0 /\ jumped' = FALSE
    BY <1>1 DEF RunInv, NotStarted, RunInit
  <2>2. preamble_words \in Nat /\ preamble_words > 0
    BY RegisterFacts, SizesAssumption
  <2> QED
    <3>1. preamble_words' = preamble_words /\ pc' < preamble_words
      BY <2>1, <2>2 DEF preamble_words
    <3>2. retired' = preamble_words + (pc' - preamble_words)
      BY <2>1, <2>2
    <3>3. retired' <= preamble_words + (pc' - preamble_words)
      BY <2>1, <2>2
    <3> QED
      BY <3>1, <3>2, <3>3, Zenon DEF Reached, Counted
<1>6. phase' # "start"
  BY <1>1
<1> QED
  BY <1>3, <1>4, <1>5, <1>6 DEF EstimateInv

(* A step retires one word; only a random branch or a jump goes elsewhere  *)
(* than to the next word without a loop branch.                            *)
LEMMA StepCounts ==
  ASSUME RunInv, Running, Run
  PROVE  /\ retired' = IF retired < RetiredBound THEN retired + 1 ELSE retired
         /\ jumped' = jumped \/ jumped' = TRUE
         /\ pc' = pc + 1 \/ jumped' = TRUE \/ instruction.op = "BNE"
<1>1. CASE Addi \/ Auipc \/ Arithmetic \/ Load \/ Store
  BY <1>1 DEF Addi, Auipc, Arithmetic, Load, Store, Go
<1>2. CASE Branch
  BY <1>2 DEF Branch, Go
<1>3. CASE Jump
  BY <1>3 DEF Jump, Go
<1>4. CASE LoopBranch
  BY <1>4 DEF LoopBranch, Go
<1> QED
  BY <1>1, <1>2, <1>3, <1>4, RunByOperation

(* Within the estimate, the count of a step's target is the one of its     *)
(* origin and the retired word, or more after a jump.                      *)
LEMMA CountedStep ==
  ASSUME RunInv, Running, Run, NEW v \in Int, Counted(v), v < expected_retire + 4,
         NEW w \in Int, w = v + 1 \/ (w > v /\ jumped' = TRUE)
  PROVE  Counted(w)'
<1>1. /\ retired \in Nat /\ preamble_words \in Nat /\ expected_retire \in Nat
  BY RegisterFacts DEF RunInv, RunTypes, GenInv, GenTypeOK
<1>2. retired <= preamble_words + v /\ (~jumped => retired = preamble_words + v)
  BY DEF Counted
<1>3. retired < RetiredBound
  BY <1>1, <1>2 DEF RetiredBound, expected_total
<1>4. retired' = retired + 1
  BY <1>3, StepCounts
<1>5. retired' <= preamble_words + w
  BY <1>1, <1>2, <1>4
<1>6. ASSUME ~jumped' PROVE retired' = preamble_words + w
  <2>0. jumped' = jumped \/ jumped' = TRUE
    BY StepCounts
  <2>1. ~jumped
    BY <1>6, <2>0
  <2>3. w = v + 1
    BY <1>6
  <2>2. retired = preamble_words + v
    BY <1>2, <2>1, Zenon
  <2> QED
    BY <1>1, <1>4, <2>2, <2>3
<1>7. preamble_words' = preamble_words
  BY DEF preamble_words
<1> QED
  BY <1>5, <1>6, <1>7, Zenon DEF Counted

LEMMA EstimateFacts ==
  ASSUME RunInv, NEW P, Estimate(P), i = n, phase = "run"
  PROVE  /\ \A k \in 0 .. n : P[k] \in Nat /\ P[k] <= P[n]
         /\ \A j, k \in 0 .. n : j <= k => P[j] <= P[k]
         /\ P[0] = 0 /\ P[n] = expected_retire + setup_words /\ expected_retire \in Nat
         /\ \A k \in 0 .. n - 1 : ~in_any_range(k, loop_ranges) => P[k + 1] = P[k] + 1
         /\ setup_words \in 1 .. 2 /\ setup_words <= n /\ n > 0
<1>1. n \in Nat
  BY RunTypeFacts
<1>2. /\ P \in [0 .. n -> Nat] /\ P[0] = 0
      /\ \A j, k \in 0 .. n : j <= k => P[j] <= P[k]
      /\ \A k \in 0 .. n - 1 : ~in_any_range(k, loop_ranges) => P[k + 1] = P[k] + 1
      /\ P[n] = expected_retire + setup_words
  BY Zenon DEF Estimate
<1>3. expected_retire \in Nat /\ n > 0
  BY DEF RunInv, GenInv, GenTypeOK, SetupPlaced, Generated
<1>4. setup_words \in 1 .. 2 /\ setup_words <= n
  BY <1>1, <1>3 DEF setup_words
<1>5. \A k \in 0 .. n : P[k] \in Nat /\ P[k] <= P[n]
  BY <1>1, <1>2
<1> QED
  BY <1>2, <1>3, <1>4, <1>5, Zenon

(* Between the blocks: the next word, or a jump's target.                  *)
LEMMA ReachedOutside ==
  ASSUME RunInv, Running, Run, NEW P, Estimate(P), i = n, Reached(P),
         NEW k \in 0 .. n - 1, pc = preamble_words + k, ~in_any_range(k, loop_ranges),
         NEW m \in 0 .. n, pc' = preamble_words + m,
         m = k + 1 \/ (m > k /\ ~in_any_range(m, loop_ranges) /\ jumped' = TRUE)
  PROVE  Reached(P)'
<1>1. /\ n \in Nat /\ preamble_words \in Nat /\ pc \in Nat /\ phase = "run"
      /\ UNCHANGED <<n, loop_ranges>> /\ preamble_words' = preamble_words
  BY RunTypeFacts, RunByOperation DEF gen_vars, Running, preamble_words
<1>2. /\ P[k] \in Nat /\ P[k + 1] = P[k] + 1 /\ P[m] \in Nat /\ P[k + 1] <= P[m]
      /\ P[m] <= expected_retire + 2 /\ expected_retire \in Nat
  <2>1. k \in 0 .. n /\ k + 1 \in 0 .. n /\ k + 1 <= m
    BY <1>1
  <2>2. /\ \A j \in 0 .. n : P[j] \in Nat /\ P[j] <= P[n]
        /\ \A j, l \in 0 .. n : j <= l => P[j] <= P[l]
        /\ P[n] = expected_retire + setup_words /\ expected_retire \in Nat
        /\ \A j \in 0 .. n - 1 : ~in_any_range(j, loop_ranges) => P[j + 1] = P[j] + 1
        /\ setup_words \in 1 .. 2
    BY <1>1, EstimateFacts, Zenon
  <2>3. P[k] \in Nat /\ P[k + 1] = P[k] + 1 /\ P[m] \in Nat /\ P[k + 1] <= P[m]
    BY <2>1, <2>2
  <2>4. P[m] <= P[n] /\ P[m] \in Nat
    BY <2>2
  <2> QED
    BY <2>2, <2>3, <2>4
<1>3. pc - preamble_words = k /\ pc >= preamble_words /\ ~(pc < preamble_words)
      /\ pc' - preamble_words = m /\ pc' >= preamble_words
  BY <1>1
<1>4. \A r \in loop_ranges : ~InBlock(r, k)
  <2> SUFFICES ASSUME NEW r \in loop_ranges, InBlock(r, k) PROVE FALSE
    OBVIOUS
  <2>1. r[1] \in Nat
    BY BlockBounds
  <2>2. r[1] <= k /\ k < r[2]
    BY <2>1 DEF InBlock
  <2> QED
    BY <2>2 DEF in_any_range
<1>5. Counted(P[k])
  BY <1>3, <1>4, Zenon DEF Reached
<1>6. Counted(P[m])'
  <2>1. PICK v, w : v = P[k] /\ w = P[m]
    OBVIOUS
  <2>2. /\ v \in Int /\ w \in Int /\ v < expected_retire + 4
        /\ w = v + 1 \/ (w > v /\ jumped' = TRUE)
    BY <1>2, <2>1
  <2>3. Counted(v)
    BY <1>5, <2>1
  <2>4. Counted(w)'
    BY <2>2, <2>3, CountedStep
  <2> QED
    BY <2>1, <2>4
<1>7. \A r \in loop_ranges : ~InBlock(r, m)
  <2> SUFFICES ASSUME NEW r \in loop_ranges, InBlock(r, m) PROVE FALSE
    OBVIOUS
  <2>1. r[1] \in Nat /\ r[2] \in Nat
    BY BlockBounds
  <2>2. r[1] < m /\ m < r[2]
    BY DEF InBlock
  <2>3. CASE m = k + 1
    <3>1. r[1] <= k /\ k < r[2]
      BY <2>1, <2>2, <2>3
    <3> QED
      BY <3>1 DEF in_any_range
  <2>4. CASE ~in_any_range(m, loop_ranges)
    <3>1. r[1] <= m /\ m < r[2]
      BY <2>1, <2>2
    <3> QED
      BY <2>4, <3>1 DEF in_any_range
  <2> QED
    BY <2>3, <2>4
<1> QED
  BY <1>1, <1>3, <1>6, <1>7, Zenon DEF Reached, InBlock

(* The finished iterations of a loop, its current one and the next. *)
LEMMA IterationSteps ==
  ASSUME NEW t \in Nat, NEW c \in Nat, c >= 1, NEW L \in Nat
  PROVE  /\ (t - c) * L \in Int /\ t * L \in Nat
         /\ (t - c) * L + L <= t * L
         /\ (t - c) * L + L = (t - (c - 1)) * L
<1>1. (t - c) * L \in Int /\ t * L \in Nat /\ (c - 1) * L \in Nat
  <2>1. c - 1 \in Nat
    OBVIOUS
  <2> QED
    BY <2>1
<1>2. (t - c) * L + L = (t - (c - 1)) * L
  OBVIOUS
<1>3. (t - (c - 1)) * L = t * L - (c - 1) * L
  OBVIOUS
<1> QED
  BY <1>1, <1>2, <1>3

(* What is counted at a word of a block. *)
LEMMA ReachedBlock ==
  ASSUME RunInv, NEW P, Reached(P), NEW r \in loop_ranges, NEW k \in Nat,
         pc = preamble_words + k, r[1] <= k, k < r[2]
  PROVE  /\ k = r[1] => Counted(P[r[1]])
         /\ k # r[1] => Counted(in_block(P, r, k))
<1>1. /\ preamble_words \in Nat /\ r[1] \in Nat /\ r[2] \in Nat
      /\ pc - preamble_words = k /\ pc >= preamble_words /\ ~(pc < preamble_words)
  BY RunTypeFacts, BlockBounds
<1>2. ASSUME NEW q \in loop_ranges, InBlock(q, k) PROVE q = r
  <2>1. q[1] \in Nat
    BY BlockBounds
  <2>2. q[1] <= k /\ k < q[2] /\ k \in Int
    BY <1>2, <2>1 DEF InBlock
  <2> QED
    BY <2>2, OneBlock
<1>3. InBlock(r, k) <=> k # r[1]
  BY <1>1 DEF InBlock
<1>4. \/ Counted(P[k]) /\ \A q \in loop_ranges : ~InBlock(q, k)
      \/ \E q \in loop_ranges : InBlock(q, k) /\ Counted(in_block(P, q, k))
  BY <1>1, Zenon DEF Reached
<1> QED
  BY <1>2, <1>3, <1>4, Zenon

(* Arriving at a word of a block, or behind it. *)
LEMMA ArriveInBlock ==
  ASSUME RunInv, Running, Run, NEW P, NEW r \in loop_ranges, NEW m \in Nat,
         pc' = preamble_words + m, r[1] < m, m < r[2], NEW v,
         v = P[r[1]] + 1 + (instrs[r[1]].imm - left_in(r, m)') * (r[2] - r[1] - 1)
               + (m - r[1] - 1),
         Counted(v)'
  PROVE  Reached(P)'
<1>1. /\ UNCHANGED <<instrs, loop_ranges>> /\ preamble_words' = preamble_words
      /\ preamble_words \in Nat
  BY RunTypeFacts, RunByOperation DEF gen_vars, preamble_words
<1>2. pc' >= preamble_words /\ pc' - preamble_words = m
  BY <1>1
<1>3. in_block(P, r, m)' = v
  BY <1>1, Zenon DEF in_block
<1>4. InBlock(r, m)' /\ r \in loop_ranges'
  BY <1>1, Zenon DEF InBlock
<1> QED
  BY <1>1, <1>2, <1>3, <1>4, Zenon DEF Reached

(* Inside a block: its first word, a word of the body, the decrement, and  *)
(* the branch, which starts the next iteration or leaves the block.        *)
LEMMA ReachedInside ==
  ASSUME RunInv, Running, Run, NEW P, Estimate(P), i = n, Reached(P),
         NEW r \in loop_ranges, BlockMove(r)
  PROVE  Reached(P)'
<1>1. PICK k : k = pc - preamble_words
  OBVIOUS
<1>2. /\ n \in Nat /\ preamble_words \in Nat /\ pc \in Nat /\ phase = "run"
      /\ UNCHANGED <<n, loop_ranges, instrs>> /\ preamble_words' = preamble_words
      /\ x[counter] \in Nat /\ x[counter] \in 0 .. WORD - 1 /\ WORD \in Nat /\ WORD > 0
  BY RunTypeFacts, RunByOperation DEF gen_vars, Running, preamble_words
<1>3. /\ r[1] \in Nat /\ r[2] \in Nat /\ r[1] + 4 <= r[2] /\ r[2] <= n
      /\ instrs[r[1]].imm \in Nat /\ instrs[r[1]].imm > 0
  BY TripType DEF RunInv
<1>4. r[1] <= k /\ k < r[2]
  BY <1>1 DEF BlockMove
<1>5. k \in Nat /\ pc = preamble_words + k
  BY <1>1, <1>2, <1>3, <1>4
<1>6. PICK t, L, p : t = instrs[r[1]].imm /\ L = r[2] - r[1] - 1 /\ p = P[r[1]]
  OBVIOUS
<1>7. /\ t \in Nat /\ t > 0 /\ L \in Nat /\ L >= 3 /\ p \in Nat
      /\ P[r[2]] = p + 1 + t * L /\ p + 1 + t * L <= expected_retire + 2
      /\ expected_retire \in Nat
  <2>1. r[1] \in 0 .. n /\ r[2] \in 0 .. n /\ L \in Nat /\ L >= 3 /\ r[2] - r[1] - 3 + 2 = L
    BY <1>2, <1>3, <1>6
  <2>2. /\ \A j \in 0 .. n : P[j] \in Nat /\ P[j] <= P[n]
        /\ P[n] = expected_retire + setup_words /\ expected_retire \in Nat
        /\ setup_words \in 1 .. 2
    BY <1>2, EstimateFacts, Zenon
  <2>3. P[r[2]] = p + retire_count(t, r[2] - r[1] - 3)
    BY <1>6, Zenon DEF Estimate
  <2>4. retire_count(t, r[2] - r[1] - 3) = 1 + t * L
    BY <2>1, Zenon DEF retire_count
  <2>5. P[r[2]] \in Nat /\ P[r[2]] <= P[n] /\ p \in Nat
    BY <1>6, <2>1, <2>2, Zenon
  <2>6. t \in Nat /\ t > 0
    BY <1>3, <1>6, Zenon
  <2>7. t * L \in Nat
    BY <2>1, <2>6
  <2>8. P[r[2]] = p + 1 + t * L
    BY <2>3, <2>4, <2>5, <2>7
  <2> QED
    BY <2>1, <2>2, <2>5, <2>6, <2>8
<1>8. /\ k = r[1] => Counted(p)
      /\ k # r[1] => Counted(in_block(P, r, k))
  BY <1>4, <1>5, <1>6, ReachedBlock, Zenon
<1>9. k # r[1] => x[counter] <= t /\ (x[counter] = 0 => k = r[2] - 1)
  <2>1. k # r[1] => r[1] < k
    BY <1>3, <1>4, <1>5
  <2> QED
    BY <1>1, <1>4, <1>6, <2>1, Zenon DEF RunInv, LoopEnteredAtInit
\* the first word
<1>10. CASE k = r[1] /\ pc' = pc + 1 /\ x'[counter] = instrs[r[1]].imm
  <2>1. PICK m : m = k + 1
    OBVIOUS
  <2>2. m \in Nat /\ pc' = preamble_words + m /\ r[1] < m /\ m < r[2] /\ m # r[2] - 1
    BY <1>2, <1>3, <1>5, <1>10, <2>1
  <2>3. left_in(r, m)' = t
    BY <1>6, <1>10, <2>2, Zenon DEF left_in
  <2>4. PICK v : v = p + 1 + (t - t) * L + (m - r[1] - 1)
    OBVIOUS
  <2>5. v = p + 1 /\ p < expected_retire + 4
    <3>1. (t - t) * L = 0 /\ t * L \in Nat
      BY <1>7
    <3>2. m - r[1] - 1 = 0
      BY <1>3, <1>10, <2>1
    <3> QED
      BY <1>7, <2>4, <3>1, <3>2
  <2>6. Counted(v)'
    <3>1. p \in Int /\ v \in Int /\ p < expected_retire + 4 /\ v = p + 1 /\ Counted(p)
      BY <1>7, <1>8, <1>10, <2>5
    <3> QED
      BY <3>1, CountedStep, Zenon
  <2>7. v = P[r[1]] + 1 + (instrs[r[1]].imm - left_in(r, m)') * (r[2] - r[1] - 1)
              + (m - r[1] - 1)
    BY <1>6, <2>3, <2>4, Zenon
  <2> QED
    BY <2>2, <2>6, <2>7, ArriveInBlock
\* behind the first word
<1>11. CASE k # r[1]
  <2>1. PICK c : c = left_in(r, k)
    OBVIOUS
  <2>2. c \in Nat /\ c >= 1
    BY <1>2, <1>9, <1>11, <2>1 DEF left_in
  <2>3. PICK M : M = (t - c) * L
    OBVIOUS
  <2>4. /\ M \in Int /\ t * L \in Nat /\ M + L <= t * L /\ M + L = (t - (c - 1)) * L
    BY <1>7, <2>2, <2>3, IterationSteps
  <2>5. PICK v : v = p + 1 + M + (k - r[1] - 1)
    OBVIOUS
  <2>6. Counted(v)
    <3>1. in_block(P, r, k) = v
      BY <1>6, <2>1, <2>3, <2>5, Zenon DEF in_block
    <3> QED
      BY <1>8, <1>11, <3>1, Zenon
  <2>7. v \in Int /\ v < expected_retire + 4
    <3>1. k - r[1] - 1 <= L
      BY <1>3, <1>4, <1>5, <1>6
    <3> QED
      BY <1>3, <1>5, <1>7, <2>4, <2>5, <3>1
  <2>8. PICK w : w = v + 1
    OBVIOUS
  <2>9. Counted(w)' /\ w \in Int
    <3>1. w \in Int
      BY <2>7, <2>8
    <3> QED
      BY <2>6, <2>7, <2>8, <3>1, CountedStep, Zenon
  \* to the next word of the block
  <2>10. CASE /\ pc' = pc + 1 /\ k < r[2] - 1
              /\ left_in(r, k + 1)' = c
    <3>1. PICK m : m = k + 1
      OBVIOUS
    <3>2. m \in Nat /\ pc' = preamble_words + m /\ r[1] < m /\ m < r[2]
      BY <1>2, <1>3, <1>4, <1>5, <2>10, <3>1
    <3>3. w = p + 1 + M + (m - r[1] - 1)
      BY <1>3, <1>5, <1>7, <2>4, <2>5, <2>8, <3>1
    <3>4. w = P[r[1]] + 1 + (instrs[r[1]].imm - left_in(r, m)') * (r[2] - r[1] - 1)
                + (m - r[1] - 1)
      BY <1>6, <2>3, <2>10, <3>1, <3>3, Zenon
    <3> QED
      BY <2>9, <3>2, <3>4, ArriveInBlock
  <2>11. CASE r[1] < k /\ k < r[2] - 2 /\ pc' = pc + 1 /\ x'[counter] = x[counter]
    <3>1. k < r[2] - 1 /\ k + 1 # r[2] - 1 /\ k # r[2] - 1
      BY <1>3, <1>5, <2>11
    <3>2. left_in(r, k + 1)' = c
      BY <2>1, <2>11, <3>1, Zenon DEF left_in
    <3> QED
      BY <2>10, <2>11, <3>1, <3>2
  <2>12. CASE k = r[2] - 2 /\ pc' = pc + 1 /\ x'[counter] = (x[counter] - 1) % WORD
    <3>1. k < r[2] - 1 /\ k + 1 = r[2] - 1 /\ k # r[2] - 1
      BY <1>3, <1>5, <2>12
    <3>2. x[counter] - 1 \in 0 .. WORD - 1
      BY <1>2, <1>9, <1>11, <3>1
    <3>3. x'[counter] = x[counter] - 1
      BY <1>2, <2>12, <3>2, ModSmall
    <3>4. left_in(r, k + 1)' = x'[counter] + 1 /\ c = x[counter]
      BY <2>1, <3>1, Zenon DEF left_in
    <3>5. left_in(r, k + 1)' = c
      BY <1>2, <3>3, <3>4
    <3> QED
      BY <2>10, <2>12, <3>1, <3>5
  \* the branch back
  <2>13. CASE /\ k = r[2] - 1 /\ x'[counter] = x[counter] /\ x[counter] # 0
              /\ pc' = preamble_words + r[1] + 1
    <3>1. PICK m : m = r[1] + 1
      OBVIOUS
    <3>2. m \in Nat /\ pc' = preamble_words + m /\ r[1] < m /\ m < r[2] /\ m # r[2] - 1
      BY <1>2, <1>3, <2>13, <3>1
    <3>3. c = x[counter] + 1 /\ left_in(r, m)' = x[counter]
      BY <2>1, <2>13, <3>2, Zenon DEF left_in
    <3>4. left_in(r, m)' = c - 1
      BY <1>2, <3>3
    <3>5. w = p + 1 + (M + L) + (m - r[1] - 1)
      BY <1>3, <1>6, <1>7, <2>4, <2>5, <2>8, <2>13, <3>1
    <3>6. w = P[r[1]] + 1 + (instrs[r[1]].imm - left_in(r, m)') * (r[2] - r[1] - 1)
                + (m - r[1] - 1)
      BY <1>6, <2>4, <3>4, <3>5, Zenon
    <3> QED
      BY <2>9, <3>2, <3>6, ArriveInBlock
  \* out of the block
  <2>14. CASE k = r[2] - 1 /\ x[counter] = 0 /\ pc' = pc + 1
    <3>1. c = 1
      BY <2>1, <2>14 DEF left_in
    <3>2. M + L = t * L
      <4>1. t - (1 - 1) = t
        BY <1>7
      <4> QED
        BY <2>4, <3>1, <4>1, Zenon
    <3>3. w = P[r[2]]
      BY <1>3, <1>6, <1>7, <2>4, <2>5, <2>8, <2>14, <3>2
    <3>4. pc' >= preamble_words /\ pc' - preamble_words = r[2]
      BY <1>2, <1>3, <1>5, <2>14
    <3>5. \A q \in loop_ranges : ~InBlock(q, r[2])
      <4> SUFFICES ASSUME NEW q \in loop_ranges, InBlock(q, r[2]) PROVE FALSE
        OBVIOUS
      <4>1. q[1] \in Nat /\ q[2] \in Nat
        BY BlockBounds
      <4>2. q[1] <= k /\ k < q[2] /\ k \in Int /\ r[2] < q[2]
        BY <1>3, <1>5, <2>14, <4>1 DEF InBlock
      <4>3. q = r
        BY <1>4, <4>2, OneBlock
      <4> QED
        BY <1>3, <4>2, <4>3
    <3> QED
      BY <1>2, <2>9, <3>3, <3>4, <3>5, Zenon DEF Reached, InBlock
  <2>15. \/ r[1] < k /\ k < r[2] - 2 /\ pc' = pc + 1 /\ x'[counter] = x[counter]
         \/ k = r[2] - 2 /\ pc' = pc + 1 /\ x'[counter] = (x[counter] - 1) % WORD
         \/ /\ k = r[2] - 1 /\ x'[counter] = x[counter]
            /\ pc' = IF x[counter] # 0 THEN preamble_words + r[1] + 1 ELSE pc + 1
    BY <1>1, <1>11, Zenon DEF BlockMove
  <2> QED
    BY <2>11, <2>12, <2>13, <2>14, <2>15
<1>12. k = r[1] => ~(r[1] < k) /\ k # r[2] - 2 /\ k # r[2] - 1
  BY <1>3
<1>13. k = r[1] => pc' = pc + 1 /\ x'[counter] = instrs[r[1]].imm
  BY <1>1, <1>12, Zenon DEF BlockMove
<1> QED
  BY <1>10, <1>11, <1>13, Zenon

(* A random word's only way past the next one is a jump. *)
LEMMA SlotJumps ==
  ASSUME RunInv, Running, Run, SlotMove
  PROVE  pc' = pc + 1 \/ jumped' = TRUE
<1>1. PICK k : k = pc - preamble_words
  OBVIOUS
<1>2. /\ setup_words <= k /\ k \in 0 .. n - 1 /\ ~in_any_range(k, loop_ranges)
      /\ n \in Nat /\ setup_words \in 1 .. 2 /\ (n > 1 => setup_words = 2) /\ pc \in Nat
      /\ preamble_words \in Nat
  BY <1>1, RunTypeFacts DEF SlotMove, setup_words
<1>3. ~(pc < preamble_words) /\ pc # preamble_words /\ ~(pc = preamble_words + 1 /\ n > 1)
  BY <1>1, <1>2
<1>4. instruction \in gen_one_instr(Offsets, k, n, loop_ranges)
  BY <1>1, <1>2, <1>3, WordOrigin, Zenon DEF in_any_range
<1>5. \/ instruction \in gen_body_instr(Offsets)
      \/ instruction.op = "BRANCH" \/ instruction.op = "JAL"
  BY <1>2, <1>4, SlotWords
<1>6. instruction.op # "BNE"
  <2>1. CASE instruction \in gen_body_instr(Offsets)
    BY <2>1, BodyWords
  <2> QED
    BY <1>5, <2>1
<1> QED
  BY <1>6, StepCounts

LEMMA ReachedStep ==
  ASSUME RunInv, Running, Run, NEW P, Estimate(P), i = n, Reached(P) PROVE Reached(P)'
<1>1. /\ n \in Nat /\ preamble_words \in Nat /\ pc \in Nat /\ phase = "run"
      /\ UNCHANGED <<n, loop_ranges, instrs>> /\ preamble_words' = preamble_words
      /\ epilogue_at = preamble_words + n /\ pc < epilogue_at
  BY RunTypeFacts, RunByOperation DEF gen_vars, Running, preamble_words
<1>2. /\ P[0] = 0 /\ expected_retire \in Nat
      /\ setup_words \in 1 .. 2 /\ setup_words <= n /\ n > 0
  BY <1>1, EstimateFacts, Zenon
<1>3. \A r \in loop_ranges : r[1] \in Nat /\ setup_words <= r[1] /\ (n > 1 => setup_words = 2)
  BY BlockBounds
<1>4. CASE ClearMove
  <2>1. pc < preamble_words /\ pc' = pc + 1 /\ ~(pc >= preamble_words)
    BY <1>1, <1>4 DEF ClearMove
  <2>2. Counted(pc - preamble_words)
    BY <2>1, Zenon DEF Reached
  <2>3. PICK v, w : v = pc - preamble_words /\ w = v + 1
    OBVIOUS
  <2>4. v \in Int /\ w \in Int /\ v < expected_retire + 4 /\ w = pc' - preamble_words
    BY <1>1, <1>2, <2>1, <2>3
  <2>5. Counted(w)'
    BY <2>2, <2>3, <2>4, CountedStep
  <2>6. CASE pc' < preamble_words
    BY <1>1, <2>4, <2>5, <2>6, Zenon DEF Reached
  <2>7. CASE ~(pc' < preamble_words)
    <3>1. w = 0 /\ pc' >= preamble_words
      BY <1>1, <2>1, <2>4, <2>7
    <3>2. Counted(P[w])'
      BY <1>2, <2>5, <3>1, Zenon
    <3>3. \A r \in loop_ranges : ~InBlock(r, w)
      BY <1>2, <1>3, <3>1 DEF InBlock
    <3> QED
      BY <1>1, <2>4, <3>1, <3>2, <3>3, Zenon DEF Reached, InBlock
  <2> QED
    BY <2>6, <2>7
<1>5. CASE AuipcMove \/ BaseMove
  <2>1. PICK k, m : k = pc - preamble_words /\ m = k + 1
    OBVIOUS
  <2>2. k \in 0 .. n - 1 /\ pc = preamble_words + k /\ m \in 0 .. n /\ pc' = preamble_words + m
        /\ k < 2 /\ (k = 1 => n > 1)
    BY <1>1, <1>5, <2>1 DEF AuipcMove, BaseMove
  <2>3. ~in_any_range(k, loop_ranges)
    <3> SUFFICES ASSUME NEW r \in loop_ranges, r[1] <= k PROVE FALSE
      BY DEF in_any_range
    <3> QED
      BY <1>1, <1>2, <1>3, <2>2
  <2> QED
    BY <2>1, <2>2, <2>3, ReachedOutside
<1>6. CASE \E r \in loop_ranges : BlockMove(r)
  BY <1>6, ReachedInside
<1>7. CASE SlotMove
  <2>1. PICK k, m : k = pc - preamble_words /\ m = pc' - preamble_words
    OBVIOUS
  <2>2. k \in 0 .. n - 1 /\ ~in_any_range(k, loop_ranges)
    BY <1>7, <2>1 DEF SlotMove
  <2>3. pc = preamble_words + k
    BY <1>1, <2>1
  <2>4. CASE pc' = pc + 1
    <3>1. m = k + 1 /\ m \in 0 .. n /\ pc' = preamble_words + m
      BY <1>1, <2>1, <2>2, <2>3, <2>4
    <3> QED
      BY <2>2, <2>3, <3>1, ReachedOutside
  <2>5. CASE pc' # pc + 1
    <3>1. /\ pc' \in Int /\ pc' > pc /\ pc' <= epilogue_at /\ ~in_any_range(m, loop_ranges)
      BY <1>7, <2>1, <2>5 DEF SlotMove
    <3>2. jumped' = TRUE
      <4>1. pc' = pc + 1 \/ jumped' = TRUE
        BY <1>7, SlotJumps
      <4> QED
        BY <2>5, <4>1, Zenon
    <3>3. m \in 0 .. n /\ m > k /\ pc' = preamble_words + m
      <4>1. /\ n \in Nat /\ preamble_words \in Nat /\ pc \in Nat /\ k \in 0 .. n - 1
            /\ pc' \in Int /\ pc' > pc /\ pc' <= preamble_words + n
        BY <1>1, <2>2, <3>1, Zenon
      <4>2. PICK y : y = pc'
        OBVIOUS
      <4>3. y \in Int /\ y > pc /\ y <= preamble_words + n /\ m = y - preamble_words
        BY <2>1, <4>1, <4>2, Zenon
      <4>4. m \in Int /\ y = preamble_words + m
        BY <4>1, <4>3
      <4>5. m \in 0 .. n /\ m > k
        BY <2>3, <4>1, <4>3, <4>4
      <4> QED
        BY <4>2, <4>4, <4>5, Zenon
    <3> QED
      BY <2>2, <2>3, <3>1, <3>2, <3>3, ReachedOutside
  <2> QED
    BY <2>4, <2>5
<1> QED
  BY <1>4, <1>5, <1>6, <1>7, RunMoves

LEMMA EstimateStutters ==
  ASSUME EstimateInv, UNCHANGED vars PROVE EstimateInv'
<1>1. UNCHANGED <<phase, n, i, instrs, loop_ranges, expected_retire, pc, x, retired, jumped>>
  BY DEF vars, gen_vars, run_vars
<1>2. setup_words' = setup_words /\ (Generated' <=> Generated)
  BY <1>1 DEF setup_words, Generated
<1>3. \A v : Counted(v)' <=> Counted(v)
  BY <1>1 DEF Counted, preamble_words
<1>4. \A P, r, k : in_block(P, r, k)' = in_block(P, r, k)
  BY <1>1, Zenon DEF in_block, left_in
<1>5. \A P : Reached(P)' <=> Reached(P)
  BY <1>1, <1>3, <1>4, Zenon DEF Reached, InBlock
<1>6. ASSUME NEW P, Estimate(P) PROVE Estimate(P)'
  BY <1>1, <1>6, EstimateKept
<1> QED
  BY <1>1, <1>2, <1>5, <1>6, Zenon DEF EstimateInv

LEMMA EstimateStep ==
  ASSUME RunInv, EstimateInv, [Next]_vars PROVE EstimateInv'
<1>1. CASE Generate
  <2>1. CASE Fail
    BY <2>1 DEF Fail, EstimateInv, Generated
  <2> QED
    BY <1>1, <2>1, EstimateSetup, EstimateLoop, EstimateSlot, EstimateFill, EstimatePasses
       DEF Generate, GenNext, RunInv
<1>2. CASE Run /\ Running
  <2>1. /\ UNCHANGED <<phase, n, i, instrs, loop_ranges, expected_retire>>
        /\ phase = "run" /\ Generated /\ i = n
    BY <1>2, RunByOperation DEF gen_vars, Running, Generated, EstimateInv
  <2>2. PICK P : Estimate(P) /\ Reached(P)
    BY <2>1 DEF EstimateInv
  <2>3. Reached(P)'
    BY <1>2, <2>1, <2>2, ReachedStep
  <2>4. Estimate(P)'
    <3>1. \A r \in loop_ranges : instrs'[r[1]] = instrs[r[1]]
      BY <2>1
    <3> QED
      BY <2>1, <2>2, <3>1, EstimateKept
  <2> QED
    BY <2>1, <2>3, <2>4 DEF EstimateInv
<1>3. CASE UNCHANGED vars
  BY <1>3, EstimateStutters
<1>4. CASE Run /\ ~Running
  <2>1. UNCHANGED vars
    BY <1>4 DEF Run, Addi, Auipc, Arithmetic, Load, Store, Branch, Jump, LoopBranch,
                SelfBranch, NoProgram, vars
  <2> QED
    BY <2>1, EstimateStutters
<1> QED
  BY <1>1, <1>2, <1>3, <1>4 DEF Next

(* For every program, a run that reaches the epilogue has retired no more  *)
(* words than gen_program.py's estimate and the words that set up x31, and *)
(* exactly that many if no random branch or jump was taken: retire_count   *)
(* is right for every loop, and a forward jump only skips retirements.     *)
THEOREM EstimateIsExact == Spec => []EstimateHolds
<1>1. Init => EstimateInv
  BY DEF Init, GenInit, EstimateInv, Generated
<1>2. RunInv /\ EstimateInv /\ [Next]_vars => EstimateInv'
  BY EstimateStep
<1>3. RunInv /\ EstimateInv => EstimateHolds
  <2> SUFFICES ASSUME RunInv, EstimateInv, AtEpilogue
               PROVE  /\ retired + 1 <= expected_total + setup_words
                      /\ ~jumped => retired + 1 = expected_total + setup_words
    BY DEF EstimateHolds, setup_words
  <2>1. phase = "run" /\ pc = epilogue_at /\ Generated
    BY DEF AtEpilogue, Generated
  <2>2. PICK P : Estimate(P) /\ Reached(P)
    BY <2>1 DEF EstimateInv
  <2>3. i = n
    BY <2>1 DEF EstimateInv
  <2>4. /\ P[n] = expected_retire + setup_words /\ expected_retire \in Nat
        /\ setup_words \in 1 .. 2
    BY <2>1, <2>2, <2>3, EstimateFacts, Zenon
  <2>5. /\ pc - preamble_words = n /\ ~(pc < preamble_words) /\ n \in Nat
        /\ preamble_words \in Nat /\ retired \in Nat
    BY <2>1, RunTypeFacts DEF RunInv, RunTypes
  <2>6. \A r \in loop_ranges : ~InBlock(r, n)
    <3> SUFFICES ASSUME NEW r \in loop_ranges PROVE ~(n < r[2])
      BY DEF InBlock
    <3>1. r[2] \in Nat /\ r[2] <= n
      BY BlockBounds
    <3> QED
      BY <2>5, <3>1
  <2>7. Counted(P[n])
    BY <2>2, <2>5, <2>6, Zenon DEF Reached
  <2>8. /\ retired <= preamble_words + P[n]
        /\ ~jumped => retired = preamble_words + P[n]
    BY <2>7, Zenon DEF Counted
  <2>9. expected_total + setup_words = (preamble_words + P[n]) + 1
    BY <2>4, <2>5 DEF expected_total
  <2>10. retired + 1 <= expected_total + setup_words
    BY <2>4, <2>5, <2>8, <2>9
  <2>11. retired = preamble_words + P[n] => retired + 1 = expected_total + setup_words
    BY <2>9
  <2> QED
    BY <2>8, <2>10, <2>11, Zenon
<1> QED
  BY <1>1, <1>2, <1>3, RunInvariant, PTL DEF Spec
-----------------------------------------------------------------------------
(* Loads of words that have not been stored to *)

LEMMA StoredStep ==
  ASSUME RunInv, StoredSoFar, Running, Run PROVE StoredSoFar'
<1>1. /\ UNCHANGED <<phase, n, instrs>> /\ preamble_words' = preamble_words
      /\ phase = "run" /\ pc \in Nat /\ preamble_words \in Nat /\ n \in Nat
  BY RunByOperation, RunTypeFacts DEF gen_vars, preamble_words, Running
<1>0. SUFFICES ASSUME ~jumped', NEW s \in 0 .. n - 1, s < pc' - preamble_words,
                      instrs[s].op = "SW"
               PROVE  instrs[s].imm \in stored'
  BY <1>1 DEF StoredSoFar
<1>2. ~jumped
  BY <1>0, StepCounts, Zenon
<1>3. pc' \in Int /\ pc' <= pc + 1
  <2>1. CASE ClearMove \/ AuipcMove \/ BaseMove
    BY <1>1, <2>1 DEF ClearMove, AuipcMove, BaseMove
  <2>2. CASE \E r \in loop_ranges : BlockMove(r)
    <3>1. PICK r \in loop_ranges : BlockMove(r)
      BY <2>2
    <3>2. r[1] \in Nat /\ r[1] <= pc - preamble_words
      BY <3>1, BlockBounds DEF BlockMove
    <3>3. pc' = pc + 1 \/ pc' = preamble_words + r[1] + 1
      BY <3>1 DEF BlockMove
    <3> QED
      BY <1>1, <3>2, <3>3
  <2>3. CASE SlotMove
    <3>1. pc' = pc + 1
      BY <1>0, <2>3, SlotJumps, Zenon
    <3> QED
      BY <1>1, <3>1
  <2> QED
    BY <2>1, <2>2, <2>3, RunMoves
<1>4. stored \subseteq stored' /\ (instruction.op = "SW" => instruction.imm \in stored')
  <2>1. CASE instruction.op = "SW" /\ Store
    BY <2>1 DEF Store
  <2>2. CASE instruction.op = "LW" /\ Load
    BY <2>2 DEF Load
  <2>3. CASE instruction.op # "SW" /\ stored' = stored
    BY <2>3
  <2> QED
    BY <2>1, <2>2, <2>3, RunByOperation
       DEF Addi, Auipc, Arithmetic, Branch, Jump, LoopBranch, mem_vars
<1>5. CASE s < pc - preamble_words
  BY <1>0, <1>1, <1>2, <1>4, <1>5 DEF StoredSoFar
<1>6. CASE s = pc - preamble_words
  <2>1. instruction = instrs[s]
    BY <1>1, <1>6 DEF instruction, build_full_program, epilogue_at
  <2> QED
    BY <1>0, <1>4, <2>1
<1>7. s < pc - preamble_words \/ s = pc - preamble_words
  <2>1. PICK y : y = pc'
    OBVIOUS
  <2>2. y \in Int /\ y <= pc + 1 /\ s < y - preamble_words
    BY <1>0, <1>3, <2>1, Zenon
  <2>3. s \in Int /\ pc \in Int /\ preamble_words \in Int
    BY <1>1
  <2> QED
    BY <2>2, <2>3
<1> QED
  BY <1>5, <1>6, <1>7, Zenon

LEMMA StoredInvariant == Spec => []StoredSoFar
<1>1. Init => StoredSoFar
  BY DEF Init, GenInit, StoredSoFar
<1>2. ASSUME RunInv, StoreInv, StoredSoFar, [Next]_vars PROVE StoredSoFar'
  <2>1. CASE Generate
    <3>1. phase # "run" /\ UNCHANGED <<n, pc>>
      BY <2>1 DEF Generate, run_vars, GenNext, Fail, Setup, PlaceLoop, DeferSlot, EndPass1,
                  FillSlot, EndPass2
    <3>2. pc' = 0 /\ preamble_words' = preamble_words /\ preamble_words \in Nat
      BY <1>2, <3>1, SizesAssumption DEF RunInv, NotStarted, RunInit, preamble_words
    <3>3. n' \in Nat
      BY <1>2, <3>1, RunTypeFacts
    <3> QED
      BY <3>2, <3>3 DEF StoredSoFar
  <2>2. CASE Run /\ Running
    BY <1>2, <2>2, StoredStep
  <2>3. CASE UNCHANGED vars
    BY <1>2, <2>3 DEF vars, gen_vars, run_vars, mem_vars, StoredSoFar, preamble_words
  <2>4. CASE Run /\ ~Running
    <3>1. UNCHANGED vars
      BY <2>4 DEF Run, Addi, Auipc, Arithmetic, Load, Store, Branch, Jump, LoopBranch,
                  SelfBranch, NoProgram, vars
    <3> QED
      BY <2>3, <3>1
  <2> QED
    BY <1>2, <2>1, <2>2, <2>3, <2>4 DEF Next
<1> QED
  BY <1>1, <1>2, RunInvariant, GenInvariant, PTL DEF Spec

(* Why a run of a generated program loads a word it has not stored to:     *)
(* because a branch or jump was taken and the store is among the words it  *)
(* passed, or because random_program fills the words between the loop      *)
(* blocks after the blocks, when the stores of the blocks behind a word    *)
(* already count.  A program in which neither happens compares equal on    *)
(* any two memories, by TracesDifferOnlyInBase.                            *)
THEOREM EarlyLoadsHaveTwoCauses == Spec => []EarlyLoadsExplained
<1>1. RunInv /\ StoreInv /\ StoredSoFar => EarlyLoadsExplained
  <2> SUFFICES ASSUME RunInv, StoreInv, StoredSoFar, Running, instruction.op = "LW",
                      instruction.imm \notin stored, NEW k, k = pc - preamble_words
               PROVE  \/ jumped /\ \E s \in 0 .. k - 1 : StoresTo(s, instruction.imm)
                      \/ /\ ~in_any_range(k, loop_ranges)
                         /\ \E s \in k + 1 .. n - 1 : /\ in_any_range(s, loop_ranges)
                                                     /\ StoresTo(s, instruction.imm)
    BY DEF EarlyLoadsExplained, StoresTo
  <2>1. /\ pc \in Nat /\ preamble_words \in Nat /\ n \in Nat /\ phase = "run"
        /\ pc < preamble_words + n
    BY RunTypeFacts DEF Running
  <2>2. ~(pc < preamble_words)
    <3>1. addi(pc + 1, 0, 0).op = "ADDI"
      BY DEF addi, Word
    <3>2. pc < preamble_words => instruction = clear_all_regs_preamble[pc]
      BY DEF instruction, build_full_program
    <3>3. pc < preamble_words => clear_all_regs_preamble[pc] = addi(pc + 1, 0, 0)
      BY <2>1, SizesAssumption DEF clear_all_regs_preamble, preamble_words
    <3> QED
      BY <3>1, <3>2, <3>3
  <2>3. k \in 0 .. n - 1 /\ instruction = instrs[k]
    BY <2>1, <2>2 DEF instruction, build_full_program, epilogue_at
  <2>4. PICK s \in 0 .. n - 1 :
          /\ s < k \/ (in_any_range(s, loop_ranges) /\ ~in_any_range(k, loop_ranges))
          /\ StoresTo(s, instrs[k].imm)
    BY <2>1, <2>3 DEF StoreInv, LoadsBacked, Generated
  <2>5. StoresTo(s, instruction.imm)
    BY <2>3, <2>4
  <2>6. CASE s < k
    <3>1. jumped
      BY <2>1, <2>5, <2>6 DEF StoredSoFar, StoresTo
    <3>2. s \in 0 .. k - 1
      BY <2>3, <2>6
    <3> QED
      BY <2>5, <3>1, <3>2
  <2>7. CASE ~(s < k)
    <3>1. s # k
      BY <2>3, <2>5 DEF StoresTo
    <3>2. s \in k + 1 .. n - 1
      BY <2>1, <2>3, <2>7, <3>1
    <3> QED
      BY <2>4, <2>5, <2>7, <3>2
  <2> QED
    BY <2>6, <2>7
<1> QED
  BY <1>1, RunInvariant, GenInvariant, StoredInvariant, PTL
=============================================================================
