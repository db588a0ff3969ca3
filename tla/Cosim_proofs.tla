---------------------------- MODULE Cosim_proofs ----------------------------
(***************************************************************************)
(* What the parsers recover from the two logs, whatever the program, the   *)
(* results of its instructions, the bubbles in the core's pipeline and the *)
(* fault the core shows.                                                   *)
(***************************************************************************)
EXTENDS Cosim, Induction_lemmas, FiniteSetTheorems

-----------------------------------------------------------------------------
(* What is retired *)

Pairs == Nat \X Nat
Optional == {None} \cup Pairs
Retired == [pc : Nat \cup {Unknown}, reg : Optional, mem : Optional]

LEMMA PairNotNone ==
  /\ \A x \in Pairs : x # None /\ x = <<x[1], x[2]>> /\ x[1] \in Nat /\ x[2] \in Nat
  /\ \A a, b \in Nat : <<a, b>> \in Pairs
BY SMT DEF Pairs, None

LEMMA RetiresType ==
  ASSUME NEW k \in Nat \ {0}, NEW r \in Optional, NEW m \in Optional
  PROVE  /\ Retires(k, r, m) \in Retired /\ Retires(k, r, m).pc = k - 1
         /\ Retires(k, r, m).reg = r /\ Retires(k, r, m).mem = m
BY DEF Retires, Retired

LEMMA ElementType ==
  ASSUME NEW B, NEW s \in Seq(B)
  PROVE  Len(s) \in Nat /\ \A k \in 1 .. Len(s) : s[k] \in B
OBVIOUS

LEMMA ProgramType ==
  ASSUME program \in Programs, NEW k \in 1 .. Len(program)
  PROVE  /\ program[k].kind \in Kinds /\ program[k].rd \in Nat /\ program[k].back \in Nat
         /\ Len(program) \in Nat /\ 0 < Len(program) /\ Len(program) < BASE_OFFSET
         /\ program[k].kind = "halt" <=> k = Len(program)
         /\ program[k].kind = "branch" => 0 < program[k].back /\ program[k].back < k
<1>1. WellFormed(program)
  BY ProgramsAssumption, Zenon
<1>2. program \in Seq([kind : Kinds, rd : 0 .. 31, back : Nat])
  BY <1>1, Zenon DEF WellFormed
<1>3. /\ 0 < Len(program) /\ Len(program) < BASE_OFFSET
      /\ program[k].kind = "halt" <=> k = Len(program)
      /\ program[k].kind = "branch" => 0 < program[k].back /\ program[k].back < k
  BY <1>1, Zenon DEF WellFormed
<1>4. program[k] \in [kind : Kinds, rd : 0 .. 31, back : Nat] /\ Len(program) \in Nat
  BY <1>2, ElementType, Zenon
<1>5. program[k].kind \in Kinds /\ program[k].rd \in Nat /\ program[k].back \in Nat
  <2>1. PICK q : q = program[k]
    OBVIOUS
  <2>2. PICK R : R = 0 .. 31
    OBVIOUS
  <2>3. R \subseteq Nat
    BY <2>2, SMT
  <2>4. q \in [kind : Kinds, rd : R, back : Nat]
    BY <1>4, <2>1, <2>2, Zenon
  <2>5. q.kind \in Kinds /\ q.rd \in Nat /\ q.back \in Nat
    BY <2>3, <2>4
  <2> QED
    BY <2>1, <2>5, Zenon
<1>6. Len(program) \in Nat
  BY <1>4
<1> QED
  BY <1>3, <1>5, <1>6, Zenon

LEMMA ResultsType ==
  ASSUME program \in Programs, NEW k \in 1 .. Len(program), NEW r \in Results(k)
  PROVE  r \in Retired /\ r.pc = k - 1
<1> DEFINE i == program[k]
<1>1. i.kind \in Kinds /\ i.rd \in Nat /\ Len(program) \in Nat /\ k \in Nat \ {0} /\ k - 1 \in Nat
  BY ProgramType
<1>2. Values \subseteq Nat
  BY CosimAssumption, WordAssumption
<1>3. CASE i.kind \in {"alu", "load"}
  <2>1. PICK v \in Values : r = Retires(k, <<i.rd, v>>, None)
    BY <1>3 DEF Results
  <2>2. <<i.rd, v>> \in Optional /\ None \in Optional
    BY <1>1, <1>2, PairNotNone DEF Optional
  <2> QED
    BY <1>1, <2>1, <2>2, RetiresType
<1>4. CASE i.kind = "auipc"
  <2>1. r = Retires(k, <<i.rd, k - 1>>, None)
    BY <1>4 DEF Results
  <2>2. <<i.rd, k - 1>> \in Optional /\ None \in Optional
    BY <1>1, PairNotNone DEF Optional
  <2> QED
    BY <1>1, <2>1, <2>2, RetiresType
<1>5. CASE i.kind = "store"
  <2>1. PICK v \in Values : r = Retires(k, None, <<DataAddress, v>>)
    BY <1>5 DEF Results
  <2>2. <<DataAddress, v>> \in Optional /\ None \in Optional
    BY <1>1, <1>2, PairNotNone DEF Optional, DataAddress
  <2> QED
    BY <1>1, <2>1, <2>2, RetiresType
<1>6. CASE i.kind \in {"branch", "halt"}
  <2>1. r = Retires(k, None, None)
    BY <1>6 DEF Results
  <2>2. None \in Optional
    BY DEF Optional
  <2> QED
    BY <1>1, <2>1, <2>2, RetiresType
<1> QED
  BY <1>1, <1>3, <1>4, <1>5, <1>6 DEF Kinds

LEMMA FaultyType ==
  ASSUME NEW r \in Retired, NEW f \in FaultKinds, Possible(r, f) \/ f = "unknown_pc"
  PROVE  /\ Faulty(r, f) \in Retired
         /\ f = "unknown_pc" => Faulty(r, f).pc = Unknown
         /\ f # "unknown_pc" => Faulty(r, f).pc = r.pc
<1>1. /\ r.pc \in Nat \cup {Unknown} /\ r.reg \in Optional /\ r.mem \in Optional
      /\ r = [pc |-> r.pc, reg |-> r.reg, mem |-> r.mem]
  BY DEF Retired
<1>2. WORD \in Nat /\ WORD > 0 /\ FaultDelta \in Nat
  BY WordAssumption, CosimAssumption
<1>3. ASSUME NEW v \in Nat PROVE Off(v) \in Nat
  BY <1>2 DEF Off
<1>4. r.reg # None => r.reg[1] \in Nat /\ r.reg[2] \in Nat
  BY <1>1, PairNotNone DEF Optional
<1>5. r.mem # None => r.mem[1] \in Nat /\ r.mem[2] \in Nat
  BY <1>1, PairNotNone DEF Optional
<1>6. ASSUME NEW a \in Nat, NEW b \in Nat PROVE <<a, b>> \in Optional
  BY PairNotNone DEF Optional
<1>7. None \in Optional
  BY DEF Optional
<1>8. CASE f = "value"
  <2>1. <<r.reg[1], Off(r.reg[2])>> \in Optional
    BY <1>3, <1>4, <1>6, <1>8 DEF Possible
  <2> QED
    BY <1>8, <1>1, <2>1 DEF Faulty, Retired
<1>9. CASE f = "rd"
  <2>1. <<r.reg[1] + 1, r.reg[2]>> \in Optional
    BY <1>4, <1>6, <1>9 DEF Possible
  <2> QED
    BY <1>9, <1>1, <2>1 DEF Faulty, Retired
<1>10. CASE f = "lost_write"
  BY <1>10, <1>1, <1>7 DEF Faulty, Retired
<1>11. CASE f = "store_value"
  <2>1. <<r.mem[1], Off(r.mem[2])>> \in Optional
    BY <1>3, <1>5, <1>6, <1>11 DEF Possible
  <2> QED
    BY <1>11, <1>1, <2>1 DEF Faulty, Retired
<1>12. CASE f = "store_address"
  <2>1. <<Off(r.mem[1]), r.mem[2]>> \in Optional
    BY <1>3, <1>5, <1>6, <1>12 DEF Possible
  <2> QED
    BY <1>12, <1>1, <2>1 DEF Faulty, Retired
<1>13. CASE f \in {"dropped", "repeated"}
  BY <1>13 DEF Faulty
<1>14. CASE f = "unknown_pc"
  BY <1>14, <1>1 DEF Faulty, Retired, Unknown
<1> QED
  BY <1>8, <1>9, <1>10, <1>11, <1>12, <1>13, <1>14 DEF FaultKinds

-----------------------------------------------------------------------------
(* The lines of commit_log.txt *)

PcLine(i, r) == [kind |-> "PC", idx |-> i, pc |-> r.pc]
RegLine(i, r) == [kind |-> "REG", idx |-> i, rd |-> r.reg[1], val |-> r.reg[2]]
MemLine(i, r) == [kind |-> "MEM", idx |-> i, addr |-> r.mem[1], val |-> r.mem[2]]

LineType == [kind : {"PC"}, idx : Nat, pc : Nat \cup {Unknown}]
            \cup [kind : {"REG"}, idx : Nat, rd : Nat, val : Nat]
            \cup [kind : {"MEM"}, idx : Nat, addr : Nat, val : Nat]

(* The log holds, in some order, the PC and REG lines of the first w       *)
(* instructions and the MEM lines of the first m.                          *)
LinesOf(log) == {log[k] : k \in 1 .. Len(log)}
PcLines(tr, w) == {PcLine(i - 1, tr[i]) : i \in 1 .. w}
RegLines(tr, w) == {RegLine(i - 1, tr[i]) : i \in {j \in 1 .. w : tr[j].reg # None}}
MemLines(tr, m) == {MemLine(i - 1, tr[i]) : i \in {j \in 1 .. m : tr[j].mem # None}}
Logged(log, tr, w, m) ==
  /\ log \in Seq(LineType)
  /\ LinesOf(log) = PcLines(tr, w) \cup RegLines(tr, w) \cup MemLines(tr, m)

LEMMA LinesOfJoin ==
  ASSUME NEW B, NEW s \in Seq(B), NEW t \in Seq(B)
  PROVE  s \o t \in Seq(B) /\ LinesOf(s \o t) = LinesOf(s) \cup LinesOf(t)
<1>1. PICK u : u = s \o t
  OBVIOUS
<1>2. Concatenated(u, s, t, B)
  BY <1>1, Concat, Zenon
<1>3. /\ u \in Seq(B) /\ Len(u) = Len(s) + Len(t)
      /\ \A k \in 1 .. Len(s) : u[k] = s[k]
      /\ \A k \in 1 .. Len(t) : u[Len(s) + k] = t[k]
  BY <1>2, Zenon DEF Concatenated
<1>4. Len(s) \in Nat /\ Len(t) \in Nat
  OBVIOUS
<1>5. ASSUME NEW b \in LinesOf(u) PROVE b \in LinesOf(s) \cup LinesOf(t)
  <2>1. PICK k \in 1 .. Len(u) : b = u[k]
    BY <1>5 DEF LinesOf
  <2>2. CASE k <= Len(s)
    <3>1. k \in 1 .. Len(s) /\ b = s[k]
      BY <1>3, <1>4, <2>1, <2>2
    <3> QED
      BY <3>1, Zenon DEF LinesOf
  <2>3. CASE k > Len(s)
    <3>1. PICK j : j = k - Len(s)
      OBVIOUS
    <3>2. j \in 1 .. Len(t) /\ Len(s) + j = k
      BY <1>3, <1>4, <2>3, <3>1
    <3>3. b = t[j]
      BY <1>3, <2>1, <3>2
    <3> QED
      BY <3>2, <3>3, Zenon DEF LinesOf
  <2> QED
    BY <1>4, <2>2, <2>3
<1>6. ASSUME NEW b \in LinesOf(s) PROVE b \in LinesOf(u)
  <2>1. PICK k \in 1 .. Len(s) : b = s[k]
    BY <1>6 DEF LinesOf
  <2>2. k \in 1 .. Len(u) /\ b = u[k]
    BY <1>3, <1>4, <2>1
  <2> QED
    BY <2>2, Zenon DEF LinesOf
<1>7. ASSUME NEW b \in LinesOf(t) PROVE b \in LinesOf(u)
  <2>1. PICK k \in 1 .. Len(t) : b = t[k]
    BY <1>7 DEF LinesOf
  <2>2. PICK j : j = Len(s) + k
    OBVIOUS
  <2>3. j \in 1 .. Len(u) /\ b = u[j]
    BY <1>3, <1>4, <2>1, <2>2
  <2> QED
    BY <2>3, Zenon DEF LinesOf
<1>8. LinesOf(u) = LinesOf(s) \cup LinesOf(t)
  BY <1>5, <1>6, <1>7
<1> QED
  BY <1>1, <1>3, <1>8, Zenon

LEMMA LinesOfFew ==
  /\ LinesOf(<<>>) = {}
  /\ \A x : LinesOf(<<x>>) = {x}
<1>1. LinesOf(<<>>) = {}
  BY DEF LinesOf
<1>2. ASSUME NEW x PROVE LinesOf(<<x>>) = {x}
  <2>1. Len(<<x>>) = 1 /\ <<x>>[1] = x /\ 1 .. 1 = {1}
    BY SMT
  <2> QED
    BY <2>1 DEF LinesOf
<1> QED
  BY <1>1, <1>2

(* What one more instruction adds to the sets of lines. *)
LEMMA MoreLines ==
  ASSUME NEW tr, NEW n \in Nat
  PROVE  /\ PcLines(tr, n + 1) = PcLines(tr, n) \cup {PcLine(n, tr[n + 1])}
         /\ RegLines(tr, n + 1) = RegLines(tr, n) \cup
              (IF tr[n + 1].reg = None THEN {} ELSE {RegLine(n, tr[n + 1])})
         /\ MemLines(tr, n + 1) = MemLines(tr, n) \cup
              (IF tr[n + 1].mem = None THEN {} ELSE {MemLine(n, tr[n + 1])})
<1>1. PICK q : q = n + 1
  OBVIOUS
<1>2. 1 .. q = (1 .. n) \cup {q} /\ q - 1 = n
  BY <1>1
<1>3. PcLines(tr, q) = PcLines(tr, n) \cup {PcLine(n, tr[q])}
  <2>1. ASSUME NEW b \in PcLines(tr, q) PROVE b \in PcLines(tr, n) \cup {PcLine(n, tr[q])}
    <3>1. PICK i \in 1 .. q : b = PcLine(i - 1, tr[i])
      BY <2>1, Zenon DEF PcLines
    <3> QED
      BY <1>2, <3>1, Zenon DEF PcLines
  <2>2. ASSUME NEW b \in PcLines(tr, n) PROVE b \in PcLines(tr, q)
    BY <1>2, <2>2, Zenon DEF PcLines
  <2>3. PcLine(n, tr[q]) \in PcLines(tr, q)
    <3>1. q \in 1 .. q /\ PcLine(n, tr[q]) = PcLine(q - 1, tr[q])
      BY <1>2, Zenon
    <3> QED
      BY <3>1, Zenon DEF PcLines
  <2> QED
    BY <2>1, <2>2, <2>3, Zenon
<1>4. RegLines(tr, q) = RegLines(tr, n) \cup (IF tr[q].reg = None THEN {} ELSE {RegLine(n, tr[q])})
  <2>1. ASSUME NEW b \in RegLines(tr, q)
        PROVE  b \in RegLines(tr, n) \cup (IF tr[q].reg = None THEN {} ELSE {RegLine(n, tr[q])})
    <3>1. PICK i \in 1 .. q : tr[i].reg # None /\ b = RegLine(i - 1, tr[i])
      BY <2>1, Zenon DEF RegLines
    <3> QED
      BY <1>2, <3>1, Zenon DEF RegLines
  <2>2. ASSUME NEW b \in RegLines(tr, n) PROVE b \in RegLines(tr, q)
    BY <1>2, <2>2, Zenon DEF RegLines
  <2>3. ASSUME tr[q].reg # None PROVE RegLine(n, tr[q]) \in RegLines(tr, q)
    <3>1. q \in 1 .. q /\ RegLine(n, tr[q]) = RegLine(q - 1, tr[q])
      BY <1>2, Zenon
    <3> QED
      BY <2>3, <3>1, Zenon DEF RegLines
  <2> QED
    BY <2>1, <2>2, <2>3, Zenon
<1>5. MemLines(tr, q) = MemLines(tr, n) \cup (IF tr[q].mem = None THEN {} ELSE {MemLine(n, tr[q])})
  <2>1. ASSUME NEW b \in MemLines(tr, q)
        PROVE  b \in MemLines(tr, n) \cup (IF tr[q].mem = None THEN {} ELSE {MemLine(n, tr[q])})
    <3>1. PICK i \in 1 .. q : tr[i].mem # None /\ b = MemLine(i - 1, tr[i])
      BY <2>1, Zenon DEF MemLines
    <3> QED
      BY <1>2, <3>1, Zenon DEF MemLines
  <2>2. ASSUME NEW b \in MemLines(tr, n) PROVE b \in MemLines(tr, q)
    BY <1>2, <2>2, Zenon DEF MemLines
  <2>3. ASSUME tr[q].mem # None PROVE MemLine(n, tr[q]) \in MemLines(tr, q)
    <3>1. q \in 1 .. q /\ MemLine(n, tr[q]) = MemLine(q - 1, tr[q])
      BY <1>2, Zenon
    <3> QED
      BY <2>3, <3>1, Zenon DEF MemLines
  <2> QED
    BY <2>1, <2>2, <2>3, Zenon
<1> QED
  BY <1>1, <1>3, <1>4, <1>5, Zenon

LEMMA SameLines ==
  ASSUME NEW tr, NEW ts, NEW n, \A i \in 1 .. n : tr[i] = ts[i]
  PROVE  PcLines(tr, n) = PcLines(ts, n) /\ RegLines(tr, n) = RegLines(ts, n)
         /\ MemLines(tr, n) = MemLines(ts, n)
<1>1. ASSUME NEW b PROVE b \in PcLines(tr, n) <=> b \in PcLines(ts, n)
  BY Zenon DEF PcLines
<1>2. ASSUME NEW b PROVE b \in RegLines(tr, n) <=> b \in RegLines(ts, n)
  BY Zenon DEF RegLines
<1>3. ASSUME NEW b PROVE b \in MemLines(tr, n) <=> b \in MemLines(ts, n)
  BY Zenon DEF MemLines
<1> QED
  BY <1>1, <1>2, <1>3, Zenon

(* What the always block writes for one valid pipeline register. *)
LEMMA ValidFields ==
  ASSUME NEW r
  PROVE  /\ Valid(r).valid = TRUE /\ Valid(r).pc = r.pc
         /\ Valid(r).reg = r.reg /\ Valid(r).mem = r.mem
         /\ ~Bubble.valid
BY DEF Valid, Bubble

LEMMA OneLine ==
  ASSUME NEW B, NEW x \in B
  PROVE  <<x>> \in Seq(B) /\ <<>> \in Seq(B)
OBVIOUS

LEMMA LineInType ==
  ASSUME NEW r \in Retired, NEW n \in Nat
  PROVE  /\ PcLine(n, r) \in LineType
         /\ r.reg # None => RegLine(n, r) \in LineType
         /\ r.mem # None => MemLine(n, r) \in LineType
<1>1. r.pc \in Nat \cup {Unknown} /\ r.reg \in Optional /\ r.mem \in Optional
  BY DEF Retired
<1>2. /\ r.reg # None => r.reg[1] \in Nat /\ r.reg[2] \in Nat
      /\ r.mem # None => r.mem[1] \in Nat /\ r.mem[2] \in Nat
  BY <1>1, PairNotNone DEF Optional
<1> QED
  BY <1>1, <1>2 DEF LineType, PcLine, RegLine, MemLine

LEMMA MemPiece ==
  ASSUME NEW r \in Retired, NEW n \in Nat
  PROVE  /\ mem_lines(Valid(r), n) \in Seq(LineType)
         /\ LinesOf(mem_lines(Valid(r), n)) = IF r.mem = None THEN {} ELSE {MemLine(n, r)}
<1>1. CASE r.mem = None
  <2>1. mem_lines(Valid(r), n) = <<>>
    BY <1>1, ValidFields, Zenon DEF mem_lines
  <2>2. <<>> \in Seq(LineType)
    OBVIOUS
  <2> QED
    BY <1>1, <2>1, <2>2, LinesOfFew, Zenon
<1>2. CASE r.mem # None
  <2>1. mem_lines(Valid(r), n) = <<MemLine(n, r)>>
    BY <1>2, ValidFields, Zenon DEF mem_lines, MemLine
  <2>2. MemLine(n, r) \in LineType
    BY <1>2, LineInType, Zenon
  <2> QED
    BY <1>2, <2>1, <2>2, OneLine, LinesOfFew, Zenon
<1> QED
  BY <1>1, <1>2

LEMMA WbPiece ==
  ASSUME NEW r \in Retired, NEW n \in Nat
  PROVE  /\ wb_lines(Valid(r), n) \in Seq(LineType)
         /\ LinesOf(wb_lines(Valid(r), n))
              = {PcLine(n, r)} \cup (IF r.reg = None THEN {} ELSE {RegLine(n, r)})
<1>1. PcLine(n, r) \in LineType
  BY LineInType, Zenon
<1>2. <<PcLine(n, r)>> \in Seq(LineType) /\ <<>> \in Seq(LineType)
  BY <1>1, OneLine, Zenon
<1>3. CASE r.reg = None
  <2>1. wb_lines(Valid(r), n) = <<PcLine(n, r)>> \o <<>>
    BY <1>3, ValidFields, Zenon DEF wb_lines, PcLine
  <2>2. LinesOf(<<PcLine(n, r)>> \o <<>>) = LinesOf(<<PcLine(n, r)>>) \cup LinesOf(<<>>)
        /\ <<PcLine(n, r)>> \o <<>> \in Seq(LineType)
    BY <1>2, LinesOfJoin, ZenonT(60)
  <2>3. LinesOf(<<PcLine(n, r)>>) = {PcLine(n, r)} /\ LinesOf(<<>>) = {}
    BY LinesOfFew, Zenon
  <2> QED
    BY <1>3, <2>1, <2>2, <2>3, Zenon
<1>4. CASE r.reg # None
  <2>1. wb_lines(Valid(r), n) = <<PcLine(n, r)>> \o <<RegLine(n, r)>>
    BY <1>4, ValidFields, Zenon DEF wb_lines, PcLine, RegLine
  <2>2. RegLine(n, r) \in LineType
    BY <1>4, LineInType, Zenon
  <2>3. <<RegLine(n, r)>> \in Seq(LineType)
    BY <2>2, OneLine, Zenon
  <2>4. LinesOf(<<PcLine(n, r)>> \o <<RegLine(n, r)>>)
          = LinesOf(<<PcLine(n, r)>>) \cup LinesOf(<<RegLine(n, r)>>)
        /\ <<PcLine(n, r)>> \o <<RegLine(n, r)>> \in Seq(LineType)
    BY <1>2, <2>3, LinesOfJoin, Zenon
  <2>5. LinesOf(<<PcLine(n, r)>>) = {PcLine(n, r)} /\ LinesOf(<<RegLine(n, r)>>) = {RegLine(n, r)}
    BY LinesOfFew, Zenon
  <2> QED
    BY <1>4, <2>1, <2>4, <2>5, Zenon
<1> QED
  BY <1>3, <1>4

-----------------------------------------------------------------------------
(* The two pipeline registers and the two counters *)

Pipe(tr, w, m, ex, wb) ==
  /\ w \in Nat /\ m \in Nat
  /\ \/ ex = Bubble /\ Len(tr) = m
     \/ Len(tr) = m + 1 /\ ex = Valid(tr[m + 1])
  /\ \/ wb = Bubble /\ m = w
     \/ m = w + 1 /\ wb = Valid(tr[w + 1])

LEMMA MemEdge ==
  ASSUME NEW tr \in Seq(Retired), NEW w, NEW m, NEW ex, NEW wb, Pipe(tr, w, m, ex, wb)
  PROVE  /\ mem_lines(ex, m) \in Seq(LineType)
         /\ MemLines(tr, count(ex, m)) = MemLines(tr, m) \cup LinesOf(mem_lines(ex, m))
         /\ count(ex, m) = Len(tr)
         /\ \/ ex = Bubble /\ count(ex, m) = m
            \/ count(ex, m) = m + 1 /\ ex = Valid(tr[m + 1])
<1>1. CASE ex = Bubble /\ Len(tr) = m
  <2>1. mem_lines(ex, m) = <<>> /\ count(ex, m) = m
    BY <1>1, ValidFields, Zenon DEF mem_lines, count
  <2>2. <<>> \in Seq(LineType)
    OBVIOUS
  <2> QED
    BY <1>1, <2>1, <2>2, LinesOfFew, Zenon
<1>2. CASE Len(tr) = m + 1 /\ ex = Valid(tr[m + 1])
  <2>1. count(ex, m) = m + 1
    BY <1>2, ValidFields, Zenon DEF count
  <2>2. m \in Nat
    BY DEF Pipe
  <2>3. m + 1 \in 1 .. Len(tr)
    BY <1>2, <2>2
  <2>4. tr[m + 1] \in Retired
    BY <2>3, ElementType, Zenon
  <2>5. /\ mem_lines(ex, m) \in Seq(LineType)
        /\ LinesOf(mem_lines(ex, m)) = IF tr[m + 1].mem = None THEN {} ELSE {MemLine(m, tr[m + 1])}
    BY <1>2, <2>2, <2>4, MemPiece, Zenon
  <2>6. MemLines(tr, m + 1) = MemLines(tr, m) \cup
          (IF tr[m + 1].mem = None THEN {} ELSE {MemLine(m, tr[m + 1])})
    BY <2>2, MoreLines, Zenon
  <2> QED
    BY <1>2, <2>1, <2>5, <2>6, Zenon
<1> QED
  BY <1>1, <1>2 DEF Pipe

LEMMA WbEdge ==
  ASSUME NEW tr \in Seq(Retired), NEW w, NEW m, NEW ex, NEW wb, Pipe(tr, w, m, ex, wb)
  PROVE  /\ wb_lines(wb, w) \in Seq(LineType)
         /\ PcLines(tr, m) \cup RegLines(tr, m)
              = PcLines(tr, w) \cup RegLines(tr, w) \cup LinesOf(wb_lines(wb, w))
         /\ (IF wb.valid THEN w + 1 ELSE w) = m
         /\ w \in Nat /\ m \in Nat /\ Len(tr) \in Nat /\ w <= m /\ m <= Len(tr)
<1>1. w \in Nat /\ m \in Nat /\ Len(tr) \in Nat /\ w <= m /\ m <= Len(tr)
  BY DEF Pipe
<1>2. CASE wb = Bubble /\ m = w
  <2>1. wb_lines(wb, w) = <<>> /\ ~wb.valid
    BY <1>2, ValidFields, Zenon DEF wb_lines
  <2>2. <<>> \in Seq(LineType)
    OBVIOUS
  <2> QED
    BY <1>1, <1>2, <2>1, <2>2, LinesOfFew, Zenon
<1>3. CASE m = w + 1 /\ wb = Valid(tr[w + 1])
  <2>1. wb.valid = TRUE
    BY <1>3, ValidFields, Zenon
  <2>2. w + 1 \in 1 .. Len(tr)
    BY <1>1, <1>3
  <2>3. tr[w + 1] \in Retired
    BY <2>2, ElementType, Zenon
  <2>4. LinesOf(wb_lines(wb, w)) = {PcLine(w, tr[w + 1])} \cup
          (IF tr[w + 1].reg = None THEN {} ELSE {RegLine(w, tr[w + 1])})
        /\ wb_lines(wb, w) \in Seq(LineType)
    BY <1>1, <1>3, <2>3, WbPiece, Zenon
  <2>5. PcLines(tr, m) = PcLines(tr, w) \cup {PcLine(w, tr[w + 1])}
    BY <1>1, <1>3, MoreLines, Zenon
  <2>6. RegLines(tr, m) = RegLines(tr, w) \cup
          (IF tr[w + 1].reg = None THEN {} ELSE {RegLine(w, tr[w + 1])})
    BY <1>1, <1>3, MoreLines, Zenon
  <2> QED
    BY <1>1, <1>3, <2>1, <2>4, <2>5, <2>6, Zenon
<1> QED
  BY <1>2, <1>3 DEF Pipe

(* One clock edge logs one more MEM line set and one more PC and REG set. *)
LEMMA EdgeLogged ==
  ASSUME NEW tr \in Seq(Retired), NEW w, NEW m, NEW ex, NEW wb, Pipe(tr, w, m, ex, wb),
         NEW log, Logged(log, tr, w, m)
  PROVE  Logged(log \o mem_lines(ex, m) \o wb_lines(wb, w), tr, m, count(ex, m))
<1>1. /\ log \in Seq(LineType)
      /\ LinesOf(log) = PcLines(tr, w) \cup RegLines(tr, w) \cup MemLines(tr, m)
  BY DEF Logged
<1>2. /\ mem_lines(ex, m) \in Seq(LineType)
      /\ MemLines(tr, count(ex, m)) = MemLines(tr, m) \cup LinesOf(mem_lines(ex, m))
  BY MemEdge
<1>3. /\ wb_lines(wb, w) \in Seq(LineType)
      /\ PcLines(tr, m) \cup RegLines(tr, m)
           = PcLines(tr, w) \cup RegLines(tr, w) \cup LinesOf(wb_lines(wb, w))
  BY WbEdge
<1>4. ASSUME NEW a \in Seq(LineType), NEW b \in Seq(LineType)
      PROVE  /\ log \o a \o b \in Seq(LineType)
             /\ LinesOf(log \o a \o b) = LinesOf(log) \cup LinesOf(a) \cup LinesOf(b)
  <2>1. log \o a \in Seq(LineType) /\ LinesOf(log \o a) = LinesOf(log) \cup LinesOf(a)
    BY <1>1, LinesOfJoin, Zenon
  <2>2. PICK j : j = log \o a
    OBVIOUS
  <2>3. j \in Seq(LineType)
    BY <2>1, <2>2, Zenon
  <2>4. j \o b \in Seq(LineType) /\ LinesOf(j \o b) = LinesOf(j) \cup LinesOf(b)
    BY <2>3, LinesOfJoin, ZenonT(60)
  <2> QED
    BY <2>1, <2>2, <2>4, Zenon
<1>5. PICK joined : joined = log \o mem_lines(ex, m) \o wb_lines(wb, w)
  OBVIOUS
<1>6. /\ joined \in Seq(LineType)
      /\ LinesOf(joined) = LinesOf(log) \cup LinesOf(mem_lines(ex, m)) \cup LinesOf(wb_lines(wb, w))
  BY <1>2, <1>3, <1>4, <1>5, Zenon
<1>7. LinesOf(joined) = PcLines(tr, m) \cup RegLines(tr, m) \cup MemLines(tr, count(ex, m))
  BY <1>1, <1>2, <1>3, <1>6, Zenon
<1> QED
  BY <1>5, <1>6, <1>7, Zenon DEF Logged

-----------------------------------------------------------------------------
(* Reading commit_log.txt back *)

LEMMA MaxOf ==
  ASSUME NEW n \in Nat, NEW S, S \subseteq 0 .. n, S # {}
  PROVE  Max(S) \in S /\ \A y \in S : Max(S) >= y
<1> DEFINE T == {n - s : s \in S}
<1>1. T \subseteq Nat /\ T # {}
  <2>1. ASSUME NEW s \in S PROVE n - s \in Nat
    OBVIOUS
  <2>2. T \subseteq Nat
    BY <2>1
  <2>3. PICK s : s \in S
    OBVIOUS
  <2>4. n - s \in T
    BY <2>3
  <2> QED
    BY <2>2, <2>4
<1>2. PICK t \in T : \A y \in T : t <= y
  BY <1>1, LeastElement
<1>3. PICK x \in S : t = n - x
  BY <1>2
<1>4. ASSUME NEW y \in S PROVE x >= y
  <2>1. n - y \in T
    OBVIOUS
  <2>2. t <= n - y /\ x \in Nat /\ y \in Nat
    BY <1>2, <2>1
  <2> QED
    BY <1>3, <2>2
<1>5. \E e \in S : \A y \in S : e >= y
  BY <1>3, <1>4
<1> QED
  BY <1>5, Zenon DEF Max

LEMMA MinOf ==
  ASSUME NEW S, S \subseteq Nat, S # {}
  PROVE  Min(S) \in S /\ \A y \in S : Min(S) <= y
<1>1. \E e \in S : \A y \in S : e <= y
  BY LeastElement
<1> QED
  BY <1>1, Zenon DEF Min

(* A dictionary lookup finds a line of its kind and index, or there is none. *)
Finds(log, kind, i, line) ==
  line \in LinesOf(log) /\ line.kind = kind /\ recognized(line) /\ line.idx = i

LEMMA Lookup ==
  ASSUME NEW B, NEW log \in Seq(B), NEW kind \in {"PC", "REG", "MEM"}, NEW i
  PROVE  \/ by_idx(log, kind, i) = <<>> /\ \A line : ~Finds(log, kind, i, line)
         \/ \E line : /\ Finds(log, kind, i, line)
                      /\ kind = "PC" => by_idx(log, kind, i) = line.pc
                      /\ kind = "REG" => by_idx(log, kind, i) = <<line.rd, line.val>>
                      /\ kind = "MEM" => by_idx(log, kind, i) = <<line.addr, line.val>>
<1> DEFINE at == {k \in DOMAIN log : log[k].kind = kind /\ recognized(log[k]) /\ log[k].idx = i}
<1>1. Len(log) \in Nat /\ DOMAIN log = 1 .. Len(log)
  OBVIOUS
<1>2. CASE at = {}
  <2>1. by_idx(log, kind, i) = <<>>
    BY <1>2, Zenon DEF by_idx
  <2>2. ASSUME NEW line, Finds(log, kind, i, line) PROVE FALSE
    <3>1. PICK k \in 1 .. Len(log) : line = log[k]
      BY <2>2, Zenon DEF Finds, LinesOf
    <3>2. k \in at
      BY <1>1, <2>2, <3>1, Zenon DEF Finds
    <3> QED
      BY <1>2, <3>2
  <2> QED
    BY <2>1, <2>2
<1>3. CASE at # {}
  <2>1. at \subseteq 0 .. Len(log)
    BY <1>1
  <2>2. Max(at) \in at
    <3> HIDE DEF at
    <3> QED
      BY <1>1, <1>3, <2>1, MaxOf, Zenon
  <2>3. PICK line : line = log[Max(at)]
    OBVIOUS
  <2>4. Finds(log, kind, i, line)
    <3>1. PICK k : k = Max(at)
      OBVIOUS
    <3>2. k \in DOMAIN log /\ log[k].kind = kind /\ recognized(log[k]) /\ log[k].idx = i
      BY <2>2, <3>1, Zenon
    <3> QED
      BY <1>1, <2>3, <3>1, <3>2, Zenon DEF Finds, LinesOf
  <2>5. by_idx(log, kind, i) = CASE kind = "PC" -> line.pc
                                 [] kind = "REG" -> <<line.rd, line.val>>
                                 [] kind = "MEM" -> <<line.addr, line.val>>
    BY <1>3, <2>3, Zenon DEF by_idx
  <2>6. /\ kind = "PC" => by_idx(log, kind, i) = line.pc
        /\ kind = "REG" => by_idx(log, kind, i) = <<line.rd, line.val>>
        /\ kind = "MEM" => by_idx(log, kind, i) = <<line.addr, line.val>>
    BY <2>5
  <2> QED
    BY <2>4, <2>6
<1> QED
  BY <1>2, <1>3

LEMMA PcLineFields ==
  ASSUME NEW r \in Retired, NEW n \in Nat
  PROVE  /\ PcLine(n, r).kind = "PC" /\ PcLine(n, r).idx = n /\ PcLine(n, r).pc = r.pc
         /\ PC_RE(PcLine(n, r)) <=> r.pc # Unknown
         /\ recognized(PcLine(n, r)) <=> r.pc # Unknown
BY DEF PcLine, PC_RE, SV_REG_RE, SV_MEM_RE, recognized

LEMMA RegLineFields ==
  ASSUME NEW r \in Retired, NEW n \in Nat, r.reg # None
  PROVE  /\ RegLine(n, r).kind = "REG" /\ RegLine(n, r).idx = n
         /\ <<RegLine(n, r).rd, RegLine(n, r).val>> = r.reg
         /\ ~PC_RE(RegLine(n, r)) /\ recognized(RegLine(n, r))
<1>1. r.reg \in Pairs
  BY DEF Retired, Optional
<1>2. r.reg = <<r.reg[1], r.reg[2]>> /\ r.reg[1] \in Nat /\ r.reg[2] \in Nat
  BY <1>1, PairNotNone
<1>3. r.reg[2] # Unknown
  BY <1>2 DEF Unknown
<1>4. RegLine(n, r).kind = "REG" /\ RegLine(n, r).idx = n
      /\ RegLine(n, r).rd = r.reg[1] /\ RegLine(n, r).val = r.reg[2]
  BY DEF RegLine
<1>5. ~PC_RE(RegLine(n, r)) /\ recognized(RegLine(n, r))
  BY <1>3, <1>4 DEF PC_RE, SV_REG_RE, recognized
<1> QED
  BY <1>2, <1>4, <1>5, Zenon

LEMMA MemLineFields ==
  ASSUME NEW r \in Retired, NEW n \in Nat, r.mem # None
  PROVE  /\ MemLine(n, r).kind = "MEM" /\ MemLine(n, r).idx = n
         /\ <<MemLine(n, r).addr, MemLine(n, r).val>> = r.mem
         /\ ~PC_RE(MemLine(n, r)) /\ recognized(MemLine(n, r))
<1>1. r.mem \in Pairs
  BY DEF Retired, Optional
<1>2. r.mem = <<r.mem[1], r.mem[2]>> /\ r.mem[1] \in Nat /\ r.mem[2] \in Nat
  BY <1>1, PairNotNone
<1>3. r.mem[1] # Unknown /\ r.mem[2] # Unknown
  BY <1>2 DEF Unknown
<1>4. MemLine(n, r).kind = "MEM" /\ MemLine(n, r).idx = n
      /\ MemLine(n, r).addr = r.mem[1] /\ MemLine(n, r).val = r.mem[2]
  BY DEF MemLine
<1>5. ~PC_RE(MemLine(n, r)) /\ recognized(MemLine(n, r))
  BY <1>3, <1>4 DEF PC_RE, SV_MEM_RE, recognized
<1> QED
  BY <1>2, <1>4, <1>5, Zenon

(* A log of the first w instructions, the first u of which have a known pc. *)
LogReady(log, tr, w, m, u) ==
  /\ Logged(log, tr, w, m) /\ tr \in Seq(Retired)
  /\ w \in Nat /\ m \in Nat /\ u \in Nat /\ u <= w /\ w <= m /\ m <= Len(tr)
  /\ \A i \in 1 .. u : tr[i].pc # Unknown
  /\ \A i \in 1 .. w : u < i => tr[i].pc = Unknown

LEMMA LogLine ==
  ASSUME NEW log, NEW tr, NEW w, NEW m, NEW u, LogReady(log, tr, w, m, u),
         NEW line \in LinesOf(log)
  PROVE  \/ \E i \in 1 .. w : tr[i] \in Retired /\ line = PcLine(i - 1, tr[i])
         \/ \E i \in 1 .. w : tr[i] \in Retired /\ tr[i].reg # None /\ line = RegLine(i - 1, tr[i])
         \/ \E i \in 1 .. m : tr[i] \in Retired /\ tr[i].mem # None /\ line = MemLine(i - 1, tr[i])
<1>1. /\ tr \in Seq(Retired) /\ Len(tr) \in Nat
      /\ w \in Nat /\ m \in Nat /\ w <= m /\ m <= Len(tr)
  BY DEF LogReady
<1>2. ASSUME NEW i \in 1 .. m PROVE tr[i] \in Retired
  BY <1>1
<1>3. ASSUME NEW i \in 1 .. w PROVE tr[i] \in Retired
  BY <1>1
<1>4. line \in PcLines(tr, w) \cup RegLines(tr, w) \cup MemLines(tr, m)
  BY Zenon DEF LogReady, Logged
<1>5. CASE line \in PcLines(tr, w)
  BY <1>3, <1>5, Zenon DEF PcLines
<1>6. CASE line \in RegLines(tr, w)
  BY <1>3, <1>6, Zenon DEF RegLines
<1>7. CASE line \in MemLines(tr, m)
  BY <1>2, <1>7, Zenon DEF MemLines
<1> QED
  BY <1>4, <1>5, <1>6, <1>7, Zenon

LEMMA LogHas ==
  ASSUME NEW log, NEW tr, NEW w, NEW m, NEW u, LogReady(log, tr, w, m, u), NEW i \in 1 .. u
  PROVE  /\ tr[i] \in Retired /\ i \in 1 .. w /\ i \in 1 .. m /\ i - 1 \in Nat
         /\ PcLine(i - 1, tr[i]) \in LinesOf(log)
         /\ tr[i].reg # None => RegLine(i - 1, tr[i]) \in LinesOf(log)
         /\ tr[i].mem # None => MemLine(i - 1, tr[i]) \in LinesOf(log)
         /\ tr[i].pc # Unknown
<1>1. /\ tr \in Seq(Retired) /\ Len(tr) \in Nat
      /\ w \in Nat /\ m \in Nat /\ u \in Nat /\ u <= w /\ w <= m /\ m <= Len(tr)
  BY DEF LogReady
<1>2. i \in 1 .. w /\ i \in 1 .. m /\ i - 1 \in Nat /\ tr[i] \in Retired
  BY <1>1
<1>3. LinesOf(log) = PcLines(tr, w) \cup RegLines(tr, w) \cup MemLines(tr, m)
  BY Zenon DEF LogReady, Logged
<1>4. PcLine(i - 1, tr[i]) \in PcLines(tr, w)
  BY <1>2, Zenon DEF PcLines
<1>5. tr[i].reg # None => RegLine(i - 1, tr[i]) \in RegLines(tr, w)
  BY <1>2, Zenon DEF RegLines
<1>6. tr[i].mem # None => MemLine(i - 1, tr[i]) \in MemLines(tr, m)
  BY <1>2, Zenon DEF MemLines
<1>7. tr[i].pc # Unknown
  BY DEF LogReady
<1> QED
  BY <1>2, <1>3, <1>4, <1>5, <1>6, <1>7, Zenon

LEMMA LookupAll ==
  ASSUME NEW log, NEW tr, NEW w, NEW m, NEW u, LogReady(log, tr, w, m, u), NEW i \in 1 .. u
  PROVE  /\ by_idx(log, "PC", i - 1) = tr[i].pc
         /\ by_idx(log, "REG", i - 1) = tr[i].reg
         /\ by_idx(log, "MEM", i - 1) = tr[i].mem
<1>1. /\ tr[i] \in Retired /\ i \in 1 .. w /\ i \in 1 .. m /\ i - 1 \in Nat
      /\ PcLine(i - 1, tr[i]) \in LinesOf(log)
      /\ tr[i].reg # None => RegLine(i - 1, tr[i]) \in LinesOf(log)
      /\ tr[i].mem # None => MemLine(i - 1, tr[i]) \in LinesOf(log)
      /\ tr[i].pc # Unknown
  BY LogHas, Zenon
<1>2. log \in Seq(LineType)
  BY DEF LogReady, Logged
<1>3. w \in Nat /\ m \in Nat /\ i \in Nat
  BY DEF LogReady
<1>4. ASSUME NEW line, NEW kind, Finds(log, kind, i - 1, line)
      PROVE  \/ kind = "PC" /\ line = PcLine(i - 1, tr[i])
             \/ kind = "REG" /\ tr[i].reg # None /\ line = RegLine(i - 1, tr[i])
             \/ kind = "MEM" /\ tr[i].mem # None /\ line = MemLine(i - 1, tr[i])
  <2>1. line \in LinesOf(log) /\ line.kind = kind /\ line.idx = i - 1
    BY <1>4 DEF Finds
  <2>2. ASSUME NEW j \in 1 .. w, tr[j] \in Retired, line = PcLine(j - 1, tr[j])
        PROVE  kind = "PC" /\ j = i
    BY <1>3, <2>1, <2>2, PcLineFields
  <2>3. ASSUME NEW j \in 1 .. w, tr[j] \in Retired, tr[j].reg # None, line = RegLine(j - 1, tr[j])
        PROVE  kind = "REG" /\ j = i
    BY <1>3, <2>1, <2>3, RegLineFields
  <2>4. ASSUME NEW j \in 1 .. m, tr[j] \in Retired, tr[j].mem # None, line = MemLine(j - 1, tr[j])
        PROVE  kind = "MEM" /\ j = i
    BY <1>3, <2>1, <2>4, MemLineFields
  <2>5. CASE \E j \in 1 .. w : tr[j] \in Retired /\ line = PcLine(j - 1, tr[j])
    BY <2>2, <2>5, Zenon
  <2>6. CASE \E j \in 1 .. w : tr[j] \in Retired /\ tr[j].reg # None /\ line = RegLine(j - 1, tr[j])
    BY <2>3, <2>6, Zenon
  <2>7. CASE \E j \in 1 .. m : tr[j] \in Retired /\ tr[j].mem # None /\ line = MemLine(j - 1, tr[j])
    BY <2>4, <2>7, Zenon
  <2>8. \/ \E j \in 1 .. w : tr[j] \in Retired /\ line = PcLine(j - 1, tr[j])
        \/ \E j \in 1 .. w : tr[j] \in Retired /\ tr[j].reg # None /\ line = RegLine(j - 1, tr[j])
        \/ \E j \in 1 .. m : tr[j] \in Retired /\ tr[j].mem # None /\ line = MemLine(j - 1, tr[j])
    BY <2>1, LogLine
  <2> QED
    BY <2>5, <2>6, <2>7, <2>8
<1>5. "PC" \in {"PC", "REG", "MEM"} /\ "REG" \in {"PC", "REG", "MEM"} /\ "MEM" \in {"PC", "REG", "MEM"}
      /\ "PC" # "REG" /\ "PC" # "MEM" /\ "REG" # "MEM"
  OBVIOUS
<1>6. by_idx(log, "PC", i - 1) = tr[i].pc
  <2>1. Finds(log, "PC", i - 1, PcLine(i - 1, tr[i]))
    BY <1>1, PcLineFields, Zenon DEF Finds
  <2>2. PICK line : Finds(log, "PC", i - 1, line) /\ by_idx(log, "PC", i - 1) = line.pc
    BY <1>2, <1>5, <2>1, Lookup, Zenon
  <2>3. line = PcLine(i - 1, tr[i])
    BY <1>4, <1>5, <2>2, Zenon
  <2> QED
    BY <1>1, <2>2, <2>3, PcLineFields, Zenon
<1>7. by_idx(log, "REG", i - 1) = tr[i].reg
  <2>1. CASE tr[i].reg = None
    <3>1. \A line : ~Finds(log, "REG", i - 1, line)
      BY <1>4, <1>5, <2>1, Zenon
    <3>2. by_idx(log, "REG", i - 1) = <<>>
      BY <1>2, <1>5, <3>1, Lookup, Zenon
    <3> QED
      BY <2>1, <3>2, Zenon DEF None
  <2>2. CASE tr[i].reg # None
    <3>1. Finds(log, "REG", i - 1, RegLine(i - 1, tr[i]))
      BY <1>1, <2>2, RegLineFields, Zenon DEF Finds
    <3>2. PICK line : Finds(log, "REG", i - 1, line) /\ by_idx(log, "REG", i - 1) = <<line.rd, line.val>>
      BY <1>2, <1>5, <3>1, Lookup, Zenon
    <3>3. line = RegLine(i - 1, tr[i])
      BY <1>4, <1>5, <3>2, Zenon
    <3> QED
      BY <1>1, <2>2, <3>2, <3>3, RegLineFields, Zenon
  <2> QED
    BY <2>1, <2>2
<1>8. by_idx(log, "MEM", i - 1) = tr[i].mem
  <2>1. CASE tr[i].mem = None
    <3>1. \A line : ~Finds(log, "MEM", i - 1, line)
      BY <1>4, <1>5, <2>1, Zenon
    <3>2. by_idx(log, "MEM", i - 1) = <<>>
      BY <1>2, <1>5, <3>1, Lookup, Zenon
    <3> QED
      BY <2>1, <3>2, Zenon DEF None
  <2>2. CASE tr[i].mem # None
    <3>1. Finds(log, "MEM", i - 1, MemLine(i - 1, tr[i]))
      BY <1>1, <2>2, MemLineFields, Zenon DEF Finds
    <3>2. PICK line : Finds(log, "MEM", i - 1, line) /\ by_idx(log, "MEM", i - 1) = <<line.addr, line.val>>
      BY <1>2, <1>5, <3>1, Lookup, Zenon
    <3>3. line = MemLine(i - 1, tr[i])
      BY <1>4, <1>5, <3>2, Zenon
    <3> QED
      BY <1>1, <2>2, <3>2, <3>3, MemLineFields, Zenon
  <2> QED
    BY <2>1, <2>2
<1> QED
  BY <1>6, <1>7, <1>8

(* The indices of the PC lines are 0 to u - 1, already in order. *)
LEMMA PcIndices ==
  ASSUME NEW log, NEW tr, NEW w, NEW m, NEW u, LogReady(log, tr, w, m, u)
  PROVE  {log[k].idx : k \in {j \in DOMAIN log : PC_RE(log[j])}} = 0 .. u - 1
<1> DEFINE J == {j \in DOMAIN log : PC_RE(log[j])}
           I == {log[k].idx : k \in J}
<1>1. /\ w \in Nat /\ m \in Nat /\ u \in Nat /\ u <= w
      /\ \A i \in 1 .. w : u < i => tr[i].pc = Unknown
  BY DEF LogReady
<1>2. log \in Seq(LineType)
  BY DEF LogReady, Logged
<1>3. DOMAIN log = 1 .. Len(log)
  BY <1>2
<1>4. ASSUME NEW k \in J PROVE log[k].idx \in 0 .. u - 1
  <2>1. k \in 1 .. Len(log) /\ PC_RE(log[k])
    BY <1>3
  <2>2. PICK line : line = log[k]
    OBVIOUS
  <2>3. line \in LinesOf(log) /\ PC_RE(line)
    BY <2>1, <2>2, Zenon DEF LinesOf
  <2>4. CASE \E i \in 1 .. w : tr[i] \in Retired /\ line = PcLine(i - 1, tr[i])
    <3>1. PICK i \in 1 .. w : tr[i] \in Retired /\ line = PcLine(i - 1, tr[i])
      BY <2>4
    <3>2. i - 1 \in Nat
      BY <1>1, <3>1
    <3>3. line.idx = i - 1 /\ tr[i].pc # Unknown
      BY <2>3, <3>1, <3>2, PcLineFields, Zenon
    <3>4. i - 1 \in 0 .. u - 1
      BY <1>1, <3>1, <3>3
    <3> QED
      BY <2>2, <3>3, <3>4, Zenon
  <2>5. CASE \E i \in 1 .. w : tr[i] \in Retired /\ tr[i].reg # None /\ line = RegLine(i - 1, tr[i])
    <3>1. PICK i \in 1 .. w : tr[i] \in Retired /\ tr[i].reg # None /\ line = RegLine(i - 1, tr[i])
      BY <2>5
    <3>2. i - 1 \in Nat
      BY <1>1, <3>1
    <3> QED
      BY <2>3, <3>1, <3>2, RegLineFields, Zenon
  <2>6. CASE \E i \in 1 .. m : tr[i] \in Retired /\ tr[i].mem # None /\ line = MemLine(i - 1, tr[i])
    <3>1. PICK i \in 1 .. m : tr[i] \in Retired /\ tr[i].mem # None /\ line = MemLine(i - 1, tr[i])
      BY <2>6
    <3>2. i - 1 \in Nat
      BY <1>1, <3>1
    <3> QED
      BY <2>3, <3>1, <3>2, MemLineFields, Zenon
  <2>7. \/ \E i \in 1 .. w : tr[i] \in Retired /\ line = PcLine(i - 1, tr[i])
        \/ \E i \in 1 .. w : tr[i] \in Retired /\ tr[i].reg # None /\ line = RegLine(i - 1, tr[i])
        \/ \E i \in 1 .. m : tr[i] \in Retired /\ tr[i].mem # None /\ line = MemLine(i - 1, tr[i])
    BY <2>3, LogLine
  <2> QED
    BY <2>4, <2>5, <2>6, <2>7
<1>5. ASSUME NEW n \in 0 .. u - 1 PROVE n \in I
  <2>1. PICK i : i = n + 1
    OBVIOUS
  <2>2. i \in 1 .. u /\ i - 1 = n /\ n \in Nat
    BY <1>1, <2>1
  <2>3. tr[i] \in Retired /\ PcLine(n, tr[i]) \in LinesOf(log) /\ tr[i].pc # Unknown
    BY <2>2, LogHas, Zenon
  <2>4. PICK k \in 1 .. Len(log) : log[k] = PcLine(n, tr[i])
    BY <2>3, Zenon DEF LinesOf
  <2>5. PC_RE(log[k]) /\ log[k].idx = n
    <3>1. PC_RE(PcLine(n, tr[i])) /\ PcLine(n, tr[i]).idx = n
      BY <2>2, <2>3, PcLineFields
    <3> QED
      BY <2>4, <3>1, Zenon
  <2>6. k \in J
    BY <1>3, <2>4, <2>5, Zenon
  <2> QED
    BY <2>5, <2>6, Zenon
<1>6. ASSUME NEW n \in I PROVE n \in 0 .. u - 1
  BY <1>4, <1>6, Zenon
<1> HIDE DEF I
<1>7. I = 0 .. u - 1
  BY <1>5, <1>6, Zenon
<1> QED
  BY <1>7, Zenon DEF I

LEMMA SortedInterval ==
  ASSUME NEW u \in Nat
  PROVE  /\ DOMAIN sorted(0 .. u - 1) = 1 .. u
         /\ \A k \in 1 .. u : sorted(0 .. u - 1)[k] = k - 1
<1> DEFINE S == 0 .. u - 1
<1>1. ASSUME NEW a \in Nat PROVE Cardinality(0 .. a - 1) = a
  <2>1. 0 \in Int /\ a - 1 \in Int
    OBVIOUS
  <2>2. Cardinality(0 .. a - 1) = IF 0 > a - 1 THEN 0 ELSE a - 1 - 0 + 1
    BY <2>1, FS_Interval, Zenon
  <2> QED
    BY <2>2
<1>2. ASSUME NEW e \in S PROVE Cardinality({d \in S : d < e}) = e /\ e \in Nat
  <2>1. {d \in S : d < e} = 0 .. e - 1 /\ e \in Nat
    OBVIOUS
  <2> QED
    BY <1>1, <2>1, Zenon
<1>3. ASSUME NEW k \in 1 .. u
      PROVE  (CHOOSE e \in S : Cardinality({d \in S : d < e}) = k - 1) = k - 1
  <2>1. PICK n : n = k - 1
    OBVIOUS
  <2>2. n \in S
    BY <2>1
  <2> HIDE DEF S
  <2>3. Cardinality({d \in S : d < n}) = n
    BY <1>2, <2>2, Zenon
  <2>4. ASSUME NEW e \in S, Cardinality({d \in S : d < e}) = n PROVE e = n
    BY <1>2, <2>4, Zenon
  <2>5. (CHOOSE e \in S : Cardinality({d \in S : d < e}) = n) = n
    BY <2>2, <2>3, <2>4, Zenon
  <2> QED
    BY <2>1, <2>5, Zenon
<1>4. Cardinality(S) = u
  BY <1>1
<1> HIDE DEF S
<1>5. sorted(S) = [k \in 1 .. u |-> CHOOSE e \in S : Cardinality({d \in S : d < e}) = k - 1]
  BY <1>4, Zenon DEF sorted
<1>6. DOMAIN sorted(S) = 1 .. u
  BY <1>5, Zenon
<1>7. ASSUME NEW k \in 1 .. u PROVE sorted(S)[k] = k - 1
  BY <1>3, <1>5, Zenon
<1> QED
  BY <1>6, <1>7, Zenon DEF S

(* What parse_sv_log makes of the log. *)
Recovered(records, tr, u) ==
  /\ DOMAIN records = 1 .. u /\ Len(records) = u
  /\ \A i \in 1 .. u : records[i].pc = tr[i].pc /\ records[i].reg = tr[i].reg
                                             /\ records[i].mem = tr[i].mem

LEMMA ParseSv ==
  ASSUME NEW log, NEW tr, NEW w, NEW m, NEW u, LogReady(log, tr, w, m, u)
  PROVE  Recovered(parse_sv_log(log).records, tr, u)
<1>1. u \in Nat
  BY DEF LogReady
<1> DEFINE I == {log[k].idx : k \in {j \in DOMAIN log : PC_RE(log[j])}}
           idxs == sorted(I)
           record(k) == [idx |-> idxs[k], pc |-> by_idx(log, "PC", idxs[k]),
                         reg |-> by_idx(log, "REG", idxs[k]), mem |-> by_idx(log, "MEM", idxs[k])]
           records == [k \in DOMAIN idxs |-> record(k)]
<1>2. I = 0 .. u - 1
  BY PcIndices, Zenon
<1>3. DOMAIN idxs = 1 .. u
  BY <1>1, <1>2, SortedInterval, Zenon
<1>4. ASSUME NEW k \in 1 .. u PROVE idxs[k] = k - 1
  BY <1>1, <1>2, SortedInterval, Zenon
<1>5. parse_sv_log(log).records = records
  <2>1. parse_sv_log(log) = [records |-> records,
          unrecognized |-> Cardinality({k \in DOMAIN log : ~recognized(log[k])})]
    BY Zenon DEF parse_sv_log
  <2> HIDE DEF records
  <2> QED
    BY <2>1
<1> HIDE DEF idxs
<1>6. ASSUME NEW k \in 1 .. u
      PROVE  record(k).pc = tr[k].pc /\ record(k).reg = tr[k].reg /\ record(k).mem = tr[k].mem
  <2>1. record(k).pc = by_idx(log, "PC", k - 1) /\ record(k).reg = by_idx(log, "REG", k - 1)
        /\ record(k).mem = by_idx(log, "MEM", k - 1)
    BY <1>4
  <2>2. by_idx(log, "PC", k - 1) = tr[k].pc /\ by_idx(log, "REG", k - 1) = tr[k].reg
        /\ by_idx(log, "MEM", k - 1) = tr[k].mem
    BY LookupAll
  <2> HIDE DEF record
  <2> QED
    BY <2>1, <2>2, Zenon
<1> HIDE DEF record
<1>7. DOMAIN records = 1 .. u /\ \A k \in 1 .. u : records[k] = record(k)
  BY <1>3, Zenon
<1>8. Len(records) = u
  <2>1. records = [k \in 1 .. u |-> record(k)]
    BY <1>3, Zenon
  <2> HIDE DEF records
  <2> QED
    BY <1>1, <2>1
<1> HIDE DEF records
<1> QED
  BY <1>5, <1>6, <1>7, <1>8, Zenon DEF Recovered

-----------------------------------------------------------------------------
(* The steps of the pipeline and its log *)

LEMMA CycleBubble ==
  ASSUME NEW tr \in Seq(Retired), NEW w, NEW m, NEW ex, NEW wb, Pipe(tr, w, m, ex, wb)
  PROVE  Pipe(tr, m, count(ex, m), Bubble, ex)
<1>1. /\ count(ex, m) = Len(tr)
      /\ \/ ex = Bubble /\ count(ex, m) = m
         \/ count(ex, m) = m + 1 /\ ex = Valid(tr[m + 1])
  BY MemEdge
<1>2. m \in Nat /\ Len(tr) \in Nat
  BY WbEdge
<1> QED
  BY <1>1, <1>2, Zenon DEF Pipe

LEMMA AppendTo ==
  ASSUME NEW B, NEW s \in Seq(B), NEW x \in B
  PROVE  /\ Append(s, x) \in Seq(B) /\ Len(Append(s, x)) = Len(s) + 1 /\ Len(s) \in Nat
         /\ \A k \in 1 .. Len(s) : Append(s, x)[k] = s[k]
         /\ Append(s, x)[Len(s) + 1] = x
OBVIOUS

LEMMA CycleEnter ==
  ASSUME NEW tr \in Seq(Retired), NEW w, NEW m, NEW ex, NEW wb, Pipe(tr, w, m, ex, wb),
         NEW r \in Retired
  PROVE  Pipe(Append(tr, r), m, count(ex, m), Valid(r), ex)
<1>1. /\ count(ex, m) = Len(tr)
      /\ \/ ex = Bubble /\ count(ex, m) = m
         \/ count(ex, m) = m + 1 /\ ex = Valid(tr[m + 1])
  BY MemEdge
<1>2. m \in Nat /\ Len(tr) \in Nat
  BY WbEdge
<1>3. PICK ts : ts = Append(tr, r)
  OBVIOUS
<1>4. /\ Len(ts) = Len(tr) + 1 /\ ts[Len(tr) + 1] = r
      /\ \A k \in 1 .. Len(tr) : ts[k] = tr[k]
  BY <1>3, AppendTo
<1>5. count(ex, m) = m + 1 => m + 1 \in 1 .. Len(tr)
  BY <1>1, <1>2
<1>6. \/ ex = Bubble /\ count(ex, m) = m
      \/ count(ex, m) = m + 1 /\ ex = Valid(ts[m + 1])
  BY <1>1, <1>4, <1>5, Zenon
<1>7. Pipe(ts, m, count(ex, m), Valid(r), ex)
  BY <1>1, <1>2, <1>4, <1>6, Zenon DEF Pipe
<1> QED
  BY <1>3, <1>7, Zenon

LEMMA LogOfLonger ==
  ASSUME NEW tr \in Seq(Retired), NEW r \in Retired, NEW log, NEW w \in Nat, NEW m \in Nat,
         w <= m, m <= Len(tr), Logged(log, tr, w, m)
  PROVE  Logged(log, Append(tr, r), w, m)
<1>1. PICK ts : ts = Append(tr, r)
  OBVIOUS
<1>2. Len(tr) \in Nat /\ \A k \in 1 .. Len(tr) : ts[k] = tr[k]
  BY <1>1, AppendTo
<1>3. (\A k \in 1 .. w : ts[k] = tr[k]) /\ (\A k \in 1 .. m : ts[k] = tr[k])
  BY <1>2
<1>4. /\ PcLines(ts, w) = PcLines(tr, w) /\ RegLines(ts, w) = RegLines(tr, w)
      /\ MemLines(ts, m) = MemLines(tr, m)
  BY <1>3, SameLines, Zenon
<1> QED
  BY <1>1, <1>4, Zenon DEF Logged

(* Unknown pcs come from one fault and never stop. *)
UnknownTail(tr, f) ==
  \A i \in 1 .. Len(tr) :
    tr[i].pc = Unknown => f = "unknown_pc" /\ \A j \in i .. Len(tr) : tr[j].pc = Unknown

LEMMA UnknownEnter ==
  ASSUME NEW tr \in Seq(Retired), NEW r \in Retired, NEW f, NEW g, UnknownTail(tr, f),
         f = "unknown_pc" => g = "unknown_pc",
         r.pc = Unknown <=> g = "unknown_pc"
  PROVE  UnknownTail(Append(tr, r), g)
<1>1. PICK ts : ts = Append(tr, r)
  OBVIOUS
<1>2. /\ Len(ts) = Len(tr) + 1 /\ ts[Len(tr) + 1] = r /\ Len(tr) \in Nat
      /\ \A k \in 1 .. Len(tr) : ts[k] = tr[k]
  BY <1>1, AppendTo
<1>3. ASSUME NEW i \in 1 .. Len(ts), ts[i].pc = Unknown
      PROVE  g = "unknown_pc" /\ \A j \in i .. Len(ts) : ts[j].pc = Unknown
  <2>1. CASE i \in 1 .. Len(tr)
    <3>1. tr[i].pc = Unknown
      BY <1>2, <1>3, <2>1, Zenon
    <3>2. f = "unknown_pc" /\ \A j \in i .. Len(tr) : tr[j].pc = Unknown
      BY <2>1, <3>1, Zenon DEF UnknownTail
    <3>3. ASSUME NEW j \in i .. Len(ts) PROVE ts[j].pc = Unknown
      <4>1. CASE j = Len(tr) + 1
        BY <1>2, <3>2, <4>1, Zenon
      <4>2. CASE j # Len(tr) + 1
        <5>1. j \in i .. Len(tr) /\ j \in 1 .. Len(tr)
          BY <1>2, <2>1, <4>2
        <5> QED
          BY <1>2, <3>2, <5>1, Zenon
      <4> QED
        BY <4>1, <4>2
    <3> QED
      BY <3>2, <3>3, Zenon
  <2>2. CASE i = Len(tr) + 1
    <3>1. r.pc = Unknown
      BY <1>2, <1>3, <2>2, Zenon
    <3>2. \A j \in i .. Len(ts) : j = i
      BY <1>2, <2>2
    <3> QED
      BY <1>3, <3>1, <3>2, Zenon
  <2> QED
    BY <1>2, <2>1, <2>2
<1>4. UnknownTail(ts, g)
  BY <1>3, Zenon DEF UnknownTail
<1> QED
  BY <1>1, <1>4, Zenon

LEMMA UnknownKept ==
  ASSUME NEW tr, NEW f, NEW g, UnknownTail(tr, f), f = "unknown_pc" => g = "unknown_pc"
  PROVE  UnknownTail(tr, g)
BY Zenon DEF UnknownTail

(* The known pcs are the first u of the first w. *)
KnownUpTo(tr, f, w, u) ==
  /\ u <= w
  /\ f # "unknown_pc" => u = w
  /\ \A i \in 1 .. u : tr[i].pc # Unknown
  /\ \A i \in 1 .. w : u < i => tr[i].pc = Unknown

LEMMA KnownPrefix ==
  ASSUME NEW tr \in Seq(Retired), NEW f, UnknownTail(tr, f), NEW w \in Nat, w <= Len(tr)
  PROVE  \E u \in Nat : KnownUpTo(tr, f, w, u)
<1> DEFINE T == {j \in Nat : j >= w \/ tr[j + 1].pc = Unknown}
<1>1. w \in T /\ T \subseteq Nat
  OBVIOUS
<1>2. PICK u \in T : \A y \in T : u <= y
  BY <1>1, LeastElement
<1>3. u \in Nat /\ u <= w /\ Len(tr) \in Nat
  BY <1>1, <1>2
<1>4. ASSUME NEW i \in 1 .. u PROVE tr[i].pc # Unknown
  <2>1. PICK y : y = i - 1
    OBVIOUS
  <2>2. y \in Nat /\ y < u /\ y + 1 = i
    BY <1>3, <2>1
  <2>3. y \notin T
    BY <1>2, <1>3, <2>2
  <2> QED
    BY <2>2, <2>3
<1>5. ASSUME NEW i \in 1 .. w, u < i PROVE tr[i].pc = Unknown /\ f = "unknown_pc"
  <2>1. u < w /\ tr[u + 1].pc = Unknown
    BY <1>2, <1>3, <1>5
  <2>2. PICK v : v = u + 1
    OBVIOUS
  <2>3. v \in 1 .. Len(tr) /\ tr[v].pc = Unknown /\ i \in v .. Len(tr)
    BY <1>3, <1>5, <2>1, <2>2
  <2> QED
    BY <2>3, Zenon DEF UnknownTail
<1>6. f # "unknown_pc" => u = w
  <2>1. ASSUME u # w PROVE f = "unknown_pc"
    <3>1. w \in 1 .. w /\ u < w
      BY <1>3, <2>1
    <3> QED
      BY <1>5, <3>1
  <2> QED
    BY <2>1
<1> QED
  BY <1>3, <1>4, <1>5, <1>6, Zenon DEF KnownUpTo

-----------------------------------------------------------------------------
(* The inductive invariant of the core's side *)

Known == [pc : Nat, reg : Optional, mem : Optional]
Phases == {"spike", "sv", "compare"}

SpikeType ==
  /\ phase \in Phases /\ program \in Programs
  /\ pc \in 0 .. Len(program) /\ trace \in Seq(Known)

CoreType ==
  /\ fed \in Nat /\ fault \in FaultKinds \cup {"none"} /\ sv_trace \in Seq(Retired)
  /\ UnknownTail(sv_trace, fault)

LogInv ==
  /\ Logged(sv_log, sv_trace, wb_commit_idx, mem_commit_idx)
  /\ phase # "compare" => Pipe(sv_trace, wb_commit_idx, mem_commit_idx, ex_mem, mem_wb)
  /\ phase = "compare" => /\ wb_commit_idx \in Nat /\ mem_commit_idx \in Nat
                          /\ MAX_RETIRE <= wb_commit_idx
                          /\ wb_commit_idx <= mem_commit_idx
                          /\ mem_commit_idx <= Len(sv_trace)

CommitInv == SpikeType /\ CoreType /\ LogInv

LEMMA KnownRetired ==
  /\ Known \subseteq Retired
  /\ \A r \in Known : r.pc # Unknown
BY DEF Known, Retired, Unknown

LEMMA ProgramLength ==
  ASSUME program \in Programs
  PROVE  Len(program) \in Nat /\ 0 < Len(program) /\ Len(program) < BASE_OFFSET
<1>1. WellFormed(program)
  BY ProgramsAssumption, Zenon
<1>2. 0 < Len(program) /\ Len(program) < BASE_OFFSET
  BY <1>1, Zenon DEF WellFormed
<1>3. PICK B : program \in Seq(B)
  BY <1>1, Zenon DEF WellFormed
<1> QED
  BY <1>2, <1>3

LEMMA DueType ==
  ASSUME SpikeType, fed \in Nat
  PROVE  Due \in Known
<1>1. CASE fed < Len(trace)
  <2>1. fed + 1 \in 1 .. Len(trace)
    BY <1>1 DEF SpikeType
  <2>2. trace[fed + 1] \in Known
    BY <2>1, ElementType, Zenon DEF SpikeType
  <2> QED
    BY <1>1, <2>2, Zenon DEF Due
<1>2. CASE ~(fed < Len(trace))
  <2>1. Due = Retires(Len(program), None, None)
    BY <1>2, Zenon DEF Due
  <2>2. Len(program) - 1 \in Nat /\ None \in Optional
    BY ProgramLength DEF SpikeType, Optional
  <2>3. [pc |-> Len(program) - 1, reg |-> None, mem |-> None] \in Known
    BY <2>2 DEF Known
  <2> QED
    BY <2>1, <2>3, Zenon DEF Retires
<1> QED
  BY <1>1, <1>2

(* What one cycle feeds into the MEM stage. *)
Fed(r) == /\ ex_mem' = Valid(r) /\ sv_trace' = Append(sv_trace, r)
          /\ r.pc = Unknown <=> fault' = "unknown_pc"
FedNothing == ex_mem' = Bubble /\ sv_trace' = sv_trace

LEMMA FeedOutcome ==
  ASSUME SpikeType, CoreType, FeedInstruction \/ FeedBubble \/ FeedFault
  PROVE  /\ fed' \in Nat /\ fault' \in FaultKinds \cup {"none"}
         /\ fault = "unknown_pc" => fault' = "unknown_pc"
         /\ FedNothing \/ \E r \in Retired : Fed(r)
<1>1. fed \in Nat /\ fault \in FaultKinds \cup {"none"} /\ Due \in Known
  BY DueType DEF CoreType
<1>2. Due \in Retired /\ Due.pc # Unknown
  BY <1>1, KnownRetired, Zenon
<1>3. fed + 1 \in Nat
  BY <1>1
<1>4. CASE FeedInstruction
  <2>1. fed' = fed + 1 /\ fault' = fault
    BY <1>4 DEF FeedInstruction
  <2>2. CASE fault = "unknown_pc"
    <3>1. "unknown_pc" \in FaultKinds
      BY DEF FaultKinds
    <3>2. Faulty(Due, fault) \in Retired /\ Faulty(Due, fault).pc = Unknown
      BY <1>2, <2>2, <3>1, FaultyType, Zenon
    <3>3. Enter(Faulty(Due, fault))
      BY <1>4, <2>2, Zenon DEF FeedInstruction
    <3>4. Fed(Faulty(Due, fault))
      BY <2>1, <2>2, <3>2, <3>3, Zenon DEF Fed, Enter
    <3> QED
      BY <1>1, <1>3, <2>1, <3>2, <3>4, Zenon
  <2>3. CASE fault # "unknown_pc"
    <3>1. Enter(Due)
      BY <1>4, <2>3, Zenon DEF FeedInstruction
    <3>2. Fed(Due)
      BY <1>2, <2>1, <2>3, <3>1, Zenon DEF Fed, Enter
    <3> QED
      BY <1>1, <1>2, <1>3, <2>1, <3>2, Zenon
  <2> QED
    BY <2>2, <2>3
<1>5. CASE FeedBubble
  BY <1>1, <1>5 DEF FeedBubble, FedNothing
<1>6. CASE FeedFault
  <2>1. PICK f \in Faults :
          /\ Possible(Due, f) /\ fault' = f
          /\ IF f = "dropped" THEN ex_mem' = Bubble /\ UNCHANGED sv_trace
             ELSE Enter(Faulty(Due, f))
          /\ fed' = IF f = "repeated" THEN fed ELSE fed + 1
    BY <1>6 DEF FeedFault
  <2>2. f \in FaultKinds /\ fault = "none"
    BY <1>6, CosimAssumption DEF FeedFault
  <2>3. fed' \in Nat /\ fault' \in FaultKinds \cup {"none"}
    BY <1>1, <1>3, <2>1, <2>2, Zenon
  <2>4. CASE f = "dropped"
    BY <2>1, <2>2, <2>3, <2>4 DEF FedNothing
  <2>5. CASE f # "dropped"
    <3>1. /\ Faulty(Due, f) \in Retired
          /\ f = "unknown_pc" => Faulty(Due, f).pc = Unknown
          /\ f # "unknown_pc" => Faulty(Due, f).pc = Due.pc
      BY <1>2, <2>1, <2>2, FaultyType, Zenon
    <3>2. Fed(Faulty(Due, f))
      BY <1>2, <2>1, <2>5, <3>1, Zenon DEF Fed, Enter
    <3>3. fault # "unknown_pc"
      BY <2>2
    <3> QED
      BY <2>3, <3>1, <3>2, <3>3, Zenon
  <2> QED
    BY <2>4, <2>5
<1> QED
  BY <1>4, <1>5, <1>6

LEMMA SvCycleStep ==
  ASSUME CommitInv, SvCycle
  PROVE  CommitInv'
<1>1. SpikeType /\ CoreType /\ LogInv
  BY DEF CommitInv
<1>2. /\ phase = "sv" /\ phase' = phase /\ program' = program /\ pc' = pc /\ trace' = trace
      /\ LogEdge /\ mem_wb' = ex_mem
      /\ FeedInstruction \/ FeedBubble \/ FeedFault
  BY DEF SvCycle, spike_vars
<1>3. /\ fed' \in Nat /\ fault' \in FaultKinds \cup {"none"}
      /\ fault = "unknown_pc" => fault' = "unknown_pc"
      /\ FedNothing \/ \E r \in Retired : Fed(r)
  BY <1>1, <1>2, FeedOutcome
<1>4. /\ Pipe(sv_trace, wb_commit_idx, mem_commit_idx, ex_mem, mem_wb)
      /\ Logged(sv_log, sv_trace, wb_commit_idx, mem_commit_idx)
      /\ sv_trace \in Seq(Retired) /\ UnknownTail(sv_trace, fault)
  BY <1>1, <1>2 DEF LogInv, CoreType
<1>5. /\ wb_commit_idx' = mem_commit_idx /\ mem_commit_idx' = count(ex_mem, mem_commit_idx)
      /\ sv_log' = sv_log \o mem_lines(ex_mem, mem_commit_idx) \o wb_lines(mem_wb, wb_commit_idx)
  <2>1. (IF mem_wb.valid THEN wb_commit_idx + 1 ELSE wb_commit_idx) = mem_commit_idx
    BY <1>4, WbEdge
  <2> QED
    BY <1>2, <2>1, Zenon DEF LogEdge
<1>6. Logged(sv_log', sv_trace, wb_commit_idx', mem_commit_idx')
  BY <1>4, <1>5, EdgeLogged
<1>7. /\ mem_commit_idx \in Nat /\ Len(sv_trace) \in Nat /\ mem_commit_idx <= Len(sv_trace)
      /\ count(ex_mem, mem_commit_idx) = Len(sv_trace)
  BY <1>4, WbEdge, MemEdge
<1>8. SpikeType'
  BY <1>1, <1>2 DEF SpikeType
<1>9. phase' # "compare"
  BY <1>2
<1>10. CASE FedNothing
  <2>1. Pipe(sv_trace', wb_commit_idx', mem_commit_idx', ex_mem', mem_wb')
    <3>1. Pipe(sv_trace, mem_commit_idx, count(ex_mem, mem_commit_idx), Bubble, ex_mem)
      BY <1>4, CycleBubble
    <3> QED
      BY <1>2, <1>5, <1>10, <3>1, Zenon DEF FedNothing
  <2>2. UnknownTail(sv_trace', fault') /\ sv_trace' \in Seq(Retired)
    BY <1>3, <1>4, <1>10, UnknownKept DEF FedNothing
  <2>3. Logged(sv_log', sv_trace', wb_commit_idx', mem_commit_idx')
    BY <1>6, <1>10 DEF FedNothing
  <2> QED
    BY <1>3, <1>8, <1>9, <2>1, <2>2, <2>3, Zenon DEF CommitInv, CoreType, LogInv
<1>11. ASSUME NEW r \in Retired, Fed(r) PROVE CommitInv'
  <2>1. Pipe(sv_trace', wb_commit_idx', mem_commit_idx', ex_mem', mem_wb')
    <3>1. Pipe(Append(sv_trace, r), mem_commit_idx, count(ex_mem, mem_commit_idx), Valid(r), ex_mem)
      BY <1>4, CycleEnter
    <3> QED
      BY <1>2, <1>5, <1>11, <3>1, Zenon DEF Fed
  <2>2. UnknownTail(sv_trace', fault')
    BY <1>3, <1>4, <1>11, UnknownEnter DEF Fed
  <2>3. sv_trace' \in Seq(Retired)
    BY <1>4, <1>11, AppendTo DEF Fed
  <2>4. Logged(sv_log', sv_trace', wb_commit_idx', mem_commit_idx')
    BY <1>4, <1>5, <1>6, <1>7, <1>11, LogOfLonger DEF Fed
  <2> QED
    BY <1>3, <1>8, <1>9, <2>1, <2>2, <2>3, <2>4, Zenon DEF CommitInv, CoreType, LogInv
<1> QED
  BY <1>3, <1>10, <1>11

LEMMA SvDoneStep ==
  ASSUME CommitInv, SvDone
  PROVE  CommitInv'
<1>1. SpikeType /\ CoreType /\ LogInv
  BY DEF CommitInv
<1>2. /\ phase = "sv" /\ phase' = "compare" /\ program' = program /\ pc' = pc /\ trace' = trace
      /\ fed' = fed /\ fault' = fault /\ sv_trace' = sv_trace
      /\ wb_commit_idx >= MAX_RETIRE
      /\ LogEdge \/ UNCHANGED <<sv_log, mem_commit_idx, wb_commit_idx>>
  BY DEF SvDone, spike_vars, feed_vars
<1>3. /\ Pipe(sv_trace, wb_commit_idx, mem_commit_idx, ex_mem, mem_wb)
      /\ Logged(sv_log, sv_trace, wb_commit_idx, mem_commit_idx)
      /\ sv_trace \in Seq(Retired)
  BY <1>1, <1>2 DEF LogInv, CoreType
<1>4. /\ (IF mem_wb.valid THEN wb_commit_idx + 1 ELSE wb_commit_idx) = mem_commit_idx
      /\ wb_commit_idx \in Nat /\ mem_commit_idx \in Nat /\ Len(sv_trace) \in Nat
      /\ wb_commit_idx <= mem_commit_idx /\ mem_commit_idx <= Len(sv_trace)
  BY <1>3, WbEdge
<1>5. count(ex_mem, mem_commit_idx) = Len(sv_trace)
  BY <1>3, MemEdge
<1>6. Logged(sv_log \o mem_lines(ex_mem, mem_commit_idx) \o wb_lines(mem_wb, wb_commit_idx),
             sv_trace, mem_commit_idx, count(ex_mem, mem_commit_idx))
  BY <1>3, EdgeLogged
<1>7. SpikeType' /\ CoreType'
  BY <1>1, <1>2, Zenon DEF SpikeType, CoreType, Phases
<1>8. CASE LogEdge
  <2>1. Logged(sv_log', sv_trace', wb_commit_idx', mem_commit_idx')
        /\ wb_commit_idx' = mem_commit_idx /\ mem_commit_idx' = Len(sv_trace)
    BY <1>2, <1>4, <1>5, <1>6, <1>8, Zenon DEF LogEdge
  <2>2. MAX_RETIRE <= mem_commit_idx /\ Len(sv_trace) <= Len(sv_trace)
    BY <1>2, <1>4, CosimAssumption
  <2>3. LogInv'
    BY <1>2, <1>4, <2>1, <2>2, Zenon DEF LogInv
  <2> QED
    BY <1>7, <2>3 DEF CommitInv
<1>9. CASE UNCHANGED <<sv_log, mem_commit_idx, wb_commit_idx>>
  <2>1. MAX_RETIRE <= wb_commit_idx
    BY <1>2, <1>4, CosimAssumption
  <2>2. sv_log' = sv_log /\ mem_commit_idx' = mem_commit_idx /\ wb_commit_idx' = wb_commit_idx
    BY <1>9
  <2>3. LogInv'
    BY <1>2, <1>3, <1>4, <2>1, <2>2, Zenon DEF LogInv
  <2> QED
    BY <1>7, <2>3 DEF CommitInv
<1> QED
  BY <1>2, <1>8, <1>9

LEMMA SpikeSideStep ==
  ASSUME CommitInv, SpikeBoot \/ SpikeStep \/ SpikeDone
  PROVE  CommitInv'
<1>1. SpikeType /\ CoreType /\ LogInv
  BY DEF CommitInv
<1>2. /\ phase = "spike" /\ phase' \in {"spike", "sv"} /\ program' = program
      /\ fed' = fed /\ fault' = fault /\ sv_trace' = sv_trace
      /\ ex_mem' = ex_mem /\ mem_wb' = mem_wb /\ sv_log' = sv_log
      /\ mem_commit_idx' = mem_commit_idx /\ wb_commit_idx' = wb_commit_idx
  BY DEF SpikeBoot, SpikeStep, SpikeDone, feed_vars, tb_vars
<1>3. phase # "compare" /\ phase' # "compare" /\ phase' \in Phases
  BY <1>2 DEF Phases
<1>4. CoreType' /\ LogInv'
  BY <1>1, <1>2, <1>3, Zenon DEF CoreType, LogInv
<1>5. program \in Programs /\ pc \in 0 .. Len(program) /\ trace \in Seq(Known)
      /\ Len(program) \in Nat /\ 0 < Len(program)
  BY <1>1, ProgramLength DEF SpikeType
<1>6. CASE SpikeBoot
  <2>1. pc' = 1 /\ trace' = trace
    BY <1>6 DEF SpikeBoot
  <2>2. 1 \in 0 .. Len(program)
    BY <1>5
  <2>3. SpikeType'
    BY <1>2, <1>3, <1>5, <2>1, <2>2, Zenon DEF SpikeType
  <2> QED
    BY <1>4, <2>3 DEF CommitInv
<1>7. CASE SpikeStep
  <2>1. pc > 0 /\ pc \in 1 .. Len(program)
    BY <1>5, <1>7 DEF SpikeStep
  <2>2. PICK r \in Results(pc) : trace' = Append(trace, r)
    BY <1>7 DEF SpikeStep
  <2>3. r \in Retired /\ r.pc = pc - 1
    BY <1>5, <2>1, <2>2, ResultsType, Zenon
  <2>4. r \in Known
    BY <2>1, <2>3 DEF Known, Retired
  <2>5. trace' \in Seq(Known)
    BY <1>5, <2>2, <2>4, AppendTo
  <2>6. /\ instr.back \in Nat
        /\ instr.kind = "branch" => instr.back < pc
        /\ instr.kind = "halt" <=> pc = Len(program)
    BY <1>5, <2>1, ProgramType, Zenon DEF instr
  <2>7. pc' \in 0 .. Len(program)
    <3>1. CASE instr.kind = "branch" /\ pc' = pc - instr.back
      BY <1>5, <2>1, <2>6, <3>1
    <3>2. CASE pc' = IF instr.kind = "halt" THEN pc ELSE pc + 1
      BY <1>5, <2>1, <2>6, <3>2
    <3> QED
      BY <1>7, <3>1, <3>2 DEF SpikeStep
  <2>8. SpikeType'
    BY <1>2, <1>3, <1>5, <2>5, <2>7, Zenon DEF SpikeType
  <2> QED
    BY <1>4, <2>8 DEF CommitInv
<1>8. CASE SpikeDone
  <2>1. pc' = pc /\ trace' = trace
    BY <1>8 DEF SpikeDone, spike_vars
  <2>2. SpikeType'
    BY <1>2, <1>3, <1>5, <2>1, Zenon DEF SpikeType
  <2> QED
    BY <1>4, <2>2 DEF CommitInv
<1> QED
  BY <1>6, <1>7, <1>8

LEMMA CommitInvInit ==
  ASSUME Init
  PROVE  CommitInv
<1>1. SpikeType
  <2>1. program \in Programs /\ phase = "spike" /\ pc = 0 /\ trace = <<>>
    BY DEF Init
  <2>2. 0 \in 0 .. Len(program) /\ <<>> \in Seq(Known)
    BY <2>1, ProgramLength
  <2> QED
    BY <2>1, <2>2, Zenon DEF SpikeType, Phases
<1>2. CoreType
  BY DEF Init, CoreType, UnknownTail
<1>3. Pipe(<<>>, 0, 0, Bubble, Bubble)
  BY DEF Pipe
<1>4. Logged(<<>>, <<>>, 0, 0)
  <2>1. PcLines(<<>>, 0) = {} /\ RegLines(<<>>, 0) = {} /\ MemLines(<<>>, 0) = {}
    <3>1. 1 .. 0 = {}
      OBVIOUS
    <3> QED
      BY <3>1, Zenon DEF PcLines, RegLines, MemLines
  <2>2. <<>> \in Seq(LineType)
    OBVIOUS
  <2> QED
    BY <2>1, <2>2, LinesOfFew, Zenon DEF Logged
<1>5. LogInv
  BY <1>3, <1>4, Zenon DEF Init, LogInv
<1> QED
  BY <1>1, <1>2, <1>5 DEF CommitInv

LEMMA CommitInvStep ==
  ASSUME CommitInv, [Next]_vars
  PROVE  CommitInv'
<1>1. CASE UNCHANGED vars
  <2>1. SpikeType' /\ CoreType' /\ LogInv'
    BY <1>1, Zenon DEF CommitInv, SpikeType, CoreType, LogInv, vars, spike_vars, feed_vars, tb_vars
  <2> QED
    BY <2>1 DEF CommitInv
<1> QED
  BY <1>1, SvCycleStep, SvDoneStep, SpikeSideStep DEF Next

LEMMA CommitInvParsed ==
  ASSUME CommitInv
  PROVE  CommitLogRecovered
<1> SUFFICES ASSUME Compared PROVE CommitLogRecovered
  BY DEF CommitLogRecovered
<1>1. /\ Logged(sv_log, sv_trace, wb_commit_idx, mem_commit_idx)
      /\ wb_commit_idx \in Nat /\ mem_commit_idx \in Nat
      /\ MAX_RETIRE <= wb_commit_idx /\ wb_commit_idx <= mem_commit_idx
      /\ mem_commit_idx <= Len(sv_trace)
      /\ sv_trace \in Seq(Retired) /\ UnknownTail(sv_trace, fault)
  BY DEF Compared, CommitInv, LogInv, CoreType
<1>2. Len(sv_trace) \in Nat /\ wb_commit_idx <= Len(sv_trace) /\ MAX_RETIRE \in Nat
  BY <1>1, CosimAssumption
<1>3. PICK u \in Nat : KnownUpTo(sv_trace, fault, wb_commit_idx, u)
  BY <1>1, <1>2, KnownPrefix, Zenon
<1>4. LogReady(sv_log, sv_trace, wb_commit_idx, mem_commit_idx, u)
  BY <1>1, <1>3, Zenon DEF LogReady, KnownUpTo
<1>5. PICK records : records = parse_sv_log(sv_log).records
  OBVIOUS
<1>6. Recovered(records, sv_trace, u)
  BY <1>4, <1>5, ParseSv, Zenon
<1>7. /\ fault # "unknown_pc" => u >= MAX_RETIRE
      /\ u <= Len(sv_trace)
  BY <1>1, <1>2, <1>3 DEF KnownUpTo
<1>8. /\ fault # "unknown_pc" => Len(records) >= MAX_RETIRE
      /\ Len(records) <= Len(sv_trace)
      /\ \A i \in 1 .. Len(records) :
            /\ records[i].pc = sv_trace[i].pc
            /\ records[i].reg = sv_trace[i].reg /\ records[i].mem = sv_trace[i].mem
  BY <1>6, <1>7, Zenon DEF Recovered
<1> QED
  BY <1>5, <1>8, Zenon DEF CommitLogRecovered

(* sv_log_parser.py recovers what the core retired from commit_log.txt,    *)
(* whatever the program, the bubbles and the fault, and although MEM lines *)
(* are logged one stage before PC and REG lines.                           *)
THEOREM CommitLogReadBack == Spec => []CommitLogRecovered
<1>1. Init => CommitInv
  BY CommitInvInit
<1>2. CommitInv /\ [Next]_vars => CommitInv'
  BY CommitInvStep
<1>3. CommitInv => CommitLogRecovered
  BY CommitInvParsed
<1> QED
  BY <1>1, <1>2, <1>3, PTL DEF Spec

-----------------------------------------------------------------------------
(* The loops of the parsers as functions of the lines read so far *)

Reads(f, log, n) ==
  f = [k \in 0 .. n |->
         IF k = 0 THEN nothing_read ELSE read_line(f[k - 1], log[k])]

(* parse_spike_log, over the lines *)
LEMMA ReadExists ==
  ASSUME NEW log
  PROVE  \A n \in Nat : \E f : Reads(f, log, n)
<1> DEFINE S == {n \in Nat : \E f : Reads(f, log, n)}
<1>1. 0 \in S
  <2> DEFINE f == [k \in 0 .. 0 |-> nothing_read]
  <2>1. ASSUME NEW k \in 0 .. 0 PROVE k = 0
    OBVIOUS
  <2>2. Reads(f, log, 0)
    BY <2>1 DEF Reads
  <2> HIDE DEF f
  <2> QED
    BY <2>2, Zenon
<1>2. ASSUME NEW n \in Nat, n \in S PROVE n + 1 \in S
  <2>1. PICK f : Reads(f, log, n)
    BY <1>2
  <2> DEFINE g == [k \in 0 .. n |-> IF k = 0 THEN nothing_read ELSE read_line(f[k - 1], log[k])]
  <2>2. ASSUME NEW k \in 0 .. n
        PROVE  f[k] = IF k = 0 THEN nothing_read ELSE read_line(f[k - 1], log[k])
    <3>1. g[k] = IF k = 0 THEN nothing_read ELSE read_line(f[k - 1], log[k])
      BY Zenon
    <3>2. f = g
      BY <2>1, Zenon DEF Reads
    <3> HIDE DEF g
    <3> QED
      BY <3>1, <3>2, Zenon
  <2>3. PICK q : q = n + 1
    OBVIOUS
  <2>4. q \in Nat /\ q # 0 /\ q - 1 = n /\ q \in 0 .. q /\ n \in 0 .. n
    BY <2>3
  <2> DEFINE h == [k \in 0 .. q |-> IF k = q THEN read_line(f[n], log[q]) ELSE f[k]]
  <2>5. ASSUME NEW k \in 0 .. q
        PROVE  h[k] = IF k = 0 THEN nothing_read ELSE read_line(h[k - 1], log[k])
    <3>1. CASE k = q
      <4>1. h[q] = read_line(f[n], log[q])
        BY <2>4, Zenon
      <4>2. n # q /\ n \in 0 .. q
        BY <2>3
      <4>3. h[n] = f[n]
        BY <4>2, Zenon
      <4> HIDE DEF h
      <4> QED
        BY <2>4, <3>1, <4>1, <4>3, Zenon
    <3>2. CASE k # q
      <4>1. k \in 0 .. n
        BY <2>3, <3>2
      <4>2. h[k] = f[k]
        BY <3>2, Zenon
      <4>3. k # 0 => k - 1 \in 0 .. q /\ k - 1 # q
        BY <2>3, <4>1
      <4>4. k # 0 => h[k - 1] = f[k - 1]
        BY <4>3, Zenon
      <4> HIDE DEF h
      <4> QED
        BY <2>2, <4>1, <4>2, <4>4, Zenon
    <3> QED
      BY <3>1, <3>2
  <2>6. Reads(h, log, q)
    BY <2>5 DEF Reads
  <2> HIDE DEF h
  <2>7. q \in S
    BY <2>4, <2>6, Zenon
  <2> QED
    BY <2>3, <2>7, Zenon
<1> HIDE DEF S
<1>3. Nat \subseteq S
  BY <1>1, <1>2, SetInduction
<1> QED
  BY <1>3, Zenon DEF S

LEMMA ReadUnfold ==
  ASSUME NEW log, Len(log) \in Nat
  PROVE  \E f : /\ f[0] = nothing_read /\ read_lines(log) = f[Len(log)]
               /\ \A k \in 1 .. Len(log) : f[k] = read_line(f[k - 1], log[k])
<1>1. \E f : Reads(f, log, Len(log))
  BY ReadExists, Zenon
<1> DEFINE f == CHOOSE f : Reads(f, log, Len(log))
<1>2. Reads(f, log, Len(log))
  BY <1>1, Zenon
<1>3. read_lines(log) = f[Len(log)]
  BY Zenon DEF read_lines, Reads
<1> HIDE DEF f
<1> DEFINE g == [k \in 0 .. Len(log) |-> IF k = 0 THEN nothing_read ELSE read_line(f[k - 1], log[k])]
<1>4. f = g
  BY <1>2, Zenon DEF Reads
<1>5. ASSUME NEW k \in 0 .. Len(log)
      PROVE  (k = 0 => g[k] = nothing_read) /\ (k # 0 => g[k] = read_line(f[k - 1], log[k]))
  BY Zenon
<1> HIDE DEF g
<1>6. f[0] = nothing_read
  <2>1. 0 \in 0 .. Len(log)
    OBVIOUS
  <2> QED
    BY <1>4, <1>5, <2>1, Zenon
<1>7. ASSUME NEW k \in 1 .. Len(log) PROVE f[k] = read_line(f[k - 1], log[k])
  <2>1. k \in 0 .. Len(log) /\ k # 0
    BY <1>7
  <2> QED
    BY <1>4, <1>5, <2>1, Zenon
<1> QED
  BY <1>3, <1>6, <1>7, Zenon

NoneJoined(read) == [records |-> <<>>, reg |-> read.reg, mem |-> read.mem]

Joins(f, read, n) ==
  f = [k \in 0 .. n |->
         IF k = 0 THEN NoneJoined(read) ELSE correlate(f[k - 1], read.seq[k])]

(* parse_spike_log, over the plain lines found *)
LEMMA CorrelateExists ==
  ASSUME NEW read
  PROVE  \A n \in Nat : \E f : Joins(f, read, n)
<1> DEFINE S == {n \in Nat : \E f : Joins(f, read, n)}
<1>1. 0 \in S
  <2> DEFINE f == [k \in 0 .. 0 |-> NoneJoined(read)]
  <2>1. ASSUME NEW k \in 0 .. 0 PROVE k = 0
    OBVIOUS
  <2>2. Joins(f, read, 0)
    BY <2>1 DEF Joins
  <2> HIDE DEF f
  <2> QED
    BY <2>2, Zenon
<1>2. ASSUME NEW n \in Nat, n \in S PROVE n + 1 \in S
  <2>1. PICK f : Joins(f, read, n)
    BY <1>2
  <2> DEFINE g == [k \in 0 .. n |-> IF k = 0 THEN NoneJoined(read) ELSE correlate(f[k - 1], read.seq[k])]
  <2>2. ASSUME NEW k \in 0 .. n
        PROVE  f[k] = IF k = 0 THEN NoneJoined(read) ELSE correlate(f[k - 1], read.seq[k])
    <3>1. g[k] = IF k = 0 THEN NoneJoined(read) ELSE correlate(f[k - 1], read.seq[k])
      BY Zenon
    <3>2. f = g
      BY <2>1, Zenon DEF Joins
    <3> HIDE DEF g
    <3> QED
      BY <3>1, <3>2, Zenon
  <2>3. PICK q : q = n + 1
    OBVIOUS
  <2>4. q \in Nat /\ q # 0 /\ q - 1 = n /\ q \in 0 .. q /\ n \in 0 .. n
    BY <2>3
  <2> DEFINE h == [k \in 0 .. q |-> IF k = q THEN correlate(f[n], read.seq[q]) ELSE f[k]]
  <2>5. ASSUME NEW k \in 0 .. q
        PROVE  h[k] = IF k = 0 THEN NoneJoined(read) ELSE correlate(h[k - 1], read.seq[k])
    <3>1. CASE k = q
      <4>1. h[q] = correlate(f[n], read.seq[q])
        BY <2>4, Zenon
      <4>2. n # q /\ n \in 0 .. q
        BY <2>3
      <4>3. h[n] = f[n]
        BY <4>2, Zenon
      <4> HIDE DEF h
      <4> QED
        BY <2>4, <3>1, <4>1, <4>3, Zenon
    <3>2. CASE k # q
      <4>1. k \in 0 .. n
        BY <2>3, <3>2
      <4>2. h[k] = f[k]
        BY <3>2, Zenon
      <4>3. k # 0 => k - 1 \in 0 .. q /\ k - 1 # q
        BY <2>3, <4>1
      <4>4. k # 0 => h[k - 1] = f[k - 1]
        BY <4>3, Zenon
      <4> HIDE DEF h
      <4> QED
        BY <2>2, <4>1, <4>2, <4>4, Zenon
    <3> QED
      BY <3>1, <3>2
  <2>6. Joins(h, read, q)
    BY <2>5 DEF Joins
  <2> HIDE DEF h
  <2>7. q \in S
    BY <2>4, <2>6, Zenon
  <2> QED
    BY <2>3, <2>7, Zenon
<1> HIDE DEF S
<1>3. Nat \subseteq S
  BY <1>1, <1>2, SetInduction
<1> QED
  BY <1>3, Zenon DEF S

LEMMA CorrelateUnfold ==
  ASSUME NEW read, Len(read.seq) \in Nat
  PROVE  \E f : /\ f[0] = NoneJoined(read) /\ correlate_all(read) = f[Len(read.seq)]
               /\ \A k \in 1 .. Len(read.seq) : f[k] = correlate(f[k - 1], read.seq[k])
<1>1. \E f : Joins(f, read, Len(read.seq))
  BY CorrelateExists, Zenon
<1> DEFINE f == CHOOSE f : Joins(f, read, Len(read.seq))
<1>2. Joins(f, read, Len(read.seq))
  BY <1>1, Zenon
<1>3. correlate_all(read) = f[Len(read.seq)]
  BY Zenon DEF correlate_all, Joins, NoneJoined
<1> HIDE DEF f
<1> DEFINE g == [k \in 0 .. Len(read.seq) |-> IF k = 0 THEN NoneJoined(read) ELSE correlate(f[k - 1], read.seq[k])]
<1>4. f = g
  BY <1>2, Zenon DEF Joins
<1>5. ASSUME NEW k \in 0 .. Len(read.seq)
      PROVE  (k = 0 => g[k] = NoneJoined(read)) /\ (k # 0 => g[k] = correlate(f[k - 1], read.seq[k]))
  BY Zenon
<1> HIDE DEF g
<1>6. f[0] = NoneJoined(read)
  <2>1. 0 \in 0 .. Len(read.seq)
    OBVIOUS
  <2> QED
    BY <1>4, <1>5, <2>1, Zenon
<1>7. ASSUME NEW k \in 1 .. Len(read.seq) PROVE f[k] = correlate(f[k - 1], read.seq[k])
  <2>1. k \in 0 .. Len(read.seq) /\ k # 0
    BY <1>7
  <2> QED
    BY <1>4, <1>5, <2>1, Zenon
<1> QED
  BY <1>3, <1>6, <1>7, Zenon

MorePlain(parsed, line) == IF PLAIN_RE(line) THEN Append(parsed, line) ELSE parsed

Extracts(f, log, n) ==
  f = [k \in 0 .. n |->
         IF k = 0 THEN <<>> ELSE MorePlain(f[k - 1], log[k])]

(* run_spike_and_parse, over the lines *)
LEMMA ExtractExists ==
  ASSUME NEW log
  PROVE  \A n \in Nat : \E f : Extracts(f, log, n)
<1> DEFINE S == {n \in Nat : \E f : Extracts(f, log, n)}
<1>1. 0 \in S
  <2> DEFINE f == [k \in 0 .. 0 |-> <<>>]
  <2>1. ASSUME NEW k \in 0 .. 0 PROVE k = 0
    OBVIOUS
  <2>2. Extracts(f, log, 0)
    BY <2>1 DEF Extracts
  <2> HIDE DEF f
  <2> QED
    BY <2>2, Zenon
<1>2. ASSUME NEW n \in Nat, n \in S PROVE n + 1 \in S
  <2>1. PICK f : Extracts(f, log, n)
    BY <1>2
  <2> DEFINE g == [k \in 0 .. n |-> IF k = 0 THEN <<>> ELSE MorePlain(f[k - 1], log[k])]
  <2>2. ASSUME NEW k \in 0 .. n
        PROVE  f[k] = IF k = 0 THEN <<>> ELSE MorePlain(f[k - 1], log[k])
    <3>1. g[k] = IF k = 0 THEN <<>> ELSE MorePlain(f[k - 1], log[k])
      BY Zenon
    <3>2. f = g
      BY <2>1, Zenon DEF Extracts
    <3> HIDE DEF g
    <3> QED
      BY <3>1, <3>2, Zenon
  <2>3. PICK q : q = n + 1
    OBVIOUS
  <2>4. q \in Nat /\ q # 0 /\ q - 1 = n /\ q \in 0 .. q /\ n \in 0 .. n
    BY <2>3
  <2> DEFINE h == [k \in 0 .. q |-> IF k = q THEN MorePlain(f[n], log[q]) ELSE f[k]]
  <2>5. ASSUME NEW k \in 0 .. q
        PROVE  h[k] = IF k = 0 THEN <<>> ELSE MorePlain(h[k - 1], log[k])
    <3>1. CASE k = q
      <4>1. h[q] = MorePlain(f[n], log[q])
        BY <2>4, Zenon
      <4>2. n # q /\ n \in 0 .. q
        BY <2>3
      <4>3. h[n] = f[n]
        BY <4>2, Zenon
      <4> HIDE DEF h
      <4> QED
        BY <2>4, <3>1, <4>1, <4>3, Zenon
    <3>2. CASE k # q
      <4>1. k \in 0 .. n
        BY <2>3, <3>2
      <4>2. h[k] = f[k]
        BY <3>2, Zenon
      <4>3. k # 0 => k - 1 \in 0 .. q /\ k - 1 # q
        BY <2>3, <4>1
      <4>4. k # 0 => h[k - 1] = f[k - 1]
        BY <4>3, Zenon
      <4> HIDE DEF h
      <4> QED
        BY <2>2, <4>1, <4>2, <4>4, Zenon
    <3> QED
      BY <3>1, <3>2
  <2>6. Extracts(h, log, q)
    BY <2>5 DEF Extracts
  <2> HIDE DEF h
  <2>7. q \in S
    BY <2>4, <2>6, Zenon
  <2> QED
    BY <2>3, <2>7, Zenon
<1> HIDE DEF S
<1>3. Nat \subseteq S
  BY <1>1, <1>2, SetInduction
<1> QED
  BY <1>3, Zenon DEF S

LEMMA ExtractUnfold ==
  ASSUME NEW log, Len(log) \in Nat
  PROVE  \E f : /\ f[0] = <<>> /\ run_spike_and_parse(log) = f[Len(log)]
               /\ \A k \in 1 .. Len(log) : f[k] = MorePlain(f[k - 1], log[k])
<1>1. \E f : Extracts(f, log, Len(log))
  BY ExtractExists, Zenon
<1> DEFINE f == CHOOSE f : Extracts(f, log, Len(log))
<1>2. Extracts(f, log, Len(log))
  BY <1>1, Zenon
<1>3. run_spike_and_parse(log) = f[Len(log)]
  BY Zenon DEF run_spike_and_parse, Extracts, MorePlain
<1> HIDE DEF f
<1> DEFINE g == [k \in 0 .. Len(log) |-> IF k = 0 THEN <<>> ELSE MorePlain(f[k - 1], log[k])]
<1>4. f = g
  BY <1>2, Zenon DEF Extracts
<1>5. ASSUME NEW k \in 0 .. Len(log)
      PROVE  (k = 0 => g[k] = <<>>) /\ (k # 0 => g[k] = MorePlain(f[k - 1], log[k]))
  BY Zenon
<1> HIDE DEF g
<1>6. f[0] = <<>>
  <2>1. 0 \in 0 .. Len(log)
    OBVIOUS
  <2> QED
    BY <1>4, <1>5, <2>1, Zenon
<1>7. ASSUME NEW k \in 1 .. Len(log) PROVE f[k] = MorePlain(f[k - 1], log[k])
  <2>1. k \in 0 .. Len(log) /\ k # 0
    BY <1>7
  <2> QED
    BY <1>4, <1>5, <2>1, Zenon
<1> QED
  BY <1>3, <1>6, <1>7, Zenon

-----------------------------------------------------------------------------
(* The queues of commits: ks[i] is the key of entry i of the log, xs[i]    *)
(* what it commits, or None.                                               *)

Hits(ks, xs, key, k) == {j \in 1 .. k : ks[j] = key /\ xs[j] # None}
Cnt(ks, xs, key, k) == Cardinality(Hits(ks, xs, key, k))

LEMMA HitsFinite ==
  ASSUME NEW ks, NEW xs, NEW key, NEW k \in Nat
  PROVE  IsFiniteSet(Hits(ks, xs, key, k)) /\ Cnt(ks, xs, key, k) \in Nat
<1>1. IsFiniteSet(1 .. k)
  BY FS_Interval
<1>2. Hits(ks, xs, key, k) \subseteq 1 .. k
  BY Zenon DEF Hits
<1>3. IsFiniteSet(Hits(ks, xs, key, k))
  BY <1>1, <1>2, FS_Subset, Zenon
<1> QED
  BY <1>3, FS_CardinalityType, Zenon DEF Cnt

LEMMA CntZero ==
  ASSUME NEW ks, NEW xs, NEW key
  PROVE  Cnt(ks, xs, key, 0) = 0
<1>1. Hits(ks, xs, key, 0) = {}
  BY DEF Hits
<1> QED
  BY <1>1, FS_EmptySet, Zenon DEF Cnt

LEMMA CntStep ==
  ASSUME NEW ks, NEW xs, NEW key, NEW k \in Nat
  PROVE  /\ ks[k + 1] = key /\ xs[k + 1] # None => Cnt(ks, xs, key, k + 1) = Cnt(ks, xs, key, k) + 1
         /\ ~(ks[k + 1] = key /\ xs[k + 1] # None) => Cnt(ks, xs, key, k + 1) = Cnt(ks, xs, key, k)
<1>1. PICK q : q = k + 1
  OBVIOUS
<1>2. 1 .. q = (1 .. k) \cup {q} /\ q \notin 1 .. k
  BY <1>1
<1>3. ASSUME ks[q] = key, xs[q] # None PROVE Cnt(ks, xs, key, q) = Cnt(ks, xs, key, k) + 1
  <2>1. Hits(ks, xs, key, q) = Hits(ks, xs, key, k) \cup {q}
    BY <1>2, <1>3, Zenon DEF Hits
  <2>2. q \notin Hits(ks, xs, key, k)
    BY <1>2, Zenon DEF Hits
  <2>3. IsFiniteSet(Hits(ks, xs, key, k))
    BY HitsFinite
  <2> QED
    BY <2>1, <2>2, <2>3, FS_AddElement DEF Cnt
<1>4. ASSUME ~(ks[q] = key /\ xs[q] # None) PROVE Cnt(ks, xs, key, q) = Cnt(ks, xs, key, k)
  <2>1. Hits(ks, xs, key, q) = Hits(ks, xs, key, k)
    BY <1>2, <1>4, Zenon DEF Hits
  <2> QED
    BY <2>1, Zenon DEF Cnt
<1> QED
  BY <1>1, <1>3, <1>4, Zenon

LEMMA CntMono ==
  ASSUME NEW ks, NEW xs, NEW key, NEW a \in Nat, NEW b \in Nat, a <= b
  PROVE  Cnt(ks, xs, key, a) <= Cnt(ks, xs, key, b)
<1>1. 1 .. a \subseteq 1 .. b
  OBVIOUS
<1>2. Hits(ks, xs, key, a) \subseteq Hits(ks, xs, key, b)
  BY <1>1, Zenon DEF Hits
<1>3. IsFiniteSet(Hits(ks, xs, key, b))
  BY HitsFinite
<1> QED
  BY <1>2, <1>3, FS_Subset DEF Cnt

LEMMA QueueOfEnqueue ==
  ASSUME NEW ctx, NEW key, NEW x, NEW other
  PROVE  /\ other = key => queue(enqueue(ctx, key, x), other) = Append(queue(ctx, key), x)
         /\ other # key => queue(enqueue(ctx, key, x), other) = queue(ctx, other)
<1> DEFINE e == [k \in DOMAIN ctx \cup {key} |->
                   IF k = key THEN Append(queue(ctx, key), x) ELSE ctx[k]]
<1>1. enqueue(ctx, key, x) = e
  BY Zenon DEF enqueue
<1>2. DOMAIN e = DOMAIN ctx \cup {key}
  BY Zenon
<1>3. ASSUME NEW k \in DOMAIN ctx \cup {key}
      PROVE  e[k] = IF k = key THEN Append(queue(ctx, key), x) ELSE ctx[k]
  BY Zenon
<1> HIDE DEF e
<1>4. CASE other = key
  <2>1. queue(e, key) = e[key]
    BY <1>2, Zenon DEF queue
  <2> QED
    BY <1>1, <1>3, <1>4, <2>1, Zenon
<1>5. CASE other # key /\ other \in DOMAIN ctx
  <2>1. queue(e, other) = e[other] /\ queue(ctx, other) = ctx[other]
    BY <1>2, <1>5, Zenon DEF queue
  <2> QED
    BY <1>1, <1>3, <1>5, <2>1, Zenon
<1>6. CASE other # key /\ other \notin DOMAIN ctx
  <2>1. queue(e, other) = <<>> /\ queue(ctx, other) = <<>>
    BY <1>2, <1>6, Zenon DEF queue
  <2> QED
    BY <1>1, <1>6, <2>1, Zenon
<1> QED
  BY <1>4, <1>5, <1>6

LEMMA QueueOfPop ==
  ASSUME NEW ctx, NEW key, NEW other
  PROVE  queue(pop(ctx, key), other)
           = IF other = key /\ queue(ctx, key) # <<>> THEN Tail(queue(ctx, key))
             ELSE queue(ctx, other)
<1>1. CASE queue(ctx, key) = <<>>
  BY <1>1, Zenon DEF pop
<1>2. CASE queue(ctx, key) # <<>>
  <2> DEFINE e == [ctx EXCEPT ![key] = Tail(ctx[key])]
  <2>1. pop(ctx, key) = e
    BY <1>2, Zenon DEF pop
  <2>2. key \in DOMAIN ctx /\ queue(ctx, key) = ctx[key]
    BY <1>2, Zenon DEF queue
  <2>3. DOMAIN e = DOMAIN ctx
    BY Zenon
  <2>4. e[key] = Tail(ctx[key])
    BY <2>2, Zenon
  <2>5. other # key /\ other \in DOMAIN ctx => e[other] = ctx[other]
    BY Zenon
  <2> HIDE DEF e
  <2>6. CASE other = key
    <3>1. queue(e, key) = e[key]
      BY <2>2, <2>3, Zenon DEF queue
    <3> QED
      BY <1>2, <2>1, <2>2, <2>4, <2>6, <3>1, Zenon
  <2>7. CASE other # key
    <3>1. queue(e, other) = queue(ctx, other)
      BY <2>3, <2>5, <2>7, Zenon DEF queue
    <3> QED
      BY <2>1, <2>7, <3>1, Zenon
  <2> QED
    BY <2>6, <2>7
<1> QED
  BY <1>1, <1>2

(* After the lines of k entries, a queue holds what they commit. *)
FilledAt(q, ks, xs, key, k) ==
  /\ q \in Seq(Pairs) /\ Len(q) = Cnt(ks, xs, key, k)
  /\ \A i \in 1 .. k : ks[i] = key /\ xs[i] # None => q[Cnt(ks, xs, key, i)] = xs[i]
Filled(ctx, ks, xs, k) == \A key : FilledAt(queue(ctx, key), ks, xs, key, k)

LEMMA FilledNone ==
  ASSUME NEW ks, NEW xs
  PROVE  Filled(<<>>, ks, xs, 0)
<1>1. ASSUME NEW key PROVE FilledAt(queue(<<>>, key), ks, xs, key, 0)
  <2>1. queue(<<>>, key) = <<>>
    <3>1. DOMAIN <<>> = {}
      OBVIOUS
    <3> QED
      BY <3>1, Zenon DEF queue
  <2>2. <<>> \in Seq(Pairs) /\ Len(<<>>) = 0 /\ 1 .. 0 = {}
    OBVIOUS
  <2> QED
    BY <2>1, <2>2, CntZero, Zenon DEF FilledAt
<1> QED
  BY <1>1, Zenon DEF Filled

LEMMA FilledSame ==
  ASSUME NEW ks, NEW xs, NEW key, NEW k \in Nat, NEW q, FilledAt(q, ks, xs, key, k),
         ~(ks[k + 1] = key /\ xs[k + 1] # None)
  PROVE  FilledAt(q, ks, xs, key, k + 1)
<1>1. PICK n : n = k + 1
  OBVIOUS
<1>2. Cnt(ks, xs, key, n) = Cnt(ks, xs, key, k)
  BY <1>1, CntStep, Zenon
<1>3. \A i \in 1 .. n : i = n \/ i \in 1 .. k
  BY <1>1
<1>4. FilledAt(q, ks, xs, key, n)
  BY <1>1, <1>2, <1>3, Zenon DEF FilledAt
<1> QED
  BY <1>1, <1>4, Zenon

LEMMA FilledMore ==
  ASSUME NEW ks, NEW xs, NEW key, NEW k \in Nat, NEW q, FilledAt(q, ks, xs, key, k),
         ks[k + 1] = key, xs[k + 1] # None, xs[k + 1] \in Pairs
  PROVE  FilledAt(Append(q, xs[k + 1]), ks, xs, key, k + 1)
<1>1. PICK n : n = k + 1
  OBVIOUS
<1>2. PICK t : t = Append(q, xs[n])
  OBVIOUS
<1>3. Cnt(ks, xs, key, n) = Cnt(ks, xs, key, k) + 1 /\ Cnt(ks, xs, key, k) \in Nat
  BY <1>1, CntStep, HitsFinite, Zenon
<1>4. /\ q \in Seq(Pairs) /\ Len(q) = Cnt(ks, xs, key, k)
      /\ \A i \in 1 .. k : ks[i] = key /\ xs[i] # None => q[Cnt(ks, xs, key, i)] = xs[i]
  BY Zenon DEF FilledAt
<1>5. /\ t \in Seq(Pairs) /\ Len(t) = Len(q) + 1 /\ t[Len(q) + 1] = xs[n]
      /\ \A j \in 1 .. Len(q) : t[j] = q[j]
  BY <1>1, <1>2, <1>4, AppendTo
<1>6. ASSUME NEW i \in 1 .. n, ks[i] = key, xs[i] # None PROVE t[Cnt(ks, xs, key, i)] = xs[i]
  <2>1. CASE i = n
    BY <1>3, <1>4, <1>5, <2>1, Zenon
  <2>2. CASE i # n
    <3>1. i \in 1 .. k /\ i \in Nat /\ i <= k
      BY <1>1, <2>2
    <3>2. PICK j : j = i - 1
      OBVIOUS
    <3>3. j \in Nat /\ j + 1 = i
      BY <3>1, <3>2
    <3>4. Cnt(ks, xs, key, i) = Cnt(ks, xs, key, j) + 1 /\ Cnt(ks, xs, key, j) \in Nat
      BY <1>6, <3>3, CntStep, HitsFinite, Zenon
    <3>5. Cnt(ks, xs, key, i) <= Cnt(ks, xs, key, k)
      BY <3>1, CntMono, Zenon
    <3>6. Cnt(ks, xs, key, i) \in 1 .. Len(q)
      BY <1>3, <1>4, <3>4, <3>5
    <3> QED
      BY <1>4, <1>5, <1>6, <3>1, <3>6, Zenon
  <2> QED
    BY <2>1, <2>2
<1>7. FilledAt(t, ks, xs, key, n)
  BY <1>3, <1>4, <1>5, <1>6, Zenon DEF FilledAt
<1> QED
  BY <1>1, <1>2, <1>7, Zenon

Enqueued(ctx, key, x) == IF x = None THEN ctx ELSE enqueue(ctx, key, x)

LEMMA EnqueueStep ==
  ASSUME NEW ks, NEW xs, NEW k \in Nat, NEW ctx, Filled(ctx, ks, xs, k), xs[k + 1] \in Optional
  PROVE  Filled(Enqueued(ctx, ks[k + 1], xs[k + 1]), ks, xs, k + 1)
<1>1. ASSUME NEW key
      PROVE  FilledAt(queue(Enqueued(ctx, ks[k + 1], xs[k + 1]), key), ks, xs, key, k + 1)
  <2>1. FilledAt(queue(ctx, key), ks, xs, key, k)
    BY Zenon DEF Filled
  <2>2. CASE ks[k + 1] = key /\ xs[k + 1] # None
    <3>1. xs[k + 1] \in Pairs
      BY <2>2, Zenon DEF Optional
    <3>2. queue(Enqueued(ctx, ks[k + 1], xs[k + 1]), key) = Append(queue(ctx, key), xs[k + 1])
      <4>1. Enqueued(ctx, ks[k + 1], xs[k + 1]) = enqueue(ctx, ks[k + 1], xs[k + 1])
        BY <2>2, Zenon DEF Enqueued
      <4>2. queue(enqueue(ctx, ks[k + 1], xs[k + 1]), ks[k + 1])
              = Append(queue(ctx, ks[k + 1]), xs[k + 1])
        BY QueueOfEnqueue
      <4> QED
        BY <2>2, <4>1, <4>2, Zenon
    <3> QED
      BY <2>1, <2>2, <3>1, <3>2, FilledMore, Zenon
  <2>3. CASE ~(ks[k + 1] = key /\ xs[k + 1] # None)
    <3>1. queue(Enqueued(ctx, ks[k + 1], xs[k + 1]), key) = queue(ctx, key)
      <4>1. CASE xs[k + 1] = None
        BY <4>1, Zenon DEF Enqueued
      <4>2. CASE xs[k + 1] # None
        <5>1. Enqueued(ctx, ks[k + 1], xs[k + 1]) = enqueue(ctx, ks[k + 1], xs[k + 1])
          BY <4>2, Zenon DEF Enqueued
        <5>2. key # ks[k + 1]
          BY <2>3, <4>2
        <5>3. queue(enqueue(ctx, ks[k + 1], xs[k + 1]), key) = queue(ctx, key)
          BY <5>2, QueueOfEnqueue
        <5> QED
          BY <5>1, <5>3, Zenon
      <4> QED
        BY <4>1, <4>2
    <3> QED
      BY <2>1, <2>3, <3>1, FilledSame, Zenon
  <2> QED
    BY <2>2, <2>3
<1> QED
  BY <1>1, Zenon DEF Filled

(* When the first k of n entries have taken their commits. *)
LeftAt(q, ks, xs, key, n, k) ==
  /\ q \in Seq(Pairs) /\ Len(q) = Cnt(ks, xs, key, n) - Cnt(ks, xs, key, k)
  /\ \A i \in k + 1 .. n : ks[i] = key /\ xs[i] # None =>
       q[Cnt(ks, xs, key, i) - Cnt(ks, xs, key, k)] = xs[i]
Left(ctx, ks, xs, n, k) == \A key : LeftAt(queue(ctx, key), ks, xs, key, n, k)

(* Entries with one key commit alike: they are one instruction. *)
Alike(ks, xs, n) == \A i, j \in 1 .. n : ks[i] = ks[j] /\ xs[i] = None => xs[j] = None

LEMMA LeftAll ==
  ASSUME NEW ks, NEW xs, NEW n \in Nat, NEW ctx, Filled(ctx, ks, xs, n)
  PROVE  Left(ctx, ks, xs, n, 0)
<1>1. ASSUME NEW key PROVE LeftAt(queue(ctx, key), ks, xs, key, n, 0)
  <2>1. PICK q : q = queue(ctx, key)
    OBVIOUS
  <2>2. /\ q \in Seq(Pairs) /\ Len(q) = Cnt(ks, xs, key, n)
        /\ \A i \in 1 .. n : ks[i] = key /\ xs[i] # None => q[Cnt(ks, xs, key, i)] = xs[i]
    BY <2>1, Zenon DEF Filled, FilledAt
  <2>3. Cnt(ks, xs, key, 0) = 0
    BY CntZero, Zenon
  <2>4. \A i \in Nat : Cnt(ks, xs, key, i) \in Nat
    BY HitsFinite, Zenon
  <2>5. \A i \in Nat : Cnt(ks, xs, key, i) - 0 = Cnt(ks, xs, key, i)
    BY <2>4
  <2>6. 0 + 1 = 1 /\ \A i \in 1 .. n : i \in Nat
    OBVIOUS
  <2>7. LeftAt(q, ks, xs, key, n, 0)
    BY <2>2, <2>3, <2>5, <2>6, Zenon DEF LeftAt
  <2> QED
    BY <2>1, <2>7, Zenon
<1> QED
  BY <1>1, Zenon DEF Left

LEMMA SeqTail ==
  ASSUME NEW B, NEW q \in Seq(B), q # <<>>
  PROVE  /\ Tail(q) \in Seq(B) /\ Len(Tail(q)) = Len(q) - 1 /\ Len(q) \in Nat /\ Len(q) > 0
         /\ \A j \in 1 .. Len(q) - 1 : Tail(q)[j] = q[j + 1]
         /\ Head(q) = q[1]
OBVIOUS

LEMMA LeftSame ==
  ASSUME NEW ks, NEW xs, NEW key, NEW n \in Nat, NEW k \in Nat, k < n, NEW q,
         LeftAt(q, ks, xs, key, n, k), ~(ks[k + 1] = key /\ xs[k + 1] # None)
  PROVE  LeftAt(q, ks, xs, key, n, k + 1)
<1>1. PICK m : m = k + 1
  OBVIOUS
<1>2. Cnt(ks, xs, key, m) = Cnt(ks, xs, key, k)
  BY <1>1, CntStep, Zenon
<1>3. \A i \in m + 1 .. n : i \in k + 1 .. n
  BY <1>1
<1>4. LeftAt(q, ks, xs, key, n, m)
  BY <1>2, <1>3, Zenon DEF LeftAt
<1> QED
  BY <1>1, <1>4, Zenon

LEMMA LeftTaken ==
  ASSUME NEW ks, NEW xs, NEW key, NEW n \in Nat, NEW k \in Nat, k < n, NEW q,
         LeftAt(q, ks, xs, key, n, k), ks[k + 1] = key, xs[k + 1] # None
  PROVE  /\ q # <<>> /\ Head(q) = xs[k + 1]
         /\ LeftAt(Tail(q), ks, xs, key, n, k + 1)
<1> DEFINE c(i) == Cnt(ks, xs, key, i)
<1>1. PICK m : m = k + 1
  OBVIOUS
<1>2. m \in Nat /\ m <= n /\ m \in k + 1 .. n
  BY <1>1
<1>3. c(m) = c(k) + 1 /\ c(k) \in Nat /\ c(n) \in Nat
  BY <1>1, CntStep, HitsFinite, Zenon
<1>4. c(m) <= c(n)
  BY <1>2, CntMono, Zenon
<1>5. /\ q \in Seq(Pairs) /\ Len(q) = c(n) - c(k)
      /\ \A i \in k + 1 .. n : ks[i] = key /\ xs[i] # None => q[c(i) - c(k)] = xs[i]
  BY Zenon DEF LeftAt
<1>6. \A i \in Nat : c(i) \in Nat
  BY HitsFinite, Zenon
<1>7. \A i \in Nat : i <= n => c(i) <= c(n)
  BY CntMono, Zenon
<1>8. ASSUME NEW i \in m + 1 .. n, ks[i] = key, xs[i] # None PROVE c(i) > c(m)
  <2>1. PICK j : j = i - 1
    OBVIOUS
  <2>2. j \in Nat /\ j + 1 = i /\ m <= j
    BY <1>2, <2>1
  <2>3. c(i) = c(j) + 1
    BY <1>8, <2>2, CntStep, Zenon
  <2>4. c(m) <= c(j)
    BY <1>2, <2>2, CntMono, Zenon
  <2>5. c(j) \in Nat /\ c(m) \in Nat
    BY <1>2, <1>6, <2>2, Zenon
  <2> HIDE DEF c
  <2> QED
    BY <2>3, <2>4, <2>5
<1> HIDE DEF c
<1>9. Len(q) >= 1 /\ c(m) - c(k) = 1
  BY <1>3, <1>4, <1>5
<1>10. q # <<>>
  <2>1. Len(<<>>) = 0
    OBVIOUS
  <2> QED
    BY <1>9, <2>1
<1>11. /\ Tail(q) \in Seq(Pairs) /\ Len(Tail(q)) = Len(q) - 1
       /\ \A j \in 1 .. Len(q) - 1 : Tail(q)[j] = q[j + 1]
       /\ Head(q) = q[1]
  BY <1>5, <1>10, SeqTail, Zenon
<1>12. Head(q) = xs[m]
  BY <1>1, <1>2, <1>5, <1>9, <1>11, Zenon
<1>13. Len(Tail(q)) = c(n) - c(m)
  BY <1>3, <1>5, <1>11
<1>14. ASSUME NEW i \in m + 1 .. n, ks[i] = key, xs[i] # None PROVE Tail(q)[c(i) - c(m)] = xs[i]
  <2>1. i \in k + 1 .. n /\ i \in Nat /\ i <= n
    BY <1>1, <1>2
  <2>2. c(i) \in Nat /\ c(i) <= c(n) /\ c(i) > c(m)
    BY <1>6, <1>7, <1>8, <1>14, <2>1
  <2>3. PICK j : j = c(i) - c(m)
    OBVIOUS
  <2>4. j \in 1 .. Len(q) - 1 /\ j + 1 = c(i) - c(k)
    BY <1>3, <1>5, <2>2, <2>3
  <2> QED
    BY <1>5, <1>11, <1>14, <2>1, <2>3, <2>4, Zenon
<1>15. LeftAt(Tail(q), ks, xs, key, n, m)
  BY <1>11, <1>13, <1>14, Zenon DEF LeftAt, c
<1> QED
  BY <1>1, <1>10, <1>12, <1>15, Zenon

LEMMA PopStep ==
  ASSUME NEW ks, NEW xs, NEW n \in Nat, NEW k \in Nat, k < n, NEW ctx, Left(ctx, ks, xs, n, k),
         Alike(ks, xs, n)
  PROVE  /\ front(ctx, ks[k + 1]) = xs[k + 1]
         /\ Left(pop(ctx, ks[k + 1]), ks, xs, n, k + 1)
<1>1. PICK key : key = ks[k + 1]
  OBVIOUS
<1>2. PICK q : q = queue(ctx, key)
  OBVIOUS
<1>3. LeftAt(q, ks, xs, key, n, k)
  BY <1>2, Zenon DEF Left
<1>4. CASE xs[k + 1] # None
  <2>1. q # <<>> /\ Head(q) = xs[k + 1] /\ LeftAt(Tail(q), ks, xs, key, n, k + 1)
    <3>1. ks[k + 1] = key
      BY <1>1
    <3> QED
      BY <1>3, <1>4, <3>1, LeftTaken
  <2>2. front(ctx, key) = xs[k + 1]
    BY <1>2, <2>1, Zenon DEF front
  <2>3. ASSUME NEW other PROVE LeftAt(queue(pop(ctx, key), other), ks, xs, other, n, k + 1)
    <3>1. CASE other = key
      <4>1. queue(pop(ctx, key), other) = Tail(q)
        BY <1>2, <2>1, <3>1, QueueOfPop
      <4> QED
        BY <2>1, <3>1, <4>1, Zenon
    <3>2. CASE other # key
      <4>1. queue(pop(ctx, key), other) = queue(ctx, other)
        BY <3>2, QueueOfPop
      <4>2. LeftAt(queue(ctx, other), ks, xs, other, n, k)
        BY Zenon DEF Left
      <4> QED
        BY <1>1, <3>2, <4>1, <4>2, LeftSame, Zenon
    <3> QED
      BY <3>1, <3>2
  <2> QED
    BY <1>1, <2>2, <2>3, Zenon DEF Left
<1>5. CASE xs[k + 1] = None
  <2>1. k + 1 \in 1 .. n
    OBVIOUS
  <2>2. ASSUME NEW j \in 1 .. n, ks[j] = key PROVE xs[j] = None
    BY <1>1, <1>5, <2>1, <2>2, Zenon DEF Alike
  <2>3. Hits(ks, xs, key, n) = {}
    BY <2>2, Zenon DEF Hits
  <2>4. Cnt(ks, xs, key, n) = 0
    BY <2>3, FS_EmptySet, Zenon DEF Cnt
  <2>5. Cnt(ks, xs, key, k) \in Nat /\ Cnt(ks, xs, key, k) <= Cnt(ks, xs, key, n)
    BY HitsFinite, CntMono
  <2>6. q \in Seq(Pairs) /\ Len(q) = Cnt(ks, xs, key, n) - Cnt(ks, xs, key, k)
    BY <1>3, Zenon DEF LeftAt
  <2>7. Len(q) = 0
    BY <2>4, <2>5, <2>6
  <2>8. q = <<>>
    BY <2>6, <2>7
  <2>9. front(ctx, key) = None /\ pop(ctx, key) = ctx
    BY <1>2, <2>8, Zenon DEF front, pop
  <2>10. ASSUME NEW other PROVE LeftAt(queue(ctx, other), ks, xs, other, n, k + 1)
    <3>1. LeftAt(queue(ctx, other), ks, xs, other, n, k)
      BY Zenon DEF Left
    <3> QED
      BY <1>5, <3>1, LeftSame, Zenon
  <2> QED
    BY <1>1, <1>5, <2>9, <2>10, Zenon DEF Left
<1> QED
  BY <1>4, <1>5

-----------------------------------------------------------------------------
(* Reading a log of entries: a warning, then a plain line and a commit     *)
(* line for each of them.                                                  *)

EntryType == [pc : 0 .. WORD - 1, instr : 0 .. WORD - 1, reg : Optional, mem : Optional]
Plain(e) == [pc |-> e.pc, instr |-> e.instr]
PlainType == [pc : 0 .. WORD - 1, instr : 0 .. WORD - 1]

PlainOf(line, e) == line.tag = "plain" /\ line.pc = e.pc /\ line.instr = e.instr
CommitOf(line, e) ==
  /\ line.tag = "commit" /\ Key(line) = Key(e)
  /\ \/ /\ e.reg # None /\ e.mem = None /\ REG_RE(line)
        /\ <<line.items[1][2], line.items[1][3] % WORD>> = e.reg
     \/ /\ e.reg = None /\ e.mem # None /\ ~REG_RE(line) /\ MEM_RE(line)
        /\ <<line.items[1][2], line.items[1][3] % WORD>> = e.mem
     \/ /\ e.reg = None /\ e.mem = None /\ ~REG_RE(line) /\ ~MEM_RE(line)
        /\ MEM_READ_RE(line) \/ BARE_COMMIT_RE(line)

ReadState(s, r, m) == [seq |-> s, reg |-> r, mem |-> m, exceptions |-> 0, unrecognized |-> 0]

LEMMA ReadWarning ==
  ASSUME NEW st, NEW line, line.tag = "warning"
  PROVE  read_line(st, line) = st
<1>1. /\ WARNING_OR_BLANK(line) /\ ~EXCEPTION_RE(line) /\ ~REG_RE(line) /\ ~MEM_RE(line)
      /\ ~MEM_READ_RE(line) /\ ~BARE_COMMIT_RE(line) /\ ~PLAIN_RE(line)
  BY DEF WARNING_OR_BLANK, EXCEPTION_RE, REG_RE, MEM_RE, MEM_READ_RE, BARE_COMMIT_RE, PLAIN_RE
<1> QED
  BY <1>1 DEF read_line

LEMMA ReadPlain ==
  ASSUME NEW s, NEW r, NEW m, NEW line, NEW e \in EntryType, PlainOf(line, e)
  PROVE  read_line(ReadState(s, r, m), line) = ReadState(Append(s, Plain(e)), r, m)
<1>1. line.tag = "plain" /\ line.pc = e.pc /\ line.instr = e.instr
  BY DEF PlainOf
<1>2. /\ ~WARNING_OR_BLANK(line) /\ ~EXCEPTION_RE(line) /\ ~REG_RE(line) /\ ~MEM_RE(line)
      /\ ~MEM_READ_RE(line) /\ ~BARE_COMMIT_RE(line) /\ PLAIN_RE(line)
  BY <1>1 DEF WARNING_OR_BLANK, EXCEPTION_RE, REG_RE, MEM_RE, MEM_READ_RE, BARE_COMMIT_RE, PLAIN_RE
<1>3. e.pc % WORD = e.pc /\ e.instr % WORD = e.instr
  BY WordAssumption DEF EntryType
<1>4. [pc |-> line.pc % WORD, instr |-> line.instr % WORD] = Plain(e)
  BY <1>1, <1>3 DEF Plain
<1>5. read_line(ReadState(s, r, m), line)
        = [ReadState(s, r, m) EXCEPT !.seq = Append(@, [pc |-> line.pc % WORD,
                                                       instr |-> line.instr % WORD])]
  BY <1>2 DEF read_line
<1> QED
  BY <1>4, <1>5 DEF ReadState

LEMMA ReadCommit ==
  ASSUME NEW s, NEW r, NEW m, NEW line, NEW e \in EntryType, CommitOf(line, e)
  PROVE  read_line(ReadState(s, r, m), line)
           = ReadState(s, Enqueued(r, Key(e), e.reg), Enqueued(m, Key(e), e.mem))
<1>1. line.tag = "commit" /\ Key(line) = Key(e)
  BY DEF CommitOf
<1>2. ~WARNING_OR_BLANK(line) /\ ~EXCEPTION_RE(line) /\ ~PLAIN_RE(line)
  BY <1>1 DEF WARNING_OR_BLANK, EXCEPTION_RE, PLAIN_RE
<1>6. /\ REG_RE(line) => ~MEM_RE(line) /\ ~MEM_READ_RE(line) /\ ~BARE_COMMIT_RE(line)
      /\ MEM_RE(line) => ~MEM_READ_RE(line) /\ ~BARE_COMMIT_RE(line)
  BY <1>1, SMTT(30) DEF REG_RE, MEM_RE, MEM_READ_RE, BARE_COMMIT_RE
<1> DEFINE x == <<line.items[1][2], line.items[1][3] % WORD>>
<1>3. CASE e.reg # None /\ e.mem = None /\ REG_RE(line) /\ x = e.reg
  <2>1. read_line(ReadState(s, r, m), line)
          = [ReadState(s, r, m) EXCEPT !.reg = enqueue(@, Key(line), x)]
    BY <1>2, <1>3, <1>6 DEF read_line
  <2>2. Enqueued(r, Key(e), e.reg) = enqueue(r, Key(line), x) /\ Enqueued(m, Key(e), e.mem) = m
    BY <1>1, <1>3, Zenon DEF Enqueued
  <2> HIDE DEF x
  <2>3. read_line(ReadState(s, r, m), line) = ReadState(s, enqueue(r, Key(line), x), m)
    BY <2>1 DEF ReadState
  <2> QED
    BY <2>2, <2>3, Zenon
<1>4. CASE e.reg = None /\ e.mem # None /\ ~REG_RE(line) /\ MEM_RE(line) /\ x = e.mem
  <2>1. read_line(ReadState(s, r, m), line)
          = [ReadState(s, r, m) EXCEPT !.mem = enqueue(@, Key(line), x)]
    BY <1>2, <1>4, <1>6 DEF read_line
  <2>2. Enqueued(r, Key(e), e.reg) = r /\ Enqueued(m, Key(e), e.mem) = enqueue(m, Key(line), x)
    BY <1>1, <1>4, Zenon DEF Enqueued
  <2> HIDE DEF x
  <2>3. read_line(ReadState(s, r, m), line) = ReadState(s, r, enqueue(m, Key(line), x))
    BY <2>1 DEF ReadState
  <2> QED
    BY <2>2, <2>3, Zenon
<1>5. CASE /\ e.reg = None /\ e.mem = None /\ ~REG_RE(line) /\ ~MEM_RE(line)
           /\ MEM_READ_RE(line) \/ BARE_COMMIT_RE(line)
  <2>1. read_line(ReadState(s, r, m), line) = ReadState(s, r, m)
    BY <1>2, <1>5, <1>6 DEF read_line
  <2>2. Enqueued(r, Key(e), e.reg) = r /\ Enqueued(m, Key(e), e.mem) = m
    BY <1>5, Zenon DEF Enqueued
  <2> QED
    BY <2>1, <2>2, Zenon
<1> QED
  BY <1>3, <1>4, <1>5, Zenon DEF CommitOf

EntryLog(log, es, n) ==
  /\ Len(log) = 2 * n + 1 /\ log[1].tag = "warning"
  /\ \A i \in 1 .. n : es[i] \in EntryType /\ PlainOf(log[2 * i], es[i])
                                            /\ CommitOf(log[2 * i + 1], es[i])

KeysOf(es, n) == [i \in 1 .. n |-> Key(es[i])]
RegsOf(es, n) == [i \in 1 .. n |-> es[i].reg]
MemsOf(es, n) == [i \in 1 .. n |-> es[i].mem]

(* What has been read when the lines of k entries have. *)
ReadParts(s, r, m, es, n, k) ==
  /\ s \in Seq(PlainType) /\ Len(s) = k /\ \A i \in 1 .. k : s[i] = Plain(es[i])
  /\ Filled(r, KeysOf(es, n), RegsOf(es, n), k) /\ Filled(m, KeysOf(es, n), MemsOf(es, n), k)
ReadInv(st, es, n, k) == \E s, r, m : st = ReadState(s, r, m) /\ ReadParts(s, r, m, es, n, k)

LEMMA ReadEntry ==
  ASSUME NEW es, NEW n \in Nat, NEW k \in Nat, k < n, es[k + 1] \in EntryType,
         NEW st, ReadInv(st, es, n, k), NEW plain, NEW commit,
         PlainOf(plain, es[k + 1]), CommitOf(commit, es[k + 1])
  PROVE  ReadInv(read_line(read_line(st, plain), commit), es, n, k + 1)
<1>1. PICK s, r, m : st = ReadState(s, r, m) /\ ReadParts(s, r, m, es, n, k)
  BY Zenon DEF ReadInv
<1>2. PICK e : e = es[k + 1]
  OBVIOUS
<1>3. PICK ks, rs, ms : ks = KeysOf(es, n) /\ rs = RegsOf(es, n) /\ ms = MemsOf(es, n)
  OBVIOUS
<1>4. e \in EntryType /\ PlainOf(plain, e) /\ CommitOf(commit, e)
  BY <1>2, Zenon
<1>5. read_line(st, plain) = ReadState(Append(s, Plain(e)), r, m)
  BY <1>1, <1>4, ReadPlain
<1>6. read_line(read_line(st, plain), commit)
        = ReadState(Append(s, Plain(e)), Enqueued(r, Key(e), e.reg), Enqueued(m, Key(e), e.mem))
  BY <1>4, <1>5, ReadCommit
<1>7. k + 1 \in 1 .. n
  OBVIOUS
<1>8. ks[k + 1] = Key(e) /\ rs[k + 1] = e.reg /\ ms[k + 1] = e.mem
  BY <1>2, <1>3, <1>7, Zenon DEF KeysOf, RegsOf, MemsOf
<1>9. e.reg \in Optional /\ e.mem \in Optional
  BY <1>4 DEF EntryType
<1>10. Filled(r, ks, rs, k) /\ Filled(m, ks, ms, k)
  BY <1>1, <1>3, Zenon DEF ReadParts
<1>11. rs[k + 1] \in Optional /\ ms[k + 1] \in Optional
  BY <1>8, <1>9, Zenon
<1>12. Filled(Enqueued(r, ks[k + 1], rs[k + 1]), ks, rs, k + 1)
  BY <1>10, <1>11, EnqueueStep, Zenon
<1>13. Filled(Enqueued(m, ks[k + 1], ms[k + 1]), ks, ms, k + 1)
  BY <1>10, <1>11, EnqueueStep, Zenon
<1>14. Plain(e) \in PlainType
  BY <1>4 DEF EntryType, PlainType, Plain
<1>15. s \in Seq(PlainType) /\ Len(s) = k /\ \A i \in 1 .. k : s[i] = Plain(es[i])
  BY <1>1, Zenon DEF ReadParts
<1>16. PICK t : t = Append(s, Plain(e))
  OBVIOUS
<1>17. /\ t \in Seq(PlainType) /\ Len(t) = k + 1 /\ t[k + 1] = Plain(e)
       /\ \A i \in 1 .. k : t[i] = s[i]
  BY <1>14, <1>15, <1>16, AppendTo
<1>18. ASSUME NEW i \in 1 .. k + 1 PROVE t[i] = Plain(es[i])
  <2>1. i = k + 1 \/ i \in 1 .. k
    OBVIOUS
  <2> QED
    BY <1>2, <1>15, <1>17, <2>1, Zenon
<1>19. ReadParts(t, Enqueued(r, Key(e), e.reg), Enqueued(m, Key(e), e.mem), es, n, k + 1)
  BY <1>3, <1>8, <1>12, <1>13, <1>17, <1>18, Zenon DEF ReadParts
<1> QED
  BY <1>6, <1>16, <1>19, Zenon DEF ReadInv

LEMMA ReadAll ==
  ASSUME NEW log, NEW es, NEW n \in Nat, EntryLog(log, es, n)
  PROVE  ReadInv(read_lines(log), es, n, n)
<1>1. Len(log) = 2 * n + 1 /\ log[1].tag = "warning" /\ Len(log) \in Nat
  BY DEF EntryLog
<1>2. PICK f : /\ f[0] = nothing_read /\ read_lines(log) = f[Len(log)]
               /\ \A k \in 1 .. Len(log) : f[k] = read_line(f[k - 1], log[k])
  BY <1>1, ReadUnfold, Zenon
<1> DEFINE S == {k \in Nat : k <= n => ReadInv(f[2 * k + 1], es, n, k)}
<1>3. 0 \in S
  <2>1. 1 \in 1 .. Len(log) /\ 1 - 1 = 0 /\ 2 * 0 + 1 = 1
    BY <1>1
  <2>2. f[1] = nothing_read
    BY <1>1, <1>2, <2>1, ReadWarning, Zenon
  <2>3. nothing_read = ReadState(<<>>, <<>>, <<>>)
    BY DEF nothing_read, ReadState
  <2>4. <<>> \in Seq(PlainType) /\ Len(<<>>) = 0 /\ 1 .. 0 = {}
    OBVIOUS
  <2>5. ReadParts(<<>>, <<>>, <<>>, es, n, 0)
    BY <2>4, FilledNone, Zenon DEF ReadParts
  <2>6. ReadInv(f[1], es, n, 0)
    BY <2>2, <2>3, <2>5, Zenon DEF ReadInv
  <2> QED
    BY <2>1, <2>6
<1>4. ASSUME NEW k \in Nat, k \in S PROVE k + 1 \in S
  <2>1. SUFFICES ASSUME k + 1 <= n PROVE ReadInv(f[2 * (k + 1) + 1], es, n, k + 1)
    OBVIOUS
  <2>2. k < n /\ k + 1 \in 1 .. n
    BY <2>1
  <2>3. ReadInv(f[2 * k + 1], es, n, k)
    BY <1>4, <2>2
  <2>4. PICK a, b : a = 2 * (k + 1) /\ b = 2 * (k + 1) + 1
    OBVIOUS
  <2>5. /\ a \in 1 .. Len(log) /\ b \in 1 .. Len(log)
        /\ a - 1 = 2 * k + 1 /\ b - 1 = a
    BY <1>1, <2>2, <2>4
  <2>6. f[b] = read_line(read_line(f[2 * k + 1], log[a]), log[b])
    BY <1>2, <2>5, Zenon
  <2>7. es[k + 1] \in EntryType /\ PlainOf(log[a], es[k + 1]) /\ CommitOf(log[b], es[k + 1])
    BY <2>2, <2>4, Zenon DEF EntryLog
  <2>8. ReadInv(f[b], es, n, k + 1)
    BY <2>2, <2>3, <2>6, <2>7, ReadEntry, Zenon
  <2> QED
    BY <2>4, <2>8, Zenon
<1> HIDE DEF S
<1>5. Nat \subseteq S
  BY <1>3, <1>4, SetInduction
<1>6. n <= n
  OBVIOUS
<1> QED
  BY <1>1, <1>2, <1>5, <1>6, Zenon DEF S

(* Joining the commits to the plain lines. *)
AlikeEntries(es, n) ==
  Alike(KeysOf(es, n), RegsOf(es, n), n) /\ Alike(KeysOf(es, n), MemsOf(es, n), n)

JoinState(recs, r, m) == [records |-> recs, reg |-> r, mem |-> m]
Same(recs, es, k) ==
  recs \in Seq(EntryType) /\ Len(recs) = k /\ \A i \in 1 .. k : recs[i] = es[i]
JoinParts(recs, r, m, es, n, k) ==
  /\ Same(recs, es, k)
  /\ Left(r, KeysOf(es, n), RegsOf(es, n), n, k) /\ Left(m, KeysOf(es, n), MemsOf(es, n), n, k)
JoinInv(st, es, n, k) ==
  \E recs, r, m : st = JoinState(recs, r, m) /\ JoinParts(recs, r, m, es, n, k)

LEMMA CorrelateEntry ==
  ASSUME NEW es, NEW n \in Nat, NEW k \in Nat, k < n, es[k + 1] \in EntryType,
         AlikeEntries(es, n), NEW st, JoinInv(st, es, n, k)
  PROVE  JoinInv(correlate(st, Plain(es[k + 1])), es, n, k + 1)
<1>1. PICK recs, r, m : st = JoinState(recs, r, m) /\ JoinParts(recs, r, m, es, n, k)
  BY Zenon DEF JoinInv
<1>2. PICK e : e = es[k + 1]
  OBVIOUS
<1>3. PICK ks, rs, ms : ks = KeysOf(es, n) /\ rs = RegsOf(es, n) /\ ms = MemsOf(es, n)
  OBVIOUS
<1>4. k + 1 \in 1 .. n
  OBVIOUS
<1>5. ks[k + 1] = Key(e) /\ rs[k + 1] = e.reg /\ ms[k + 1] = e.mem
  BY <1>2, <1>3, <1>4, Zenon DEF KeysOf, RegsOf, MemsOf
<1>6. Left(r, ks, rs, n, k) /\ Left(m, ks, ms, n, k) /\ Alike(ks, rs, n) /\ Alike(ks, ms, n)
  BY <1>1, <1>3, Zenon DEF JoinParts, AlikeEntries
<1>7. front(r, ks[k + 1]) = rs[k + 1] /\ Left(pop(r, ks[k + 1]), ks, rs, n, k + 1)
  BY <1>6, PopStep, Zenon
<1>8. front(m, ks[k + 1]) = ms[k + 1] /\ Left(pop(m, ks[k + 1]), ks, ms, n, k + 1)
  BY <1>6, PopStep, Zenon
<1>9. Key(Plain(e)) = Key(e) /\ Plain(e).pc = e.pc /\ Plain(e).instr = e.instr
  BY DEF Key, Plain
<1>10. e \in EntryType
  BY <1>2, Zenon
<1>11. [pc |-> e.pc, instr |-> e.instr, reg |-> e.reg, mem |-> e.mem] = e
  BY <1>10 DEF EntryType
<1>12. JoinState(recs, r, m).records = recs /\ JoinState(recs, r, m).reg = r
       /\ JoinState(recs, r, m).mem = m
  BY DEF JoinState
<1>13. correlate(JoinState(recs, r, m), Plain(e))
         = JoinState(Append(recs, [pc |-> e.pc, instr |-> e.instr,
                                   reg |-> front(r, Key(e)), mem |-> front(m, Key(e))]),
                     pop(r, Key(e)), pop(m, Key(e)))
  <2>1. correlate(JoinState(recs, r, m), Plain(e))
         = [records |-> Append(recs, [pc |-> e.pc, instr |-> e.instr,
                                      reg |-> front(r, Key(e)), mem |-> front(m, Key(e))]),
            reg |-> pop(r, Key(e)), mem |-> pop(m, Key(e))]
    BY <1>9, <1>12, Zenon DEF correlate
  <2> QED
    BY <2>1, Zenon DEF JoinState
<1>14. [pc |-> e.pc, instr |-> e.instr, reg |-> front(r, Key(e)), mem |-> front(m, Key(e))] = e
  BY <1>5, <1>7, <1>8, <1>11, Zenon
<1>15. PICK t : t = Append(recs, e)
  OBVIOUS
<1>16. Same(recs, es, k)
  BY <1>1, Zenon DEF JoinParts
<1>17. recs \in Seq(EntryType) /\ Len(recs) = k /\ \A i \in 1 .. k : recs[i] = es[i]
  BY <1>16, Zenon DEF Same
<1>18. /\ t \in Seq(EntryType) /\ Len(t) = k + 1 /\ t[k + 1] = e
       /\ \A i \in 1 .. k : t[i] = recs[i]
  BY <1>10, <1>15, <1>17, AppendTo
<1>19. ASSUME NEW i \in 1 .. k + 1 PROVE t[i] = es[i]
  <2>1. i = k + 1 \/ i \in 1 .. k
    OBVIOUS
  <2> QED
    BY <1>2, <1>17, <1>18, <2>1, Zenon
<1>20. Same(t, es, k + 1)
  BY <1>18, <1>19, Zenon DEF Same
<1>21. JoinParts(t, pop(r, Key(e)), pop(m, Key(e)), es, n, k + 1)
  BY <1>3, <1>5, <1>7, <1>8, <1>20, Zenon DEF JoinParts
<1>22. correlate(st, Plain(e)) = JoinState(t, pop(r, Key(e)), pop(m, Key(e)))
  BY <1>1, <1>13, <1>14, <1>15, Zenon
<1> QED
  BY <1>2, <1>21, <1>22, Zenon DEF JoinInv

LEMMA CorrelateAll ==
  ASSUME NEW es, NEW n \in Nat, \A i \in 1 .. n : es[i] \in EntryType, AlikeEntries(es, n),
         NEW read, ReadInv(read, es, n, n)
  PROVE  Same(correlate_all(read).records, es, n)
<1>1. PICK s, r, m : read = ReadState(s, r, m) /\ ReadParts(s, r, m, es, n, n)
  BY Zenon DEF ReadInv
<1>2. ReadState(s, r, m).seq = s /\ ReadState(s, r, m).reg = r /\ ReadState(s, r, m).mem = m
  BY DEF ReadState
<1>3. read.seq = s /\ read.reg = r /\ read.mem = m
  BY <1>1, <1>2, Zenon
<1>4. Len(s) = n /\ \A i \in 1 .. n : s[i] = Plain(es[i])
  BY <1>1, Zenon DEF ReadParts
<1>5. PICK f : /\ f[0] = NoneJoined(read) /\ correlate_all(read) = f[Len(read.seq)]
               /\ \A k \in 1 .. Len(read.seq) : f[k] = correlate(f[k - 1], read.seq[k])
  BY <1>3, <1>4, CorrelateUnfold, Zenon
<1> DEFINE S == {k \in Nat : k <= n => JoinInv(f[k], es, n, k)}
<1>6. 0 \in S
  <2>1. f[0] = JoinState(<<>>, r, m)
    BY <1>3, <1>5, Zenon DEF NoneJoined, JoinState
  <2>2. <<>> \in Seq(EntryType) /\ Len(<<>>) = 0 /\ 1 .. 0 = {}
    OBVIOUS
  <2>3. Same(<<>>, es, 0)
    BY <2>2, Zenon DEF Same
  <2>4. Filled(r, KeysOf(es, n), RegsOf(es, n), n) /\ Filled(m, KeysOf(es, n), MemsOf(es, n), n)
    BY <1>1, Zenon DEF ReadParts
  <2>5. JoinParts(<<>>, r, m, es, n, 0)
    BY <2>3, <2>4, LeftAll, Zenon DEF JoinParts
  <2>6. JoinInv(f[0], es, n, 0)
    BY <2>1, <2>5, Zenon DEF JoinInv
  <2> QED
    BY <2>6
<1>7. ASSUME NEW k \in Nat, k \in S PROVE k + 1 \in S
  <2>1. SUFFICES ASSUME k + 1 <= n PROVE JoinInv(f[k + 1], es, n, k + 1)
    OBVIOUS
  <2>2. k < n /\ k + 1 \in 1 .. n /\ (k + 1) - 1 = k
    BY <2>1
  <2>3. JoinInv(f[k], es, n, k)
    BY <1>7, <2>2
  <2>4. f[k + 1] = correlate(f[k], Plain(es[k + 1]))
    <3>1. PICK q : q = k + 1
      OBVIOUS
    <3>2. q \in 1 .. Len(read.seq) /\ q \in 1 .. n /\ q - 1 = k
      BY <1>3, <1>4, <2>2, <3>1, Zenon
    <3> QED
      BY <1>3, <1>4, <1>5, <3>1, <3>2, Zenon
  <2>5. es[k + 1] \in EntryType
    BY <2>2
  <2>6. JoinInv(correlate(f[k], Plain(es[k + 1])), es, n, k + 1)
    BY <2>2, <2>3, <2>5, CorrelateEntry, Zenon
  <2> QED
    BY <2>4, <2>6, Zenon
<1> HIDE DEF S
<1>8. Nat \subseteq S
  BY <1>6, <1>7, SetInduction
<1>9. n <= n
  OBVIOUS
<1>10. JoinInv(f[n], es, n, n)
  BY <1>8, <1>9, Zenon DEF S
<1>11. PICK recs, r2, m2 : f[n] = JoinState(recs, r2, m2) /\ JoinParts(recs, r2, m2, es, n, n)
  BY <1>10, Zenon DEF JoinInv
<1>12. JoinState(recs, r2, m2).records = recs
  BY DEF JoinState
<1>13. correlate_all(read).records = recs
  BY <1>3, <1>4, <1>5, <1>11, <1>12, Zenon
<1> QED
  BY <1>11, <1>13, Zenon DEF JoinParts

(* parse_spike_log gives back the entries, in order, and reports nothing. *)
LEMMA ParseSpike ==
  ASSUME NEW log, NEW es, NEW n \in Nat, EntryLog(log, es, n), AlikeEntries(es, n)
  PROVE  /\ Same(parse_spike_log(log).records, es, n)
         /\ parse_spike_log(log).exceptions = 0 /\ parse_spike_log(log).unrecognized = 0
<1>1. ReadInv(read_lines(log), es, n, n)
  BY ReadAll, Zenon
<1>2. \A i \in 1 .. n : es[i] \in EntryType
  BY Zenon DEF EntryLog
<1>3. Same(correlate_all(read_lines(log)).records, es, n)
  BY <1>1, <1>2, CorrelateAll, Zenon
<1>4. PICK s, r, m : read_lines(log) = ReadState(s, r, m)
  BY <1>1, Zenon DEF ReadInv
<1>5. ReadState(s, r, m).exceptions = 0 /\ ReadState(s, r, m).unrecognized = 0
  BY DEF ReadState
<1>6. PICK recs : recs = correlate_all(read_lines(log)).records
  OBVIOUS
<1>7. parse_spike_log(log) = [records |-> recs, unrecognized |-> 0, exceptions |-> 0]
  BY <1>4, <1>5, <1>6, Zenon DEF parse_spike_log
<1>8. parse_spike_log(log).records = recs /\ parse_spike_log(log).exceptions = 0
      /\ parse_spike_log(log).unrecognized = 0
  BY <1>7
<1> QED
  BY <1>3, <1>6, <1>8, Zenon

(* run_spike_and_parse keeps one line per entry, with its word. *)
WordsRead(parsed, B, es, k) ==
  parsed \in Seq(B) /\ Len(parsed) = k /\ \A i \in 1 .. k : parsed[i].instr = es[i].instr

LEMMA ExtractEntry ==
  ASSUME NEW B, NEW es, NEW k \in Nat, NEW parsed, WordsRead(parsed, B, es, k),
         NEW plain \in B, NEW commit, PlainOf(plain, es[k + 1]), CommitOf(commit, es[k + 1])
  PROVE  WordsRead(MorePlain(MorePlain(parsed, plain), commit), B, es, k + 1)
<1>1. PLAIN_RE(plain) /\ ~PLAIN_RE(commit) /\ plain.instr = es[k + 1].instr
  BY DEF PlainOf, CommitOf, PLAIN_RE
<1>2. PICK t : t = Append(parsed, plain)
  OBVIOUS
<1>3. MorePlain(MorePlain(parsed, plain), commit) = t
  BY <1>1, <1>2, Zenon DEF MorePlain
<1>4. parsed \in Seq(B) /\ Len(parsed) = k /\ \A i \in 1 .. k : parsed[i].instr = es[i].instr
  BY Zenon DEF WordsRead
<1>5. t \in Seq(B) /\ Len(t) = k + 1 /\ t[k + 1] = plain /\ \A i \in 1 .. k : t[i] = parsed[i]
  BY <1>2, <1>4, AppendTo
<1>6. ASSUME NEW i \in 1 .. k + 1 PROVE t[i].instr = es[i].instr
  <2>1. i = k + 1 \/ i \in 1 .. k
    OBVIOUS
  <2> QED
    BY <1>1, <1>4, <1>5, <2>1, Zenon
<1> QED
  BY <1>3, <1>5, <1>6, Zenon DEF WordsRead

LEMMA ExtractAll ==
  ASSUME NEW log, NEW es, NEW n \in Nat, EntryLog(log, es, n)
  PROVE  WordsRead(run_spike_and_parse(log), LinesOf(log), es, n)
<1>1. Len(log) = 2 * n + 1 /\ log[1].tag = "warning" /\ Len(log) \in Nat
  BY DEF EntryLog
<1>2. PICK f : /\ f[0] = <<>> /\ run_spike_and_parse(log) = f[Len(log)]
               /\ \A k \in 1 .. Len(log) : f[k] = MorePlain(f[k - 1], log[k])
  BY <1>1, ExtractUnfold, Zenon
<1> DEFINE B == LinesOf(log)
           S == {k \in Nat : k <= n => WordsRead(f[2 * k + 1], B, es, k)}
<1>3. 0 \in S
  <2>1. 1 \in 1 .. Len(log) /\ 1 - 1 = 0 /\ 2 * 0 + 1 = 1
    BY <1>1
  <2>2. ~PLAIN_RE(log[1])
    BY <1>1 DEF PLAIN_RE
  <2>3. f[1] = <<>>
    BY <1>2, <2>1, <2>2, Zenon DEF MorePlain
  <2>4. <<>> \in Seq(B) /\ Len(<<>>) = 0 /\ 1 .. 0 = {}
    OBVIOUS
  <2>5. WordsRead(f[1], B, es, 0)
    BY <2>3, <2>4, Zenon DEF WordsRead
  <2> QED
    BY <2>1, <2>5
<1>4. ASSUME NEW k \in Nat, k \in S PROVE k + 1 \in S
  <2>1. SUFFICES ASSUME k + 1 <= n PROVE WordsRead(f[2 * (k + 1) + 1], B, es, k + 1)
    OBVIOUS
  <2>2. k < n /\ k + 1 \in 1 .. n
    BY <2>1
  <2>3. WordsRead(f[2 * k + 1], B, es, k)
    BY <1>4, <2>2
  <2>4. PICK a, b : a = 2 * (k + 1) /\ b = 2 * (k + 1) + 1
    OBVIOUS
  <2>5. /\ a \in 1 .. Len(log) /\ b \in 1 .. Len(log)
        /\ a - 1 = 2 * k + 1 /\ b - 1 = a
    BY <1>1, <2>2, <2>4
  <2>6. f[b] = MorePlain(MorePlain(f[2 * k + 1], log[a]), log[b])
    BY <1>2, <2>5, Zenon
  <2>7. PlainOf(log[a], es[k + 1]) /\ CommitOf(log[b], es[k + 1])
    BY <2>2, <2>4, Zenon DEF EntryLog
  <2>8. log[a] \in B
    BY <2>5, Zenon DEF LinesOf
  <2> HIDE DEF B
  <2>9. WordsRead(f[b], B, es, k + 1)
    BY <2>3, <2>6, <2>7, <2>8, ExtractEntry, Zenon
  <2> QED
    BY <2>4, <2>9, Zenon
<1> HIDE DEF S
<1>5. Nat \subseteq S
  BY <1>3, <1>4, SetInduction
<1>6. n <= n
  OBVIOUS
<1> QED
  BY <1>1, <1>2, <1>5, <1>6, Zenon DEF S

(* The words behind the boot stub's. *)
BehindBoot(words, es, n) ==
  Len(words) = n - 1 /\ \A i \in 1 .. n - 1 : words[i] = es[i + 1].instr

LEMMA WordsBehindBoot ==
  ASSUME NEW log, NEW es, NEW n \in Nat, n # 0, EntryLog(log, es, n)
  PROVE  BehindBoot(Tail(export_for_sv(run_spike_and_parse(log))), es, n)
<1>1. PICK parsed : parsed = run_spike_and_parse(log)
  OBVIOUS
<1>2. WordsRead(parsed, LinesOf(log), es, n)
  BY <1>1, ExtractAll, Zenon
<1>3. /\ parsed \in Seq(LinesOf(log)) /\ Len(parsed) = n
      /\ \A i \in 1 .. n : parsed[i].instr = es[i].instr
  BY <1>2, Zenon DEF WordsRead
<1>4. DOMAIN parsed = 1 .. n
  BY <1>3
<1>5. PICK all : all = export_for_sv(parsed)
  OBVIOUS
<1>6. all = [k \in 1 .. n |-> parsed[k].instr]
  BY <1>4, <1>5, Zenon DEF export_for_sv
<1>7. \A i \in 1 .. n : es[i].instr \in Nat
  BY WordAssumption DEF EntryLog, EntryType
<1>8. all \in [1 .. n -> Nat] /\ \A i \in 1 .. n : all[i] = es[i].instr
  BY <1>3, <1>6, <1>7, Zenon
<1>9. all \in Seq(Nat) /\ Len(all) = n
  BY <1>8
<1>10. all # <<>>
  BY <1>9
<1>11. Len(Tail(all)) = n - 1 /\ \A j \in 1 .. n - 1 : Tail(all)[j] = all[j + 1]
  BY <1>9, <1>10, SeqTail
<1>12. \A j \in 1 .. n - 1 : j + 1 \in 1 .. n
  OBVIOUS
<1>13. \A j \in 1 .. n - 1 : Tail(all)[j] = es[j + 1].instr
  BY <1>8, <1>11, <1>12, Zenon
<1> QED
  BY <1>1, <1>5, <1>11, <1>13, Zenon DEF BehindBoot

-----------------------------------------------------------------------------
(* What Spike writes *)

LEMMA BaseFacts ==
  ASSUME program \in Programs
  PROVE  /\ WORD \in Nat /\ BASE_OFFSET \in Nat /\ BASE_OFFSET >= 2 /\ 2 * BASE_OFFSET <= WORD
         /\ Len(program) \in Nat /\ 0 < Len(program) /\ Len(program) < BASE_OFFSET
<1>1. Len(program) \in Nat /\ 0 < Len(program) /\ Len(program) < BASE_OFFSET
  BY ProgramLength
<1>2. WORD \in Nat /\ BASE_OFFSET \in Nat /\ 2 * BASE_OFFSET <= WORD
  BY WordAssumption DEF BASE_OFFSET
<1> QED
  BY <1>1, <1>2

LEMMA RemainderOf ==
  ASSUME NEW a \in Nat, NEW W \in Nat, a < W
  PROVE  a % W = a /\ (a + W) % W = a
OBVIOUS

LEMMA Rebased ==
  ASSUME program \in Programs, NEW a \in Nat, a < BASE_OFFSET
  PROVE  /\ Rebase(a) = a + BASE_OFFSET /\ Rebase(a) % BASE_OFFSET = a
         /\ a + BASE_OFFSET \in 0 .. WORD - 1 /\ a \in 0 .. WORD - 1
<1>1. /\ WORD \in Nat /\ BASE_OFFSET \in Nat /\ 2 * BASE_OFFSET <= WORD
  BY BaseFacts
<1>2. a + BASE_OFFSET \in Nat /\ a + BASE_OFFSET < WORD
  BY <1>1
<1>3. (a + BASE_OFFSET) % WORD = a + BASE_OFFSET /\ (a + BASE_OFFSET) % BASE_OFFSET = a
  BY <1>1, <1>2, RemainderOf, Zenon
<1> QED
  BY <1>1, <1>2, <1>3 DEF Rebase

LEMMA RebaseType ==
  ASSUME NEW a \in Nat
  PROVE  Rebase(a) \in Nat /\ Rebase(a) < WORD
<1>1. WORD \in Nat /\ WORD > 0 /\ BASE_OFFSET \in Nat
  BY WordAssumption DEF BASE_OFFSET
<1> QED
  BY <1>1 DEF Rebase

RegKinds == {"alu", "load", "auipc"}

(* What a word of the program may retire with. *)
Ran(p, r) ==
  /\ r \in Known /\ r.pc < Len(p)
  /\ p[r.pc + 1].kind \in RegKinds =>
       r.mem = None /\ r.reg \in Pairs /\ r.reg[1] = p[r.pc + 1].rd /\ r.reg[2] < WORD
  /\ p[r.pc + 1].kind = "store" =>
       r.reg = None /\ r.mem \in Pairs /\ r.mem[1] = Len(p) /\ r.mem[2] < WORD
  /\ p[r.pc + 1].kind \notin RegKinds \cup {"store"} => r.reg = None /\ r.mem = None

SpikeReg(p, r) ==
  IF r.reg = None \/ r.reg[1] = 0 THEN None
  ELSE IF p[r.pc + 1].kind = "auipc" THEN <<r.reg[1], Rebase(r.reg[2])>> ELSE r.reg
SpikeMem(r) == IF r.mem = None THEN None ELSE <<Rebase(r.mem[1]), r.mem[2]>>
EntryOf(p, r) ==
  [pc |-> r.pc + BASE_OFFSET, instr |-> r.pc, reg |-> SpikeReg(p, r), mem |-> SpikeMem(r)]
Boot == [pc |-> BootPc, instr |-> 0, reg |-> <<5, BASE_OFFSET>>, mem |-> None]

LEMMA ResultsRan ==
  ASSUME program \in Programs, NEW k \in 1 .. Len(program), NEW r \in Results(k)
  PROVE  Ran(program, r) /\ r.pc = k - 1
<1> DEFINE i == program[k]
<1>1. i.kind \in Kinds /\ i.rd \in Nat /\ Len(program) \in Nat /\ Len(program) < BASE_OFFSET
  BY ProgramType
<1>2. r \in Retired /\ r.pc = k - 1
  BY ResultsType
<1>3. k - 1 \in Nat /\ k \in Nat /\ k - 1 < Len(program) /\ (k - 1) + 1 = k /\ k - 1 < WORD
  BY <1>1, BaseFacts
<1>4. r \in Known
  BY <1>2, <1>3 DEF Known, Retired
<1>5. program[r.pc + 1] = i
  BY <1>2, <1>3, Zenon
<1>6. \A v \in Values : v \in Nat /\ v < WORD
  BY CosimAssumption, WordAssumption
<1>7. \A a, b : Retires(k, a, b).reg = a /\ Retires(k, a, b).mem = b
  BY DEF Retires
<1>9. CASE i.kind \in {"alu", "load"}
  <2>1. PICK v \in Values : r = Retires(k, <<i.rd, v>>, None)
    BY <1>9 DEF Results
  <2>2. r.mem = None /\ r.reg = <<i.rd, v>>
    BY <1>7, <2>1, Zenon
  <2>3. r.reg \in Pairs /\ r.reg[1] = i.rd /\ r.reg[2] < WORD
    <3>1. i.rd \in Nat /\ v \in Nat /\ v < WORD
      BY <1>1, <1>3, <1>6, <2>1
    <3>2. PICK x : x = <<i.rd, v>>
      OBVIOUS
    <3>3. x \in Pairs /\ x[1] = i.rd /\ x[2] = v
      BY <3>1, <3>2 DEF Pairs
    <3> QED
      BY <2>2, <3>1, <3>2, <3>3, Zenon
  <2>4. i.kind \in RegKinds /\ i.kind # "store"
    BY <1>9 DEF RegKinds
  <2> QED
    BY <1>2, <1>3, <1>4, <1>5, <2>2, <2>3, <2>4, Zenon DEF Ran
<1>10. CASE i.kind = "auipc"
  <2>1. r = Retires(k, <<i.rd, k - 1>>, None)
    BY <1>10 DEF Results
  <2>2. r.mem = None /\ r.reg = <<i.rd, k - 1>>
    BY <1>7, <2>1, Zenon
  <2>3. r.reg \in Pairs /\ r.reg[1] = i.rd /\ r.reg[2] < WORD
    <3>1. i.rd \in Nat /\ k - 1 \in Nat /\ k - 1 < WORD
      BY <1>1, <1>3, <1>6, <2>1
    <3>2. PICK x : x = <<i.rd, k - 1>>
      OBVIOUS
    <3>3. x \in Pairs /\ x[1] = i.rd /\ x[2] = k - 1
      BY <3>1, <3>2 DEF Pairs
    <3> QED
      BY <2>2, <3>1, <3>2, <3>3, Zenon
  <2>4. i.kind \in RegKinds /\ i.kind # "store"
    BY <1>10 DEF RegKinds
  <2> QED
    BY <1>2, <1>3, <1>4, <1>5, <2>2, <2>3, <2>4, Zenon DEF Ran
<1>11. CASE i.kind = "store"
  <2>1. PICK v \in Values : r = Retires(k, None, <<DataAddress, v>>)
    BY <1>11 DEF Results
  <2>2. r.reg = None /\ r.mem = <<Len(program), v>>
    BY <1>7, <2>1, Zenon DEF DataAddress
  <2>3. r.mem \in Pairs /\ r.mem[1] = Len(program) /\ r.mem[2] < WORD
    <3>1. Len(program) \in Nat /\ v \in Nat /\ v < WORD
      BY <1>1, <1>3, <1>6, <2>1
    <3>2. PICK x : x = <<Len(program), v>>
      OBVIOUS
    <3>3. x \in Pairs /\ x[1] = Len(program) /\ x[2] = v
      BY <3>1, <3>2 DEF Pairs
    <3> QED
      BY <2>2, <3>1, <3>2, <3>3, Zenon
  <2>4. i.kind \notin RegKinds
    BY <1>11 DEF RegKinds
  <2> QED
    BY <1>2, <1>3, <1>4, <1>5, <1>11, <2>2, <2>3, <2>4, Zenon DEF Ran
<1>12. CASE i.kind \in {"branch", "halt"}
  <2>1. r = Retires(k, None, None)
    BY <1>12 DEF Results
  <2>2. r.reg = None /\ r.mem = None
    BY <1>7, <2>1, Zenon
  <2>3. i.kind \notin RegKinds /\ i.kind # "store"
    BY <1>12 DEF RegKinds
  <2> QED
    BY <1>2, <1>3, <1>4, <1>5, <2>2, <2>3, Zenon DEF Ran
<1> QED
  BY <1>1, <1>9, <1>10, <1>11, <1>12 DEF Kinds

LEMMA EntryInType ==
  ASSUME program \in Programs, NEW r, Ran(program, r)
  PROVE  EntryOf(program, r) \in EntryType
<1>1. r \in Known /\ r.pc < Len(program) /\ r.pc \in Nat /\ r.reg \in Optional /\ r.mem \in Optional
  BY DEF Ran, Known
<1>2. r.pc + BASE_OFFSET \in 0 .. WORD - 1 /\ r.pc \in 0 .. WORD - 1
  <2>1. r.pc < BASE_OFFSET
    BY <1>1, BaseFacts
  <2> QED
    BY <1>1, <2>1, Rebased
<1>3. SpikeReg(program, r) \in Optional
  <2>1. CASE r.reg = None \/ r.reg[1] = 0
    BY <2>1, Zenon DEF SpikeReg, Optional
  <2>2. CASE ~(r.reg = None \/ r.reg[1] = 0)
    <3>1. r.reg[1] \in Nat /\ r.reg[2] \in Nat
      BY <1>1, <2>2, PairNotNone DEF Optional
    <3>2. <<r.reg[1], Rebase(r.reg[2])>> \in Optional
      BY <3>1, RebaseType, PairNotNone, Zenon DEF Optional
    <3> QED
      BY <1>1, <2>2, <3>2, Zenon DEF SpikeReg
  <2> QED
    BY <2>1, <2>2
<1>4. SpikeMem(r) \in Optional
  <2>1. CASE r.mem = None
    BY <2>1, Zenon DEF SpikeMem, Optional
  <2>2. CASE r.mem # None
    <3>1. r.mem[1] \in Nat /\ r.mem[2] \in Nat
      BY <1>1, <2>2, PairNotNone DEF Optional
    <3>2. <<Rebase(r.mem[1]), r.mem[2]>> \in Optional
      BY <3>1, RebaseType, PairNotNone, Zenon DEF Optional
    <3> QED
      BY <2>2, <3>2, Zenon DEF SpikeMem
  <2> QED
    BY <2>1, <2>2
<1> QED
  BY <1>2, <1>3, <1>4 DEF EntryOf, EntryType

(* The items of a commit line. *)
LEMMA Items ==
  /\ \A t : <<t>> \o <<>> # <<>> /\ (<<t>> \o <<>>)[1] = t
  /\ \A t, u : <<t>> \o <<u>> # <<>> /\ (<<t>> \o <<u>>)[1] = t
  /\ \A u : <<>> \o <<u>> = <<u>> /\ Len(<<u>>) = 1 /\ <<u>>[1] = u /\ <<u>> # <<>>
  /\ <<>> \o <<>> = <<>>
OBVIOUS

LEMMA LineFields ==
  ASSUME NEW tag, NEW a, NEW w, NEW items, NEW line, line = Line(tag, a, w, items)
  PROVE  /\ line.tag = tag /\ line.pc = a /\ line.instr = w /\ line.items = items
         /\ Key(line) = <<a, w>>
BY DEF Line, Key

LEMMA CommitReg ==
  ASSUME NEW line, line.tag = "commit", NEW e, e.reg # None, e.mem = None, Key(line) = Key(e),
         NEW x, NEW rd, NEW v \in Nat, v < WORD, x = <<"x", rd, v>>, e.reg = <<rd, v>>,
         line.items # <<>>, line.items[1] = x
  PROVE  CommitOf(line, e)
<1>1. x[1] = "x" /\ x[2] = rd /\ x[3] = v
  OBVIOUS
<1>2. v % WORD = v
  BY WordAssumption, RemainderOf
<1>3. REG_RE(line)
  BY <1>1, Zenon DEF REG_RE
<1>4. <<line.items[1][2], line.items[1][3] % WORD>> = e.reg
  BY <1>1, <1>2, Zenon
<1> QED
  BY <1>3, <1>4, Zenon DEF CommitOf

LEMMA CommitMem ==
  ASSUME NEW line, line.tag = "commit", NEW e, e.reg = None, e.mem # None, Key(line) = Key(e),
         NEW x, NEW a, NEW v \in Nat, v < WORD, x = <<"mem", a, v>>, e.mem = <<a, v>>,
         line.items # <<>>, line.items[1] = x
  PROVE  CommitOf(line, e)
<1>1. x[1] = "mem" /\ x[2] = a /\ x[3] = v /\ Len(x) = 3 /\ "mem" # "x"
  OBVIOUS
<1>2. v % WORD = v
  BY WordAssumption, RemainderOf
<1>3. MEM_RE(line) /\ ~REG_RE(line)
  BY <1>1, Zenon DEF MEM_RE, REG_RE
<1>4. <<line.items[1][2], line.items[1][3] % WORD>> = e.mem
  BY <1>1, <1>2, Zenon
<1> QED
  BY <1>3, <1>4, Zenon DEF CommitOf

LEMMA CommitNothing ==
  ASSUME NEW line, line.tag = "commit", NEW e, e.reg = None, e.mem = None, Key(line) = Key(e),
         \/ line.items = <<>>
         \/ \E a : line.items = <<<<"mem", a>>>>
  PROVE  CommitOf(line, e)
<1>1. CASE line.items = <<>>
  BY <1>1, Zenon DEF CommitOf, REG_RE, MEM_RE, BARE_COMMIT_RE
<1>2. CASE \E a : line.items = <<<<"mem", a>>>>
  <2>1. PICK a : line.items = <<<<"mem", a>>>>
    BY <1>2
  <2>2. PICK x : x = <<"mem", a>>
    OBVIOUS
  <2>3. line.items = <<x>>
    BY <2>1, <2>2, Zenon
  <2>4. line.items # <<>> /\ Len(line.items) = 1 /\ line.items[1] = x
    BY <2>3, Items, Zenon
  <2>5. x[1] = "mem" /\ Len(x) = 2 /\ "mem" # "x" /\ 2 # 3
    BY <2>2
  <2>6. ~REG_RE(line) /\ ~MEM_RE(line) /\ MEM_READ_RE(line)
    BY <2>4, <2>5, Zenon DEF REG_RE, MEM_RE, MEM_READ_RE
  <2> QED
    BY <2>6, Zenon DEF CommitOf
<1> QED
  BY <1>1, <1>2

LEMMA LinesWritten ==
  ASSUME program \in Programs, NEW r, Ran(program, r), NEW kind, kind = program[r.pc + 1].kind
  PROVE  \E plain, commit : /\ SpikeLines(AtSpike(r, kind), kind) = <<plain, commit>>
                            /\ PlainOf(plain, EntryOf(program, r))
                            /\ CommitOf(commit, EntryOf(program, r))
<1>1. r.pc \in Nat /\ r.pc < Len(program) /\ r.reg \in Optional /\ r.mem \in Optional
  BY DEF Ran, Known
<1>2. PICK q : q = AtSpike(r, kind)
  OBVIOUS
<1>3. /\ q.pc = Rebase(r.pc)
      /\ q.reg = IF kind = "auipc" THEN <<r.reg[1], Rebase(r.reg[2])>> ELSE r.reg
      /\ q.mem = SpikeMem(r)
  BY <1>2 DEF AtSpike, SpikeMem
<1>4. r.pc < BASE_OFFSET
  BY <1>1, BaseFacts
<1>5. q.pc = r.pc + BASE_OFFSET /\ q.pc % BASE_OFFSET = r.pc
  BY <1>1, <1>3, <1>4, Rebased
<1>6. PICK e : e = EntryOf(program, r)
  OBVIOUS
<1>7. e.pc = q.pc /\ e.instr = r.pc /\ e.reg = SpikeReg(program, r) /\ e.mem = SpikeMem(r)
  BY <1>5, <1>6 DEF EntryOf
<1> DEFINE reg == IF q.reg = None \/ q.reg[1] = 0 THEN <<>> ELSE <<<<"x", q.reg[1], q.reg[2]>>>>
           mem == CASE kind = "store" -> <<<<"mem", q.mem[1], q.mem[2]>>>>
                    [] kind = "load" -> <<<<"mem", Rebase(DataAddress)>>>>
                    [] OTHER -> <<>>
           plain == Line("plain", q.pc, q.pc % BASE_OFFSET, <<>>)
           commit == Line("commit", q.pc, q.pc % BASE_OFFSET, reg \o mem)
<1>8. SpikeLines(q, kind) = <<plain, commit>>
  BY Zenon DEF SpikeLines
<1>9. /\ kind = "store" => mem = <<<<"mem", q.mem[1], q.mem[2]>>>>
      /\ kind = "load" => mem = <<<<"mem", Rebase(DataAddress)>>>>
      /\ kind # "store" /\ kind # "load" => mem = <<>>
  OBVIOUS
<1> HIDE DEF reg, mem
<1>10. plain.tag = "plain" /\ plain.pc = q.pc /\ plain.instr = q.pc % BASE_OFFSET
  BY LineFields
<1>11. commit.tag = "commit" /\ commit.items = reg \o mem /\ Key(commit) = <<q.pc, q.pc % BASE_OFFSET>>
  <2>1. PICK items : items = reg \o mem
    OBVIOUS
  <2>2. commit = Line("commit", q.pc, q.pc % BASE_OFFSET, items)
    BY <2>1, Zenon
  <2> HIDE DEF commit
  <2>3. commit.tag = "commit" /\ commit.items = items /\ Key(commit) = <<q.pc, q.pc % BASE_OFFSET>>
    BY <2>2, LineFields
  <2> QED
    BY <2>1, <2>3, Zenon
<1> HIDE DEF plain, commit
<1>12. PlainOf(plain, e)
  BY <1>5, <1>7, <1>10, Zenon DEF PlainOf
<1>13. Key(commit) = Key(e)
  BY <1>5, <1>7, <1>11, Zenon DEF Key
<1>14. CASE kind \in RegKinds
  <2>1. /\ r.mem = None /\ r.reg \in Pairs /\ r.reg[2] < WORD /\ r.reg # None
        /\ r.reg[1] \in Nat /\ r.reg[2] \in Nat /\ r.reg = <<r.reg[1], r.reg[2]>>
    BY <1>14, PairNotNone DEF Ran
  <2>2. e.mem = None
    BY <1>7, <2>1, Zenon DEF SpikeMem
  <2>3. PICK v : v = IF kind = "auipc" THEN Rebase(r.reg[2]) ELSE r.reg[2]
    OBVIOUS
  <2>4. v \in Nat /\ v < WORD
    BY <2>1, <2>3, RebaseType
  <2>5. q.reg = <<r.reg[1], v>>
    BY <1>3, <2>1, <2>3, Zenon
  <2>6. <<r.reg[1], v>>[1] = r.reg[1] /\ <<r.reg[1], v>>[2] = v /\ <<r.reg[1], v>> # None
    BY <2>1, <2>4, PairNotNone
  <2>7. q.reg # None /\ q.reg[1] = r.reg[1] /\ q.reg[2] = v
    BY <2>5, <2>6, Zenon
  <2>8. kind # "store"
    BY <1>14 DEF RegKinds
  <2>9. mem = <<>> \/ \E a : mem = <<<<"mem", a>>>>
    <3>1. CASE kind = "load"
      BY <1>9, <3>1
    <3>2. CASE kind # "load"
      BY <1>9, <2>8, <3>2, Zenon
    <3> QED
      BY <3>1, <3>2
  <2>10. CASE r.reg[1] = 0
    <3>1. reg = <<>>
      BY <2>7, <2>10, Zenon DEF reg
    <3>2. e.reg = None
      BY <1>7, <2>10, Zenon DEF SpikeReg
    <3>3. commit.items = <<>> \/ \E a : commit.items = <<<<"mem", a>>>>
      BY <1>11, <2>9, <3>1, Items, Zenon
    <3>4. CommitOf(commit, e)
      BY <1>11, <1>13, <2>2, <3>2, <3>3, CommitNothing, Zenon
    <3> QED
      BY <1>2, <1>6, <1>8, <1>12, <3>4, Zenon
  <2>11. CASE r.reg[1] # 0
    <3>1. PICK x : x = <<"x", r.reg[1], v>>
      OBVIOUS
    <3>2. reg = <<x>>
      BY <2>7, <2>11, <3>1, Zenon DEF reg
    <3>3. commit.items # <<>> /\ commit.items[1] = x
      <4>1. \A u : <<x>> \o <<u>> # <<>> /\ (<<x>> \o <<u>>)[1] = x
        BY Items, Zenon
      <4>2. <<x>> \o <<>> # <<>> /\ (<<x>> \o <<>>)[1] = x
        BY Items, Zenon
      <4>3. CASE mem = <<>>
        BY <1>11, <3>2, <4>2, <4>3, Zenon
      <4>4. CASE \E a : mem = <<<<"mem", a>>>>
        <5>1. PICK u : mem = <<u>>
          BY <4>4
        <5> QED
          BY <1>11, <3>2, <4>1, <5>1, Zenon
      <4> QED
        BY <2>9, <4>3, <4>4
    <3>4. e.reg = <<r.reg[1], v>> /\ e.reg # None
      BY <1>7, <2>1, <2>3, <2>6, <2>11, Zenon DEF SpikeReg
    <3>5. CommitOf(commit, e)
      BY <1>11, <1>13, <2>2, <2>4, <3>1, <3>3, <3>4, CommitReg
    <3> QED
      BY <1>2, <1>6, <1>8, <1>12, <3>5, Zenon
  <2> QED
    BY <2>10, <2>11
<1>15. CASE kind = "store"
  <2>1. /\ r.reg = None /\ r.mem \in Pairs /\ r.mem[2] < WORD /\ r.mem # None
        /\ r.mem[1] \in Nat /\ r.mem[2] \in Nat
    BY <1>15, PairNotNone DEF Ran
  <2>2. q.reg = None /\ e.reg = None
    <3>1. kind # "auipc"
      BY <1>15
    <3> QED
      BY <1>3, <1>7, <2>1, <3>1, Zenon DEF SpikeReg
  <2>3. PICK a, v : a = Rebase(r.mem[1]) /\ v = r.mem[2]
    OBVIOUS
  <2>4. a \in Nat /\ v \in Nat /\ v < WORD
    BY <2>1, <2>3, RebaseType
  <2>5. q.mem = <<a, v>> /\ e.mem = <<a, v>>
    BY <1>3, <1>7, <2>1, <2>3, Zenon DEF SpikeMem
  <2>6. <<a, v>>[1] = a /\ <<a, v>>[2] = v /\ <<a, v>> # None
    BY <2>4, PairNotNone
  <2>7. q.mem[1] = a /\ q.mem[2] = v /\ e.mem # None
    BY <2>5, <2>6, Zenon
  <2>8. PICK x : x = <<"mem", a, v>>
    OBVIOUS
  <2>9. reg = <<>> /\ mem = <<x>>
    BY <1>9, <1>15, <2>2, <2>7, <2>8, Zenon DEF reg
  <2>10. commit.items # <<>> /\ commit.items[1] = x
    BY <1>11, <2>9, Items, Zenon
  <2>11. CommitOf(commit, e)
    BY <1>11, <1>13, <2>2, <2>4, <2>5, <2>7, <2>8, <2>10, CommitMem
  <2> QED
    BY <1>2, <1>6, <1>8, <1>12, <2>11, Zenon
<1>16. CASE kind \notin RegKinds \cup {"store"}
  <2>1. r.reg = None /\ r.mem = None
    BY <1>16 DEF Ran
  <2>2. kind # "auipc" /\ kind # "store" /\ kind # "load"
    BY <1>16 DEF RegKinds
  <2>3. q.reg = None /\ e.reg = None /\ e.mem = None
    BY <1>3, <1>7, <2>1, <2>2, Zenon DEF SpikeReg, SpikeMem
  <2>4. reg = <<>> /\ mem = <<>>
    BY <1>9, <2>2, <2>3, Zenon DEF reg
  <2>5. commit.items = <<>>
    BY <1>11, <2>4, Items, Zenon
  <2>6. CommitOf(commit, e)
    BY <1>11, <1>13, <2>3, <2>5, CommitNothing, Zenon
  <2> QED
    BY <1>2, <1>6, <1>8, <1>12, <2>6, Zenon
<1> QED
  BY <1>14, <1>15, <1>16

IsSeq(s) == \E B : s \in Seq(B)
Entries(p, tr) == [i \in 1 .. Len(tr) + 1 |-> IF i = 1 THEN Boot ELSE EntryOf(p, tr[i - 1])]

LEMMA TwoMore ==
  ASSUME NEW log, IsSeq(log), NEW a, NEW b
  PROVE  /\ IsSeq(log \o <<a, b>>) /\ Len(log) \in Nat /\ Len(log \o <<a, b>>) = Len(log) + 2
         /\ \A k \in 1 .. Len(log) : (log \o <<a, b>>)[k] = log[k]
         /\ (log \o <<a, b>>)[Len(log) + 1] = a /\ (log \o <<a, b>>)[Len(log) + 2] = b
<1>1. PICK A : log \in Seq(A)
  BY DEF IsSeq
<1> DEFINE B == A \cup {a, b}
<1>2. log \in Seq(B) /\ <<a, b>> \in Seq(B) /\ Len(<<a, b>>) = 2
      /\ <<a, b>>[1] = a /\ <<a, b>>[2] = b
  BY <1>1
<1> HIDE DEF B
<1>3. PICK t : t = <<a, b>>
  OBVIOUS
<1>4. Concatenated(log \o t, log, t, B)
  BY <1>2, <1>3, Concat, Zenon
<1>5. PICK u : u = log \o t
  OBVIOUS
<1>6. /\ u \in Seq(B) /\ Len(u) = Len(log) + Len(t)
      /\ \A k \in 1 .. Len(log) : u[k] = log[k]
      /\ \A k \in 1 .. Len(t) : u[Len(log) + k] = t[k]
  BY <1>4, <1>5, Zenon DEF Concatenated
<1>7. Len(t) = 2 /\ t[1] = a /\ t[2] = b /\ 1 \in 1 .. 2 /\ 2 \in 1 .. 2 /\ Len(log) \in Nat
  BY <1>1, <1>2, <1>3
<1> QED
  BY <1>3, <1>5, <1>6, <1>7, Zenon DEF IsSeq

LEMMA LogExtended ==
  ASSUME NEW log, IsSeq(log), NEW es, NEW fs, NEW n \in Nat, EntryLog(log, es, n),
         \A i \in 1 .. n : fs[i] = es[i], fs[n + 1] \in EntryType,
         NEW a, NEW b, PlainOf(a, fs[n + 1]), CommitOf(b, fs[n + 1])
  PROVE  EntryLog(log \o <<a, b>>, fs, n + 1)
<1>1. PICK u : u = log \o <<a, b>>
  OBVIOUS
<1>2. /\ Len(log) \in Nat /\ Len(u) = Len(log) + 2
      /\ \A k \in 1 .. Len(log) : u[k] = log[k]
      /\ u[Len(log) + 1] = a /\ u[Len(log) + 2] = b
  <2>1. /\ Len(log) \in Nat /\ Len(log \o <<a, b>>) = Len(log) + 2
        /\ \A k \in 1 .. Len(log) : (log \o <<a, b>>)[k] = log[k]
        /\ (log \o <<a, b>>)[Len(log) + 1] = a /\ (log \o <<a, b>>)[Len(log) + 2] = b
    BY TwoMore
  <2> QED
    BY <1>1, <2>1, Zenon
<1>3. /\ Len(log) = 2 * n + 1 /\ log[1].tag = "warning"
      /\ \A i \in 1 .. n : es[i] \in EntryType /\ PlainOf(log[2 * i], es[i])
                                                /\ CommitOf(log[2 * i + 1], es[i])
  BY Zenon DEF EntryLog
<1>4. Len(u) = 2 * (n + 1) + 1 /\ 1 \in 1 .. Len(log)
  BY <1>2, <1>3
<1>5. u[1].tag = "warning"
  BY <1>2, <1>3, <1>4, Zenon
<1>6. ASSUME NEW i \in 1 .. n + 1
      PROVE  fs[i] \in EntryType /\ PlainOf(u[2 * i], fs[i]) /\ CommitOf(u[2 * i + 1], fs[i])
  <2>1. CASE i = n + 1
    <3>1. 2 * i = Len(log) + 1 /\ 2 * i + 1 = Len(log) + 2
      BY <1>3, <2>1
    <3> QED
      BY <1>2, <2>1, <3>1, Zenon
  <2>2. CASE i # n + 1
    <3>1. i \in 1 .. n /\ 2 * i \in 1 .. Len(log) /\ 2 * i + 1 \in 1 .. Len(log)
      BY <1>3, <2>2
    <3> QED
      BY <1>2, <1>3, <3>1, Zenon
  <2> QED
    BY <2>1, <2>2
<1>7. EntryLog(u, fs, n + 1)
  BY <1>4, <1>5, <1>6, Zenon DEF EntryLog
<1> QED
  BY <1>1, <1>7, Zenon

LEMMA EntriesAt ==
  ASSUME NEW p, NEW tr, Len(tr) \in Nat
  PROVE  /\ Entries(p, tr)[1] = Boot
         /\ \A i \in 1 .. Len(tr) : Entries(p, tr)[i + 1] = EntryOf(p, tr[i])
<1> DEFINE es == [i \in 1 .. Len(tr) + 1 |-> IF i = 1 THEN Boot ELSE EntryOf(p, tr[i - 1])]
<1>1. Entries(p, tr) = es
  BY Zenon DEF Entries
<1>2. ASSUME NEW i \in 1 .. Len(tr) + 1
      PROVE  es[i] = IF i = 1 THEN Boot ELSE EntryOf(p, tr[i - 1])
  BY Zenon
<1> HIDE DEF es
<1>3. es[1] = Boot
  <2>1. 1 \in 1 .. Len(tr) + 1
    OBVIOUS
  <2> QED
    BY <1>2, <2>1, Zenon
<1>4. ASSUME NEW i \in 1 .. Len(tr) PROVE es[i + 1] = EntryOf(p, tr[i])
  <2>1. PICK j : j = i + 1
    OBVIOUS
  <2>2. j \in 1 .. Len(tr) + 1 /\ j # 1 /\ j - 1 = i
    BY <2>1
  <2> QED
    BY <1>2, <2>1, <2>2, Zenon
<1> QED
  BY <1>1, <1>3, <1>4, Zenon

LEMMA BootInType ==
  ASSUME program \in Programs
  PROVE  Boot \in EntryType /\ Boot.pc = 1 /\ Boot.instr = 0
<1>1. WORD \in Nat /\ BASE_OFFSET \in Nat /\ BASE_OFFSET >= 2 /\ 2 * BASE_OFFSET <= WORD
  BY BaseFacts
<1>2. 1 \in 0 .. WORD - 1 /\ 0 \in 0 .. WORD - 1 /\ 5 \in Nat
  BY <1>1
<1>3. <<5, BASE_OFFSET>> \in Optional /\ None \in Optional
  BY <1>1, <1>2, PairNotNone, Zenon DEF Optional
<1> QED
  BY <1>2, <1>3 DEF Boot, BootPc, EntryType

LEMMA BootWritten ==
  ASSUME program \in Programs, NEW log,
         log = <<[tag |-> "warning"], Line("plain", BootPc, 0, <<>>),
                 Line("commit", BootPc, 0, <<<<"x", 5, BASE_OFFSET>>>>)>>
  PROVE  IsSeq(log) /\ EntryLog(log, Entries(program, <<>>), 1)
<1>1. PICK w, a, b : /\ w = [tag |-> "warning"] /\ a = Line("plain", BootPc, 0, <<>>)
                     /\ b = Line("commit", BootPc, 0, <<<<"x", 5, BASE_OFFSET>>>>)
  OBVIOUS
<1>2. log = <<w, a, b>>
  BY <1>1, Zenon
<1>3. log \in Seq({w, a, b}) /\ Len(log) = 3 /\ log[1] = w /\ log[2] = a /\ log[3] = b
  BY <1>2
<1>4. w.tag = "warning"
  BY <1>1
<1>5. PICK es : es = Entries(program, <<>>)
  OBVIOUS
<1>6. es[1] = Boot
  <2>1. Len(<<>>) \in Nat
    OBVIOUS
  <2> QED
    BY <1>5, <2>1, EntriesAt, Zenon
<1>7. Boot \in EntryType /\ Boot.pc = 1 /\ Boot.instr = 0 /\ Boot.reg = <<5, BASE_OFFSET>>
      /\ Boot.mem = None
  BY BootInType DEF Boot
<1>8. PlainOf(a, Boot)
  <2>1. a.tag = "plain" /\ a.pc = BootPc /\ a.instr = 0
    BY <1>1, LineFields
  <2> QED
    BY <1>7, <2>1 DEF PlainOf, BootPc
<1>9. CommitOf(b, Boot)
  <2>1. PICK x : x = <<"x", 5, BASE_OFFSET>>
    OBVIOUS
  <2>2. b = Line("commit", BootPc, 0, <<x>>)
    BY <1>1, <2>1, Zenon
  <2>3. b.tag = "commit" /\ b.items = <<x>> /\ Key(b) = <<BootPc, 0>>
    BY <2>2, LineFields
  <2>4. b.items # <<>> /\ b.items[1] = x
    BY <2>3, Items, Zenon
  <2>5. Key(b) = Key(Boot)
    BY <1>7, <2>3, Zenon DEF Key, BootPc
  <2>6. BASE_OFFSET \in Nat /\ BASE_OFFSET < WORD /\ 5 \in Nat
    BY BaseFacts
  <2>7. Boot.reg # None
    BY <1>7, <2>6, PairNotNone
  <2> QED
    BY <1>7, <2>1, <2>3, <2>4, <2>5, <2>6, <2>7, CommitReg
<1>10. ASSUME NEW i \in 1 .. 1
       PROVE  es[i] \in EntryType /\ PlainOf(log[2 * i], es[i]) /\ CommitOf(log[2 * i + 1], es[i])
  <2>1. i = 1 /\ 2 * i = 2 /\ 2 * i + 1 = 3
    OBVIOUS
  <2> QED
    BY <1>3, <1>6, <1>7, <1>8, <1>9, <2>1, Zenon
<1>11. 2 * 1 + 1 = 3
  OBVIOUS
<1> QED
  BY <1>3, <1>4, <1>5, <1>10, <1>11, Zenon DEF EntryLog, IsSeq

LEMMA EntriesLonger ==
  ASSUME NEW p, NEW tr \in Seq(Known), NEW r \in Known
  PROVE  /\ \A i \in 1 .. Len(tr) + 1 : Entries(p, Append(tr, r))[i] = Entries(p, tr)[i]
         /\ Entries(p, Append(tr, r))[(Len(tr) + 1) + 1] = EntryOf(p, r)
<1>1. PICK u : u = Append(tr, r)
  OBVIOUS
<1>2. /\ Len(tr) \in Nat /\ Len(u) = Len(tr) + 1 /\ Len(u) \in Nat
      /\ \A k \in 1 .. Len(tr) : u[k] = tr[k]
      /\ u[Len(tr) + 1] = r
  BY <1>1, AppendTo
<1>3. PICK es, fs : es = Entries(p, tr) /\ fs = Entries(p, u)
  OBVIOUS
<1>4. /\ es[1] = Boot /\ fs[1] = Boot
      /\ \A i \in 1 .. Len(tr) : es[i + 1] = EntryOf(p, tr[i])
      /\ \A i \in 1 .. Len(u) : fs[i + 1] = EntryOf(p, u[i])
  <2>0. Len(tr) \in Nat /\ Len(u) \in Nat
    BY <1>2
  <2>1. es[1] = Boot /\ \A i \in 1 .. Len(tr) : es[i + 1] = EntryOf(p, tr[i])
    BY <1>3, <2>0, EntriesAt, ZenonT(60)
  <2>2. fs[1] = Boot /\ \A i \in 1 .. Len(u) : fs[i + 1] = EntryOf(p, u[i])
    BY <1>3, <2>0, EntriesAt, ZenonT(60)
  <2> QED
    BY <2>1, <2>2, Zenon
<1>5. ASSUME NEW i \in 1 .. Len(tr) + 1 PROVE fs[i] = es[i]
  <2>1. CASE i = 1
    BY <1>4, <2>1, Zenon
  <2>2. CASE i # 1
    <3>1. PICK j : j = i - 1
      OBVIOUS
    <3>2. j \in 1 .. Len(tr) /\ j \in 1 .. Len(u) /\ i = j + 1
      BY <1>2, <2>2, <3>1
    <3> QED
      BY <1>2, <1>4, <3>2, Zenon
  <2> QED
    BY <2>1, <2>2
<1>6. fs[(Len(tr) + 1) + 1] = EntryOf(p, r)
  <2>1. Len(tr) + 1 \in 1 .. Len(u)
    BY <1>2
  <2> QED
    BY <1>2, <1>4, <2>1, Zenon
<1> QED
  BY <1>1, <1>3, <1>5, <1>6, Zenon

(* Whether a word writes depends on the word, not on the visit to it. *)
WritesReg(p, a) == p[a + 1].kind \in RegKinds /\ p[a + 1].rd # 0
WritesMem(p, a) == p[a + 1].kind = "store"

LEMMA WritesByWord ==
  ASSUME program \in Programs, NEW r, Ran(program, r)
  PROVE  /\ SpikeReg(program, r) # None <=> WritesReg(program, r.pc)
         /\ SpikeMem(r) # None <=> WritesMem(program, r.pc)
<1>1. PICK kind : kind = program[r.pc + 1].kind
  OBVIOUS
<1>2. CASE kind \in RegKinds
  <2>1. r.mem = None /\ r.reg \in Pairs /\ r.reg[1] = program[r.pc + 1].rd
    BY <1>1, <1>2, Zenon DEF Ran
  <2>2. r.reg # None /\ r.reg[1] \in Nat /\ r.reg[2] \in Nat
    BY <2>1, PairNotNone
  <2>3. <<r.reg[1], Rebase(r.reg[2])>> # None
    BY <2>2, RebaseType, PairNotNone
  <2>4. kind # "store"
    BY <1>2 DEF RegKinds
  <2> QED
    BY <1>1, <1>2, <2>1, <2>2, <2>3, <2>4, Zenon DEF SpikeReg, SpikeMem, WritesReg, WritesMem
<1>3. CASE kind = "store"
  <2>1. kind \notin RegKinds
    BY <1>3 DEF RegKinds
  <2>2. r.reg = None /\ r.mem \in Pairs
    BY <1>1, <1>3, Zenon DEF Ran
  <2>3. r.mem # None /\ r.mem[1] \in Nat /\ r.mem[2] \in Nat
    BY <2>2, PairNotNone
  <2>4. <<Rebase(r.mem[1]), r.mem[2]>> # None
    BY <2>3, RebaseType, PairNotNone
  <2> QED
    BY <1>1, <1>3, <2>1, <2>2, <2>3, <2>4, Zenon DEF SpikeReg, SpikeMem, WritesReg, WritesMem
<1>4. CASE kind \notin RegKinds \cup {"store"}
  <2>1. r.reg = None /\ r.mem = None
    BY <1>1, <1>4, Zenon DEF Ran
  <2> QED
    BY <1>1, <1>4, <2>1, Zenon DEF SpikeReg, SpikeMem, WritesReg, WritesMem
<1> QED
  BY <1>2, <1>3, <1>4

LEMMA KeysTell ==
  ASSUME program \in Programs, NEW r, Ran(program, r), NEW s, Ran(program, s)
  PROVE  /\ Key(EntryOf(program, r)) # Key(Boot)
         /\ Key(EntryOf(program, r)) = Key(EntryOf(program, s)) => r.pc = s.pc
<1>1. r.pc \in Nat /\ s.pc \in Nat /\ BASE_OFFSET \in Nat /\ BASE_OFFSET >= 2
  BY BaseFacts DEF Ran, Known
<1>2. /\ Key(EntryOf(program, r)) = <<r.pc + BASE_OFFSET, r.pc>>
      /\ Key(EntryOf(program, s)) = <<s.pc + BASE_OFFSET, s.pc>>
      /\ Key(Boot) = <<1, 0>>
  BY DEF Key, EntryOf, Boot, BootPc
<1>3. <<r.pc + BASE_OFFSET, r.pc>> # <<1, 0>>
  <2>1. r.pc + BASE_OFFSET # 1
    BY <1>1
  <2> QED
    BY <2>1
<1>4. <<r.pc + BASE_OFFSET, r.pc>> = <<s.pc + BASE_OFFSET, s.pc>> => r.pc = s.pc
  OBVIOUS
<1> QED
  BY <1>2, <1>3, <1>4, Zenon

LEMMA EntriesAlike ==
  ASSUME program \in Programs, NEW tr \in Seq(Known),
         \A i \in 1 .. Len(tr) : Ran(program, tr[i])
  PROVE  AlikeEntries(Entries(program, tr), Len(tr) + 1)
<1>1. PICK es, n : es = Entries(program, tr) /\ n = Len(tr) + 1
  OBVIOUS
<1>2. /\ es[1] = Boot /\ Len(tr) \in Nat /\ n \in Nat
      /\ \A i \in 1 .. Len(tr) : es[i + 1] = EntryOf(program, tr[i])
  <2>1. Len(tr) \in Nat /\ Len(tr) + 1 \in Nat
    OBVIOUS
  <2> QED
    BY <1>1, <2>1, EntriesAt, ZenonT(60)
<1>3. ASSUME NEW i \in 1 .. n, i # 1
      PROVE  \E r : Ran(program, r) /\ es[i] = EntryOf(program, r)
  <2>1. PICK j : j = i - 1
    OBVIOUS
  <2>2. j \in 1 .. Len(tr) /\ i = j + 1
    BY <1>1, <1>2, <1>3, <2>1
  <2> QED
    BY <1>2, <2>2, Zenon
<1>4. ASSUME NEW i \in 1 .. n, NEW j \in 1 .. n, Key(es[i]) = Key(es[j])
      PROVE  /\ es[i].reg = None => es[j].reg = None
             /\ es[i].mem = None => es[j].mem = None
  <2>1. CASE i = 1 /\ j = 1
    BY <2>1, Zenon
  <2>2. CASE i # 1 /\ j # 1
    <3>1. PICK r : Ran(program, r) /\ es[i] = EntryOf(program, r)
      BY <1>3, <2>2, Zenon
    <3>2. PICK s : Ran(program, s) /\ es[j] = EntryOf(program, s)
      BY <1>3, <2>2, Zenon
    <3>3. r.pc = s.pc
      BY <1>4, <3>1, <3>2, KeysTell, Zenon
    <3>4. /\ es[i].reg = SpikeReg(program, r) /\ es[i].mem = SpikeMem(r)
          /\ es[j].reg = SpikeReg(program, s) /\ es[j].mem = SpikeMem(s)
      BY <3>1, <3>2 DEF EntryOf
    <3> QED
      BY <3>1, <3>2, <3>3, <3>4, WritesByWord, Zenon
  <2>3. CASE i = 1 /\ j # 1
    <3>1. PICK s : Ran(program, s) /\ es[j] = EntryOf(program, s)
      BY <1>3, <2>3, Zenon
    <3> QED
      BY <1>2, <1>4, <2>3, <3>1, KeysTell, Zenon
  <2>4. CASE i # 1 /\ j = 1
    <3>1. PICK s : Ran(program, s) /\ es[i] = EntryOf(program, s)
      BY <1>3, <2>4, Zenon
    <3> QED
      BY <1>2, <1>4, <2>4, <3>1, KeysTell, Zenon
  <2> QED
    BY <2>1, <2>2, <2>3, <2>4
<1>5. /\ \A i \in 1 .. n : KeysOf(es, n)[i] = Key(es[i])
      /\ \A i \in 1 .. n : RegsOf(es, n)[i] = es[i].reg
      /\ \A i \in 1 .. n : MemsOf(es, n)[i] = es[i].mem
  BY Zenon DEF KeysOf, RegsOf, MemsOf
<1>6. Alike(KeysOf(es, n), RegsOf(es, n), n) /\ Alike(KeysOf(es, n), MemsOf(es, n), n)
  BY <1>4, <1>5, ZenonT(60) DEF Alike
<1> QED
  BY <1>1, <1>6, Zenon DEF AlikeEntries

-----------------------------------------------------------------------------
(* The inductive invariant of Spike's side: behind the boot stub its log   *)
(* holds the entries of its trace, and it stops when the budget is spent.  *)

SpikeInv ==
  /\ pc = 0 => trace = <<>>
  /\ pc # 0 => /\ IsSeq(spike_log)
               /\ EntryLog(spike_log, Entries(program, trace), Len(trace) + 1)
  /\ \A i \in 1 .. Len(trace) : Ran(program, trace[i])
  /\ Len(trace) > 0 => trace[1].pc = 0
  /\ Len(trace) = 0 => pc \in {0, 1}
  /\ phase # "spike" => Len(trace) + 1 = SPIKE_BUDGET

LEMMA SpikeInvInit ==
  ASSUME Init
  PROVE  SpikeInv
<1>1. pc = 0 /\ trace = <<>> /\ phase = "spike"
  BY DEF Init
<1>2. Len(<<>>) = 0 /\ 1 .. Len(<<>>) = {} /\ ~(Len(<<>>) > 0) /\ 0 \in {0, 1}
  OBVIOUS
<1> QED
  BY <1>1, <1>2, Zenon DEF SpikeInv

LEMMA SpikeLogStep ==
  ASSUME SpikeType, SpikeInv, SpikeStep
  PROVE  SpikeInv' /\ \E r : /\ trace' = Append(trace, r) /\ Ran(program, r)
                             /\ r \in Known /\ r.pc = pc - 1
<1>1. /\ program \in Programs /\ pc \in 0 .. Len(program) /\ trace \in Seq(Known)
      /\ Len(program) \in Nat /\ 0 < Len(program)
  BY ProgramLength DEF SpikeType
<1>2. /\ pc > 0 /\ phase = "spike" /\ phase' = phase /\ program' = program
  BY DEF SpikeStep
<1>3. pc \in 1 .. Len(program) /\ pc # 0
  BY <1>1, <1>2
<1>4. PICK r \in Results(pc) :
        /\ trace' = Append(trace, r)
        /\ spike_log' = spike_log \o SpikeLines(AtSpike(r, instr.kind), instr.kind)
  BY DEF SpikeStep
<1>5. Ran(program, r) /\ r.pc = pc - 1
  BY <1>1, <1>3, <1>4, ResultsRan, Zenon
<1>6. r \in Known
  BY <1>5, Zenon DEF Ran
<1>7. instr.kind = program[r.pc + 1].kind
  <2>1. r.pc + 1 = pc
    BY <1>3, <1>5
  <2> QED
    BY <2>1, Zenon DEF instr
<1>8. PICK a, b : /\ SpikeLines(AtSpike(r, instr.kind), instr.kind) = <<a, b>>
                  /\ PlainOf(a, EntryOf(program, r)) /\ CommitOf(b, EntryOf(program, r))
  BY <1>1, <1>5, <1>7, LinesWritten, Zenon
<1>9. spike_log' = spike_log \o <<a, b>>
  BY <1>4, <1>8, Zenon
<1>10. PICK es, fs, n : /\ es = Entries(program, trace) /\ fs = Entries(program, trace')
                        /\ n = Len(trace) + 1
  OBVIOUS
<1>11. /\ \A i \in 1 .. n : fs[i] = es[i]
       /\ fs[n + 1] = EntryOf(program, r)
  BY <1>1, <1>4, <1>6, <1>10, EntriesLonger, Zenon
<1>12. fs[n + 1] \in EntryType
  BY <1>1, <1>5, <1>11, EntryInType, Zenon
<1>13. IsSeq(spike_log) /\ EntryLog(spike_log, es, n) /\ n \in Nat
  BY <1>1, <1>3, <1>10 DEF SpikeInv
<1>14. EntryLog(spike_log', fs, n + 1)
  BY <1>8, <1>9, <1>11, <1>12, <1>13, LogExtended, Zenon
<1>15. IsSeq(spike_log')
  <2>1. IsSeq(spike_log \o <<a, b>>)
    BY <1>13, TwoMore, Zenon
  <2> QED
    BY <1>9, <2>1, Zenon
<1>16. /\ Len(trace) \in Nat /\ Len(trace') = Len(trace) + 1
       /\ \A k \in 1 .. Len(trace) : trace'[k] = trace[k]
       /\ trace'[Len(trace) + 1] = r
  BY <1>1, <1>4, <1>6, AppendTo
<1>17. EntryLog(spike_log', Entries(program', trace'), Len(trace') + 1)
  BY <1>2, <1>10, <1>14, <1>16, Zenon
<1>18. ASSUME NEW i \in 1 .. Len(trace') PROVE Ran(program', trace'[i])
  <2>1. CASE i \in 1 .. Len(trace)
    BY <1>2, <1>16, <2>1, Zenon DEF SpikeInv
  <2>2. CASE i = Len(trace) + 1
    BY <1>2, <1>5, <1>16, <2>2, Zenon
  <2> QED
    BY <1>16, <2>1, <2>2
<1>19. trace'[1].pc = 0
  <2>1. CASE Len(trace) = 0
    <3>1. pc = 1
      BY <1>3, <2>1 DEF SpikeInv
    <3>2. r.pc = 0 /\ Len(trace) + 1 = 1
      BY <1>5, <2>1, <3>1
    <3> QED
      BY <1>16, <3>2, Zenon
  <2>2. CASE Len(trace) # 0
    <3>1. Len(trace) > 0 /\ 1 \in 1 .. Len(trace)
      BY <1>16, <2>2
    <3> QED
      BY <1>16, <3>1, Zenon DEF SpikeInv
  <2> QED
    BY <2>1, <2>2
<1>20. Len(trace') # 0 /\ ~(phase' # "spike")
  BY <1>2, <1>16
<1>21. pc' # 0
  <2>1. /\ instr.back \in Nat
        /\ instr.kind = "branch" => instr.back < pc
    BY <1>1, <1>3, ProgramType, Zenon DEF instr
  <2>2. CASE instr.kind = "branch" /\ pc' = pc - instr.back
    BY <1>3, <2>1, <2>2
  <2>3. CASE pc' = IF instr.kind = "halt" THEN pc ELSE pc + 1
    BY <1>3, <2>3
  <2> QED
    BY <2>2, <2>3 DEF SpikeStep
<1>22. SpikeInv'
  BY <1>15, <1>17, <1>18, <1>19, <1>20, <1>21, Zenon DEF SpikeInv
<1> QED
  BY <1>4, <1>5, <1>6, <1>22, Zenon

LEMMA SpikeInvStep ==
  ASSUME SpikeType, SpikeInv, [Next]_vars
  PROVE  SpikeInv'
<1>1. CASE SpikeBoot
  <2>1. /\ phase = "spike" /\ pc = 0 /\ pc' = 1 /\ phase' = phase /\ program' = program
        /\ trace' = trace /\ program \in Programs
    BY <1>1 DEF SpikeBoot, SpikeType
  <2>2. trace = <<>> /\ Len(<<>>) = 0 /\ 1 .. Len(<<>>) = {} /\ 0 + 1 = 1 /\ ~(Len(<<>>) > 0)
    BY <2>1 DEF SpikeInv
  <2>3. PICK log : log = spike_log'
    OBVIOUS
  <2>4. log = <<[tag |-> "warning"], Line("plain", BootPc, 0, <<>>),
                Line("commit", BootPc, 0, <<<<"x", 5, BASE_OFFSET>>>>)>>
    BY <1>1, <2>3, Zenon DEF SpikeBoot
  <2>5. IsSeq(log) /\ EntryLog(log, Entries(program, <<>>), 1)
    BY <2>1, <2>4, BootWritten, Zenon
  <2>6. IsSeq(spike_log') /\ EntryLog(spike_log', Entries(program', trace'), Len(trace') + 1)
    BY <2>1, <2>2, <2>3, <2>5, Zenon
  <2>7. pc' # 0 /\ pc' \in {0, 1}
    BY <2>1
  <2> QED
    BY <2>1, <2>2, <2>6, <2>7, Zenon DEF SpikeInv
<1>2. CASE SpikeStep
  BY <1>2, SpikeLogStep
<1>3. CASE SpikeDone
  <2>1. /\ program' = program /\ pc' = pc /\ trace' = trace /\ spike_log' = spike_log
        /\ Len(trace) + 1 = SPIKE_BUDGET
    BY <1>3 DEF SpikeDone, spike_vars
  <2> QED
    BY <2>1, Zenon DEF SpikeInv
<1>4. CASE SvCycle \/ SvDone \/ UNCHANGED vars
  <2>1. /\ program' = program /\ pc' = pc /\ trace' = trace /\ spike_log' = spike_log
    BY <1>4 DEF SvCycle, SvDone, vars, spike_vars
  <2>2. phase' # "spike" => phase # "spike"
    BY <1>4 DEF SvCycle, SvDone, vars
  <2> QED
    BY <2>1, <2>2, Zenon DEF SpikeInv
<1> QED
  BY <1>1, <1>2, <1>3, <1>4 DEF Next

(* The records behind the boot stub's are the entries of the trace. *)
Trimmed(records, p, tr) ==
  /\ records \in Seq(EntryType) /\ Len(records) = Len(tr)
  /\ \A i \in 1 .. Len(tr) : records[i] = EntryOf(p, tr[i])

LEMMA SeqFrom ==
  ASSUME NEW B, NEW s \in Seq(B), NEW n \in Nat, Len(s) = n + 1
  PROVE  /\ SubSeq(s, 2, Len(s)) \in Seq(B) /\ Len(SubSeq(s, 2, Len(s))) = n
         /\ \A i \in 1 .. n : SubSeq(s, 2, Len(s))[i] = s[i + 1]
OBVIOUS

LEMMA BootTrimmed ==
  ASSUME program \in Programs, NEW tr \in Seq(Known), Len(tr) > 0, tr[1].pc = 0,
         \A i \in 1 .. Len(tr) : Ran(program, tr[i]),
         NEW recs, Same(recs, Entries(program, tr), Len(tr) + 1)
  PROVE  Trimmed(trim_boot_stub(recs, BASE_OFFSET), program, tr)
<1>1. PICK es, n : es = Entries(program, tr) /\ n = Len(tr)
  OBVIOUS
<1>2. n \in Nat /\ n > 0
  BY <1>1
<1>3. es[1] = Boot /\ \A i \in 1 .. n : es[i + 1] = EntryOf(program, tr[i])
  BY <1>1, <1>2, EntriesAt, Zenon
<1>4. recs \in Seq(EntryType) /\ Len(recs) = n + 1 /\ \A i \in 1 .. n + 1 : recs[i] = es[i]
  BY <1>1, Zenon DEF Same
<1>5. DOMAIN recs = 1 .. n + 1
  BY <1>4
<1>6. PICK at : at = {i \in DOMAIN recs : recs[i].pc = BASE_OFFSET}
  OBVIOUS
<1>7. BASE_OFFSET \in Nat /\ BASE_OFFSET >= 2
  BY BaseFacts
<1>8. 1 \notin at
  <2>1. recs[1] = Boot
    BY <1>2, <1>3, <1>4
  <2>2. recs[1].pc = 1
    BY <2>1, BootInType, Zenon
  <2> QED
    BY <1>6, <1>7, <2>2
<1>9. 2 \in at
  <2>1. 1 \in 1 .. n /\ 1 + 1 = 2 /\ 2 \in 1 .. n + 1 /\ 0 + BASE_OFFSET = BASE_OFFSET
    BY <1>2, <1>7
  <2>2. recs[2] = EntryOf(program, tr[1])
    BY <1>3, <1>4, <2>1, Zenon
  <2>3. EntryOf(program, tr[1]).pc = tr[1].pc + BASE_OFFSET
    BY DEF EntryOf
  <2>4. recs[2].pc = BASE_OFFSET
    BY <2>1, <2>2, <2>3, Zenon
  <2> QED
    BY <1>5, <1>6, <2>1, <2>4, Zenon
<1>10. at \subseteq 1 .. n + 1
  BY <1>5, <1>6, Zenon
<1>11. at \subseteq Nat /\ at # {}
  BY <1>9, <1>10
<1>12. Min(at) \in at /\ Min(at) <= 2
  BY <1>9, <1>11, MinOf, Zenon
<1>13. Min(at) = 2
  <2>1. PICK m : m = Min(at)
    OBVIOUS
  <2>2. m \in 1 .. n + 1 /\ m # 1 /\ m <= 2
    BY <1>8, <1>10, <1>12, <2>1, Zenon
  <2>3. m = 2
    BY <1>2, <2>2
  <2> QED
    BY <2>1, <2>3, Zenon
<1>14. trim_boot_stub(recs, BASE_OFFSET) = SubSeq(recs, 2, Len(recs))
  BY <1>6, <1>11, <1>13, Zenon DEF trim_boot_stub
<1>15. PICK cut : cut = SubSeq(recs, 2, Len(recs))
  OBVIOUS
<1>16. cut \in Seq(EntryType) /\ Len(cut) = n /\ \A i \in 1 .. n : cut[i] = recs[i + 1]
  BY <1>2, <1>4, <1>15, SeqFrom, Zenon
<1>17. \A i \in 1 .. n : i + 1 \in 1 .. n + 1
  BY <1>2
<1>18. \A i \in 1 .. n : cut[i] = EntryOf(program, tr[i])
  BY <1>3, <1>4, <1>16, <1>17, Zenon
<1> QED
  BY <1>1, <1>14, <1>15, <1>16, <1>18, Zenon DEF Trimmed

LEMMA SpikeRead ==
  ASSUME SpikeType, SpikeInv, phase # "spike"
  PROVE  /\ Trimmed(trim_boot_stub(parse_spike_log(spike_log).records, BASE_OFFSET),
                    program, trace)
         /\ parse_spike_log(spike_log).exceptions = 0
         /\ parse_spike_log(spike_log).unrecognized = 0
         /\ Len(trace) \in Nat /\ Len(trace) > 0 /\ Len(trace) + 1 = SPIKE_BUDGET
         /\ EntryLog(spike_log, Entries(program, trace), Len(trace) + 1)
<1>1. program \in Programs /\ trace \in Seq(Known) /\ Len(trace) \in Nat
  BY DEF SpikeType
<1>2. Len(trace) + 1 = SPIKE_BUDGET /\ SPIKE_BUDGET \in Nat /\ SPIKE_BUDGET > 1
  BY CosimAssumption DEF SpikeInv
<1>3. Len(trace) > 0 /\ Len(trace) + 1 \in Nat
  BY <1>1, <1>2
<1>4. pc # 0
  <2>1. Len(<<>>) = 0
    OBVIOUS
  <2> QED
    BY <1>3, <2>1 DEF SpikeInv
<1>5. /\ EntryLog(spike_log, Entries(program, trace), Len(trace) + 1)
      /\ \A i \in 1 .. Len(trace) : Ran(program, trace[i])
      /\ trace[1].pc = 0
  BY <1>3, <1>4, Zenon DEF SpikeInv
<1>6. AlikeEntries(Entries(program, trace), Len(trace) + 1)
  BY <1>1, <1>5, EntriesAlike, Zenon
<1>7. /\ Same(parse_spike_log(spike_log).records, Entries(program, trace), Len(trace) + 1)
      /\ parse_spike_log(spike_log).exceptions = 0
      /\ parse_spike_log(spike_log).unrecognized = 0
  BY <1>3, <1>5, <1>6, ParseSpike, Zenon
<1>8. Trimmed(trim_boot_stub(parse_spike_log(spike_log).records, BASE_OFFSET), program, trace)
  BY <1>1, <1>3, <1>5, <1>7, BootTrimmed, Zenon
<1> QED
  BY <1>1, <1>2, <1>3, <1>5, <1>7, <1>8, Zenon

(* An entry is what Spike prints of an instruction. *)
LEMMA EntryPrinted ==
  ASSUME program \in Programs, NEW r, Ran(program, r), NEW q, q = AtSpike(r, Kind(r))
  PROVE  /\ EntryOf(program, r).pc = q.pc /\ EntryOf(program, r).instr = r.pc
         /\ EntryOf(program, r).reg = (IF q.reg # None /\ q.reg[1] = 0 THEN None ELSE q.reg)
         /\ EntryOf(program, r).mem = q.mem
<1>1. r.pc \in Nat /\ r.pc < BASE_OFFSET /\ r.pc # Unknown /\ r.reg \in Optional
  <2>1. r \in Known /\ r.pc < Len(program)
    BY DEF Ran
  <2> QED
    BY <2>1, BaseFacts DEF Known, Unknown
<1>2. PICK kind : kind = program[r.pc + 1].kind
  OBVIOUS
<1>3. Kind(r) = kind
  BY <1>1, <1>2, Zenon DEF Kind
<1>4. /\ q.pc = Rebase(r.pc)
      /\ q.reg = IF kind = "auipc" THEN <<r.reg[1], Rebase(r.reg[2])>> ELSE r.reg
      /\ q.mem = SpikeMem(r)
  BY <1>3 DEF AtSpike, SpikeMem
<1>5. /\ EntryOf(program, r).pc = r.pc + BASE_OFFSET /\ EntryOf(program, r).instr = r.pc
      /\ EntryOf(program, r).reg = SpikeReg(program, r)
      /\ EntryOf(program, r).mem = SpikeMem(r)
  BY DEF EntryOf
<1>6. Rebase(r.pc) = r.pc + BASE_OFFSET
  BY <1>1, Rebased
<1>7. SpikeReg(program, r) = IF q.reg # None /\ q.reg[1] = 0 THEN None ELSE q.reg
  <2>1. CASE kind = "auipc"
    <3>1. r.reg \in Pairs
      BY <1>2, <2>1, Zenon DEF Ran, RegKinds
    <3>2. r.reg # None /\ r.reg[1] \in Nat /\ r.reg[2] \in Nat
      BY <3>1, PairNotNone
    <3>3. PICK x : x = <<r.reg[1], Rebase(r.reg[2])>>
      OBVIOUS
    <3>4. x # None /\ x[1] = r.reg[1]
      <4>1. Rebase(r.reg[2]) \in Nat
        BY <3>2, RebaseType
      <4>2. x \in Pairs
        BY <3>2, <3>3, <4>1, PairNotNone
      <4> QED
        BY <3>3, <4>2, PairNotNone
    <3>5. q.reg = x
      BY <1>4, <2>1, <3>3, Zenon
    <3> QED
      BY <1>2, <2>1, <3>2, <3>3, <3>4, <3>5, Zenon DEF SpikeReg
  <2>2. CASE kind # "auipc"
    <3>1. q.reg = r.reg
      BY <1>4, <2>2, Zenon
    <3> QED
      BY <1>2, <2>2, <3>1, Zenon DEF SpikeReg
  <2> QED
    BY <2>1, <2>2
<1> QED
  BY <1>4, <1>5, <1>6, <1>7, Zenon

LEMMA SpikeInvParsed ==
  ASSUME SpikeType, SpikeInv
  PROVE  SpikeTraceRecovered
<1> SUFFICES ASSUME phase = "sv", fed = 0 PROVE SpikeTraceRecovered
  BY DEF SpikeTraceRecovered
<1>1. phase # "spike" /\ program \in Programs
  BY DEF SpikeType
<1>2. PICK records, words :
        /\ records = trim_boot_stub(parse_spike_log(spike_log).records, BASE_OFFSET)
        /\ words = Tail(export_for_sv(run_spike_and_parse(spike_log)))
  OBVIOUS
<1>3. /\ Trimmed(records, program, trace) /\ Len(trace) \in Nat
      /\ EntryLog(spike_log, Entries(program, trace), Len(trace) + 1)
  BY <1>1, <1>2, SpikeRead, Zenon
<1>4. /\ Len(records) = Len(trace)
      /\ \A i \in 1 .. Len(trace) : records[i] = EntryOf(program, trace[i])
  BY <1>3, Zenon DEF Trimmed
<1>5. Len(trace) + 1 \in Nat \ {0} /\ (Len(trace) + 1) - 1 = Len(trace)
  BY <1>3
<1>6. /\ Len(words) = Len(trace)
      /\ \A i \in 1 .. Len(trace) : words[i] = Entries(program, trace)[i + 1].instr
  <2>1. PICK n, es : n = Len(trace) + 1 /\ es = Entries(program, trace)
    OBVIOUS
  <2>2. n \in Nat /\ n # 0 /\ n - 1 = Len(trace)
    BY <1>5, <2>1
  <2>3. EntryLog(spike_log, es, n)
    BY <1>3, <2>1, Zenon
  <2>4. BehindBoot(words, es, n)
    BY <1>2, <2>2, <2>3, WordsBehindBoot, Zenon
  <2> QED
    BY <2>1, <2>2, <2>4, Zenon DEF BehindBoot
<1>7. \A i \in 1 .. Len(trace) : Entries(program, trace)[i + 1] = EntryOf(program, trace[i])
  BY <1>3, EntriesAt, ZenonT(60)
<1>8. DOMAIN trace = 1 .. Len(trace)
  BY DEF SpikeType
<1> DEFINE x0_omitted(reg) == IF reg # None /\ reg[1] = 0 THEN None ELSE reg
           printed(r) == AtSpike(r, Kind(r))
<1>9. ASSUME NEW i \in DOMAIN trace
      PROVE  /\ records[i].pc = printed(trace[i]).pc /\ words[i] = trace[i].pc
             /\ records[i].reg = x0_omitted(printed(trace[i]).reg)
             /\ records[i].mem = printed(trace[i]).mem
  <2>1. i \in 1 .. Len(trace)
    BY <1>8, Zenon
  <2>2. PICK r, q : r = trace[i] /\ q = AtSpike(r, Kind(r))
    OBVIOUS
  <2>3. Ran(program, r)
    BY <2>1, <2>2, Zenon DEF SpikeInv
  <2>4. /\ EntryOf(program, r).pc = q.pc /\ EntryOf(program, r).instr = r.pc
        /\ EntryOf(program, r).reg = (IF q.reg # None /\ q.reg[1] = 0 THEN None ELSE q.reg)
        /\ EntryOf(program, r).mem = q.mem
    BY <1>1, <2>2, <2>3, EntryPrinted, ZenonT(60)
  <2>5. records[i] = EntryOf(program, r) /\ words[i] = EntryOf(program, r).instr
    BY <1>4, <1>6, <1>7, <2>1, <2>2, Zenon
  <2> QED
    BY <2>2, <2>4, <2>5, Zenon
<1> QED
  BY <1>2, <1>4, <1>6, <1>9, Zenon DEF SpikeTraceRecovered

(* spike_log_parser.py and run_spike.py recover what Spike retired from    *)
(* its log, whatever the program and however often its loop is taken: each *)
(* record carries its own writes, and the exported words are the executed  *)
(* ones.                                                                   *)
THEOREM SpikeLogReadBack == Spec => []SpikeTraceRecovered
<1>1. Init => CommitInv /\ SpikeInv
  BY CommitInvInit, SpikeInvInit
<1>2. CommitInv /\ SpikeInv /\ [Next]_vars => CommitInv' /\ SpikeInv'
  BY CommitInvStep, SpikeInvStep DEF CommitInv
<1>3. CommitInv /\ SpikeInv => SpikeTraceRecovered
  BY SpikeInvParsed DEF CommitInv
<1> QED
  BY <1>1, <1>2, <1>3, PTL DEF Spec

-----------------------------------------------------------------------------
(* Spike reaches the epilogue within its budget *)

(* The steps before the epilogue when the branch is taken t times. *)
Longest(t) == (Len(program) - 1) * (t + 1)

(* From instruction h on only the epilogue is executed. *)
HaltsFrom(tr, h) == \A i \in h + 1 .. Len(tr) : tr[i].pc = Len(program) - 1

HaltInv ==
  /\ taken \in 0 .. MAX_TAKEN
  /\ pc # 0 /\ pc # Len(program) => Len(trace) + (Len(program) - pc) <= Longest(taken)
  /\ pc = Len(program) => \E h \in 0 .. Len(trace) : h <= Longest(taken) /\ HaltsFrom(trace, h)

LEMMA LongestStep ==
  ASSUME Len(program) \in Nat, 0 < Len(program), NEW t \in Nat
  PROVE  /\ Longest(t) \in Nat /\ Len(program) - 1 <= Longest(t)
         /\ Longest(t + 1) = Longest(t) + (Len(program) - 1)
<1>1. PICK n : n = Len(program) - 1
  OBVIOUS
<1>2. n \in Nat
  BY <1>1
<1>3. n * (t + 1) = n * t + n /\ n * t \in Nat /\ n * ((t + 1) + 1) = n * (t + 1) + n
  BY <1>2
<1>4. n * (t + 1) \in Nat /\ n <= n * (t + 1)
  BY <1>2, <1>3
<1> QED
  BY <1>1, <1>3, <1>4, Zenon DEF Longest

LEMMA LongestMonotone ==
  ASSUME Len(program) \in Nat, 0 < Len(program), NEW t \in Nat, NEW u \in Nat, t <= u
  PROVE  Longest(t) <= Longest(u)
<1>1. CASE t = u
  BY <1>1, LongestStep
<1>2. CASE t < u
  <2>1. PICK n : n = Len(program) - 1
    OBVIOUS
  <2>2. n \in Nat /\ t + 1 \in Nat /\ u + 1 \in Nat /\ t + 1 < u + 1
    BY <1>2, <2>1
  <2>3. n * (t + 1) + n <= n * (u + 1)
    BY <2>2, ProductStep, Zenon
  <2>4. n * (t + 1) \in Nat /\ n * (u + 1) \in Nat
    BY <2>2
  <2>5. n * (t + 1) <= n * (u + 1)
    BY <2>2, <2>3, <2>4
  <2> QED
    BY <2>1, <2>5, Zenon DEF Longest
<1> QED
  BY <1>1, <1>2

LEMMA HaltInvInit ==
  ASSUME Init
  PROVE  HaltInv
<1>1. pc = 0 /\ taken = 0 /\ program \in Programs
  BY DEF Init
<1>2. Len(program) # 0 /\ 0 \in 0 .. MAX_TAKEN
  BY <1>1, ProgramLength, CosimAssumption
<1> QED
  BY <1>1, <1>2, Zenon DEF HaltInv

LEMMA HaltStep ==
  ASSUME SpikeType, SpikeInv, HaltInv, SpikeStep
  PROVE  HaltInv'
<1>1. /\ program \in Programs /\ pc \in 0 .. Len(program) /\ trace \in Seq(Known)
      /\ Len(program) \in Nat /\ 0 < Len(program)
  BY ProgramLength DEF SpikeType
<1>2. /\ pc > 0 /\ program' = program
  BY DEF SpikeStep
<1>3. pc \in 1 .. Len(program)
  BY <1>1, <1>2
<1>4. PICK r : trace' = Append(trace, r) /\ r \in Known /\ r.pc = pc - 1
  BY SpikeLogStep, Zenon
<1>5. /\ Len(trace) \in Nat /\ Len(trace') = Len(trace) + 1
      /\ \A k \in 1 .. Len(trace) : trace'[k] = trace[k]
      /\ trace'[Len(trace) + 1] = r
  BY <1>1, <1>4, AppendTo
<1>6. /\ instr.back \in Nat
      /\ instr.kind = "halt" <=> pc = Len(program)
      /\ instr.kind = "branch" => instr.back < pc
  BY <1>1, <1>3, ProgramType, Zenon DEF instr
<1>7. taken \in Nat /\ taken \in 0 .. MAX_TAKEN /\ MAX_TAKEN \in Nat
  BY CosimAssumption DEF HaltInv
<1>8. \/ instr.kind = "branch" /\ taken < MAX_TAKEN /\ pc' = pc - instr.back /\ taken' = taken + 1
      \/ pc' = (IF instr.kind = "halt" THEN pc ELSE pc + 1) /\ taken' = taken
  BY DEF SpikeStep
<1>9. PICK n, len, long : n = Len(program) /\ len = Len(trace) /\ long = Longest(taken)
  OBVIOUS
<1>10. /\ n \in Nat /\ 0 < n /\ len \in Nat /\ long \in Nat
       /\ Longest(taken + 1) = long + (n - 1)
  BY <1>1, <1>5, <1>7, <1>9, LongestStep
<1>11. Longest(taken)' = Longest(taken')
  BY <1>2, Zenon DEF Longest
<1>12. CASE pc = n
  <2>1. instr.kind = "halt" /\ instr.kind # "branch"
    BY <1>6, <1>9, <1>12
  <2>2. pc' = pc /\ taken' = taken
    BY <1>8, <2>1
  <2>3. PICK h \in 0 .. Len(trace) : h <= Longest(taken) /\ HaltsFrom(trace, h)
    BY <1>9, <1>12, Zenon DEF HaltInv
  <2>4. h \in 0 .. Len(trace')
    BY <1>5, <2>3
  <2>5. ASSUME NEW i \in h + 1 .. Len(trace') PROVE trace'[i].pc = n - 1
    <3>1. CASE i = Len(trace) + 1
      BY <1>4, <1>5, <1>12, <3>1, Zenon
    <3>2. CASE i # Len(trace) + 1
      <4>1. i \in h + 1 .. Len(trace) /\ i \in 1 .. Len(trace)
        BY <1>5, <2>3, <3>2
      <4> QED
        BY <1>5, <1>9, <2>3, <4>1, Zenon DEF HaltsFrom
    <3> QED
      BY <3>1, <3>2
  <2>6. HaltsFrom(trace, h)'
    BY <1>2, <1>9, <2>5, Zenon DEF HaltsFrom
  <2>7. (h <= Longest(taken))'
    BY <1>11, <2>2, <2>3, Zenon
  <2> QED
    BY <1>2, <1>7, <1>9, <1>12, <2>2, <2>4, <2>6, <2>7, Zenon DEF HaltInv
<1>13. CASE pc # n
  <2>1. pc \in Nat /\ 0 < pc /\ pc < n
    BY <1>3, <1>9, <1>13
  <2>2. len + (n - pc) <= long
    <3>1. pc # 0
      BY <2>1
    <3> QED
      BY <1>9, <1>13, <3>1, Zenon DEF HaltInv
  <2>3. instr.kind # "halt"
    BY <1>6, <1>9, <1>13
  <2>4. CASE instr.kind = "branch" /\ taken < MAX_TAKEN /\ pc' = pc - instr.back
             /\ taken' = taken + 1
    <3>1. PICK q, back : q = pc' /\ back = instr.back
      OBVIOUS
    <3>2. back \in Nat /\ back < pc /\ q = pc - back
      BY <1>6, <2>4, <3>1
    <3>3. q # n /\ (len + 1) + (n - q) <= long + (n - 1)
      BY <1>10, <2>1, <2>2, <3>2
    <3>4. taken' \in 0 .. MAX_TAKEN
      BY <1>7, <2>4
    <3>5. Longest(taken)' = long + (n - 1)
      BY <1>10, <1>11, <2>4, Zenon
    <3>6. /\ pc' # Len(program')
          /\ Len(trace') + (Len(program') - pc') <= Longest(taken)'
      BY <1>2, <1>5, <1>9, <3>1, <3>3, <3>5, Zenon
    <3> QED
      BY <3>4, <3>6, Zenon DEF HaltInv
  <2>5. CASE pc' = pc + 1 /\ taken' = taken
    <3>1. PICK q : q = pc'
      OBVIOUS
    <3>2. q = pc + 1 /\ (len + 1) + (n - q) <= long
      BY <1>10, <2>1, <2>2, <2>5, <3>1
    <3>3. Longest(taken)' = long
      BY <1>9, <1>11, <2>5, Zenon
    <3>4. Len(trace') + (Len(program') - pc') <= Longest(taken)'
      BY <1>2, <1>5, <1>9, <3>1, <3>2, <3>3, Zenon
    <3>5. CASE q = n
      <4>1. len + 1 <= long /\ len + 1 \in 0 .. len + 1 /\ (len + 1) + 1 .. len + 1 = {}
        BY <1>10, <3>2, <3>5
      <4>2. HaltsFrom(trace, len + 1)'
        <5>1. (len + 1) + 1 .. Len(trace') = {}
          BY <1>5, <1>9, <4>1, Zenon
        <5> QED
          BY <5>1, Zenon DEF HaltsFrom
      <4>3. PICK h : h = len + 1
        OBVIOUS
      <4>4. h \in 0 .. Len(trace') /\ h <= Longest(taken)' /\ HaltsFrom(trace, h)'
        BY <1>5, <1>9, <3>3, <4>1, <4>2, <4>3, Zenon
      <4>5. pc' = Len(program')
        BY <1>2, <1>9, <3>1, <3>5, Zenon
      <4> QED
        BY <1>7, <2>5, <4>4, <4>5, Zenon DEF HaltInv
    <3>6. CASE q # n
      <4>1. pc' # Len(program')
        BY <1>2, <1>9, <3>1, <3>6, Zenon
      <4> QED
        BY <1>7, <2>5, <3>4, <4>1, Zenon DEF HaltInv
    <3> QED
      BY <3>5, <3>6
  <2> QED
    BY <1>8, <2>3, <2>4, <2>5
<1> QED
  BY <1>12, <1>13

LEMMA HaltInvStep ==
  ASSUME SpikeType, SpikeInv, HaltInv, [Next]_vars
  PROVE  HaltInv'
<1>1. CASE SpikeBoot
  <2>1. /\ pc = 0 /\ pc' = 1 /\ program' = program /\ trace' = trace /\ taken' = taken
        /\ program \in Programs
    BY <1>1 DEF SpikeBoot, SpikeType
  <2>2. trace = <<>>
    BY <2>1 DEF SpikeInv
  <2>3. PICK n, long : n = Len(program) /\ long = Longest(taken)
    OBVIOUS
  <2>4. n \in Nat /\ 0 < n /\ taken \in Nat /\ taken \in 0 .. MAX_TAKEN
    BY <2>1, <2>3, ProgramLength, CosimAssumption DEF HaltInv
  <2>5. long \in Nat /\ n - 1 <= long
    BY <2>3, <2>4, LongestStep
  <2>6. Longest(taken)' = long
    BY <2>1, <2>3, Zenon DEF Longest
  <2>7. Len(<<>>) = 0 /\ 0 + (n - 1) <= long
    BY <2>4, <2>5
  <2>8. Len(trace') + (Len(program') - pc') <= Longest(taken)'
    BY <2>1, <2>2, <2>3, <2>6, <2>7, Zenon
  <2>9. 0 \in 0 .. Len(<<>>) /\ 0 <= long /\ 0 + 1 .. Len(<<>>) = {}
    BY <2>5
  <2>10. 0 \in 0 .. Len(trace') /\ 0 <= Longest(taken)' /\ HaltsFrom(trace, 0)'
    BY <2>1, <2>2, <2>6, <2>9, Zenon DEF HaltsFrom
  <2> QED
    BY <2>1, <2>4, <2>8, <2>10, Zenon DEF HaltInv
<1>2. CASE SpikeStep
  BY <1>2, HaltStep
<1>3. CASE SpikeDone \/ SvCycle \/ SvDone \/ UNCHANGED vars
  <2>1. /\ program' = program /\ pc' = pc /\ trace' = trace /\ taken' = taken
    BY <1>3 DEF SpikeDone, SvCycle, SvDone, vars, spike_vars
  <2> QED
    BY <2>1, Zenon DEF HaltInv, HaltsFrom, Longest
<1> QED
  BY <1>1, <1>2, <1>3 DEF Next

(* When Spike is done its trace ends with a run of the epilogue that both  *)
(* simulators see.                                                         *)
LEMMA HaltsSeen ==
  ASSUME SpikeType, SpikeInv, HaltInv, phase # "spike"
  PROVE  \E h \in Nat : /\ h + REPEAT_THRESHOLD <= Len(trace)
                        /\ h + REPEAT_THRESHOLD <= MAX_RETIRE
                        /\ HaltsFrom(trace, h)
<1>1. /\ program \in Programs /\ pc \in 0 .. Len(program) /\ Len(trace) \in Nat
      /\ Len(program) \in Nat /\ 0 < Len(program)
  BY ProgramLength DEF SpikeType
<1>2. Len(trace) + 1 = SPIKE_BUDGET /\ Len(trace) > 0
  BY SpikeRead, Zenon
<1>3. /\ taken \in Nat /\ taken <= MAX_TAKEN /\ MAX_TAKEN \in Nat /\ MAX_RETIRE \in Nat
      /\ SPIKE_BUDGET \in Nat /\ REPEAT_THRESHOLD \in Nat /\ REPEAT_THRESHOLD > 1
  BY CosimAssumption, ThresholdAssumption DEF HaltInv
<1>4. PICK long, most : long = Longest(taken) /\ most = Longest(MAX_TAKEN)
  OBVIOUS
<1>5. long \in Nat /\ most \in Nat
  BY <1>1, <1>3, <1>4, LongestStep
<1>6. long <= most
  BY <1>1, <1>3, <1>4, LongestMonotone, Zenon
<1>7. most + REPEAT_THRESHOLD < SPIKE_BUDGET /\ most + REPEAT_THRESHOLD <= MAX_RETIRE
  BY <1>1, <1>4, BudgetAssumption, Zenon DEF Longest
<1>8. pc # 0
  <2>1. Len(<<>>) = 0
    OBVIOUS
  <2> QED
    BY <1>2, <2>1 DEF SpikeInv
<1>9. pc = Len(program)
  <2>1. SUFFICES ASSUME pc # Len(program) PROVE FALSE
    OBVIOUS
  <2>2. Len(trace) + (Len(program) - pc) <= long
    BY <1>4, <1>8, <2>1, Zenon DEF HaltInv
  <2>3. Len(program) - pc > 0
    BY <1>1, <2>1
  <2> QED
    BY <1>1, <1>2, <1>3, <1>5, <1>6, <1>7, <2>2, <2>3
<1>10. PICK h \in 0 .. Len(trace) : h <= long /\ HaltsFrom(trace, h)
  BY <1>4, <1>9, Zenon DEF HaltInv
<1>11. h \in Nat /\ h + REPEAT_THRESHOLD <= Len(trace) /\ h + REPEAT_THRESHOLD <= MAX_RETIRE
  BY <1>1, <1>2, <1>3, <1>5, <1>6, <1>7, <1>10
<1> QED
  BY <1>10, <1>11, Zenon

(* Without a fault the core retires Spike's trace. *)
Follows(tr, sv) == \A i \in 1 .. Len(sv) : i <= Len(tr) => sv[i] = tr[i]
FeedInv ==
  /\ phase = "spike" => sv_trace = <<>> /\ fed = 0
  /\ fault = "none" => fed = Len(sv_trace) /\ Follows(trace, sv_trace)

LEMMA FeedInvInit ==
  ASSUME Init
  PROVE  FeedInv
<1>1. sv_trace = <<>> /\ fed = 0
  BY DEF Init
<1>2. Len(<<>>) = 0 /\ 1 .. Len(<<>>) = {}
  OBVIOUS
<1> QED
  BY <1>1, <1>2, Zenon DEF FeedInv, Follows

LEMMA FeedInvStep ==
  ASSUME SpikeType, CoreType, FeedInv, [Next]_vars
  PROVE  FeedInv'
<1>1. CASE SpikeBoot \/ SpikeStep \/ SpikeDone
  <2>1. phase = "spike" /\ sv_trace' = sv_trace /\ fed' = fed
    BY <1>1 DEF SpikeBoot, SpikeStep, SpikeDone, feed_vars
  <2>2. sv_trace' = <<>> /\ fed' = 0
    BY <2>1, Zenon DEF FeedInv
  <2>3. Len(<<>>) = 0 /\ 1 .. Len(<<>>) = {}
    OBVIOUS
  <2> QED
    BY <2>2, <2>3, Zenon DEF FeedInv, Follows
<1>2. CASE SvDone \/ UNCHANGED vars
  <2>1. /\ phase' = "spike" => phase = "spike"
        /\ sv_trace' = sv_trace /\ fed' = fed /\ fault' = fault /\ trace' = trace
    BY <1>2 DEF SvDone, vars, feed_vars, spike_vars
  <2> QED
    BY <2>1, Zenon DEF FeedInv
<1>3. CASE SvCycle
  <2>1. phase = "sv" /\ phase' = phase /\ trace' = trace
        /\ (FeedInstruction \/ FeedBubble \/ FeedFault)
    BY <1>3 DEF SvCycle, spike_vars
  <2>2. phase' # "spike"
    BY <2>1
  <2> SUFFICES ASSUME fault' = "none"
              PROVE  fed' = Len(sv_trace') /\ Follows(trace', sv_trace')
    BY <2>2, Zenon DEF FeedInv
  <2>3. CASE FeedInstruction
    <3>1. fault = "none" /\ fed' = fed + 1 /\ fault # "unknown_pc"
      BY <2>3 DEF FeedInstruction
    <3>2. sv_trace' = Append(sv_trace, Due)
      BY <2>3, <3>1 DEF FeedInstruction, Enter
    <3>3. fed = Len(sv_trace) /\ Follows(trace, sv_trace)
      BY <3>1, Zenon DEF FeedInv
    <3>4. Due \in Retired /\ sv_trace \in Seq(Retired) /\ fed \in Nat
      BY DueType, KnownRetired DEF CoreType
    <3>5. /\ Len(sv_trace) \in Nat /\ Len(sv_trace') = Len(sv_trace) + 1
          /\ \A k \in 1 .. Len(sv_trace) : sv_trace'[k] = sv_trace[k]
          /\ sv_trace'[Len(sv_trace) + 1] = Due
      BY <3>2, <3>4, AppendTo
    <3>6. ASSUME NEW i \in 1 .. Len(sv_trace'), i <= Len(trace) PROVE sv_trace'[i] = trace[i]
      <4>1. CASE i = Len(sv_trace) + 1
        <5>1. i = fed + 1 /\ fed < Len(trace)
          <6>1. Len(trace) \in Nat
            BY DEF SpikeType
          <6> QED
            BY <3>3, <3>4, <3>6, <4>1, <6>1
        <5>2. Due = trace[i]
          BY <5>1, Zenon DEF Due
        <5> QED
          BY <3>5, <4>1, <5>2, Zenon
      <4>2. CASE i # Len(sv_trace) + 1
        <5>1. i \in 1 .. Len(sv_trace)
          BY <3>5, <4>2
        <5> QED
          BY <3>3, <3>5, <3>6, <5>1, Zenon DEF Follows
      <4> QED
        BY <4>1, <4>2
    <3>7. Follows(trace', sv_trace')
      BY <2>1, <3>6, Zenon DEF Follows
    <3> QED
      BY <3>1, <3>3, <3>5, <3>7, Zenon
  <2>4. CASE FeedBubble
    <3>1. fed' = fed /\ fault' = fault /\ sv_trace' = sv_trace
      BY <2>4 DEF FeedBubble
    <3> QED
      BY <2>1, <3>1, Zenon DEF FeedInv
  <2>5. CASE FeedFault
    <3>1. fault' \in Faults
      BY <2>5 DEF FeedFault
    <3>2. "none" \notin FaultKinds
      BY DEF FaultKinds
    <3> QED
      BY <3>1, <3>2, CosimAssumption
  <2> QED
    BY <2>1, <2>3, <2>4, <2>5
<1> QED
  BY <1>1, <1>2, <1>3 DEF Next

-----------------------------------------------------------------------------
(* The comparison *)

(* A log without unknown pcs has no line that the parser cannot read. *)
LEMMA SvReadable ==
  ASSUME NEW log, NEW tr, NEW w, NEW m, LogReady(log, tr, w, m, w)
  PROVE  parse_sv_log(log).unrecognized = 0
<1>1. w \in Nat /\ log \in Seq(LineType) /\ \A i \in 1 .. w : tr[i].pc # Unknown
  BY DEF LogReady, Logged
<1>2. ASSUME NEW k \in DOMAIN log PROVE recognized(log[k])
  <2>1. log[k] \in LinesOf(log)
    BY <1>1 DEF LinesOf
  <2>2. CASE \E i \in 1 .. w : tr[i] \in Retired /\ log[k] = PcLine(i - 1, tr[i])
    <3>1. PICK i \in 1 .. w : log[k] = PcLine(i - 1, tr[i])
      BY <2>2
    <3>2. log[k].kind = "PC" /\ log[k].pc = tr[i].pc
      BY <3>1 DEF PcLine
    <3> QED
      BY <1>1, <3>1, <3>2, Zenon DEF recognized, PC_RE
  <2>3. CASE \E i \in 1 .. w : tr[i] \in Retired /\ tr[i].reg # None /\ log[k] = RegLine(i - 1, tr[i])
    <3>1. PICK i \in 1 .. w : tr[i] \in Retired /\ tr[i].reg # None /\ log[k] = RegLine(i - 1, tr[i])
      BY <2>3
    <3>2. log[k].kind = "REG" /\ log[k].val = tr[i].reg[2]
      BY <3>1 DEF RegLine
    <3>3. tr[i].reg \in Pairs
      BY <3>1 DEF Retired, Optional
    <3>4. tr[i].reg[2] # Unknown
      BY <3>3, PairNotNone DEF Unknown
    <3> QED
      BY <3>2, <3>4, Zenon DEF recognized, SV_REG_RE
  <2>4. CASE \E i \in 1 .. m : tr[i] \in Retired /\ tr[i].mem # None /\ log[k] = MemLine(i - 1, tr[i])
    <3>1. PICK i \in 1 .. m : tr[i] \in Retired /\ tr[i].mem # None /\ log[k] = MemLine(i - 1, tr[i])
      BY <2>4
    <3>2. log[k].kind = "MEM" /\ log[k].addr = tr[i].mem[1] /\ log[k].val = tr[i].mem[2]
      BY <3>1 DEF MemLine
    <3>3. tr[i].mem \in Pairs
      BY <3>1 DEF Retired, Optional
    <3>4. tr[i].mem[1] # Unknown /\ tr[i].mem[2] # Unknown
      BY <3>3, PairNotNone DEF Unknown
    <3> QED
      BY <3>2, <3>4, Zenon DEF recognized, SV_MEM_RE
  <2>5. \/ \E i \in 1 .. w : tr[i] \in Retired /\ log[k] = PcLine(i - 1, tr[i])
        \/ \E i \in 1 .. w : tr[i] \in Retired /\ tr[i].reg # None /\ log[k] = RegLine(i - 1, tr[i])
        \/ \E i \in 1 .. m : tr[i] \in Retired /\ tr[i].mem # None /\ log[k] = MemLine(i - 1, tr[i])
    <3>1. PICK line : line = log[k]
      OBVIOUS
    <3>2. line \in LinesOf(log)
      BY <2>1, <3>1, Zenon
    <3>3. \/ \E i \in 1 .. w : tr[i] \in Retired /\ line = PcLine(i - 1, tr[i])
          \/ \E i \in 1 .. w : tr[i] \in Retired /\ tr[i].reg # None /\ line = RegLine(i - 1, tr[i])
          \/ \E i \in 1 .. m : tr[i] \in Retired /\ tr[i].mem # None /\ line = MemLine(i - 1, tr[i])
      BY <3>2, LogLine
    <3> QED
      BY <3>1, <3>3, Zenon
  <2> QED
    BY <2>2, <2>3, <2>4, <2>5
<1>3. {k \in DOMAIN log : ~recognized(log[k])} = {}
  BY <1>2, Zenon
<1>4. Cardinality({}) = 0
  BY FS_EmptySet
<1> DEFINE I == {log[k].idx : k \in {j \in DOMAIN log : PC_RE(log[j])}}
           idxs == sorted(I)
           records == [k \in DOMAIN idxs |->
                         [idx |-> idxs[k], pc |-> by_idx(log, "PC", idxs[k]),
                          reg |-> by_idx(log, "REG", idxs[k]), mem |-> by_idx(log, "MEM", idxs[k])]]
<1>5. parse_sv_log(log) = [records |-> records,
          unrecognized |-> Cardinality({k \in DOMAIN log : ~recognized(log[k])})]
  BY Zenon DEF parse_sv_log
<1> HIDE DEF records
<1> QED
  BY <1>3, <1>4, <1>5

LEMMA SvRecordsSeq ==
  ASSUME NEW log, NEW tr, NEW w, NEW m, NEW u, LogReady(log, tr, w, m, u)
  PROVE  IsSeq(parse_sv_log(log).records)
<1>1. u \in Nat
  BY DEF LogReady
<1> DEFINE I == {log[k].idx : k \in {j \in DOMAIN log : PC_RE(log[j])}}
           idxs == sorted(I)
           record(k) == [idx |-> idxs[k], pc |-> by_idx(log, "PC", idxs[k]),
                         reg |-> by_idx(log, "REG", idxs[k]), mem |-> by_idx(log, "MEM", idxs[k])]
           records == [k \in DOMAIN idxs |-> record(k)]
<1>5. I = 0 .. u - 1
  BY PcIndices, Zenon
<1>6. DOMAIN idxs = 1 .. u
  BY <1>1, <1>5, SortedInterval, Zenon
<1>7. parse_sv_log(log) = [records |-> records,
          unrecognized |-> Cardinality({k \in DOMAIN log : ~recognized(log[k])})]
  BY Zenon DEF parse_sv_log
<1>8. records = [k \in 1 .. u |-> record(k)]
  BY <1>6, Zenon
<1> HIDE DEF records, record
<1>9. records \in Seq({record(k) : k \in 1 .. u})
  BY <1>1, <1>8
<1>10. parse_sv_log(log).records = records
  BY <1>7
<1> QED
  BY <1>9, <1>10, Zenon DEF IsSeq

(* Where truncate_at_self_loop finds a pc repeated. *)
Repeats(records) ==
  {i \in REPEAT_THRESHOLD .. Len(records) :
     \A j \in i - REPEAT_THRESHOLD + 1 .. i : records[j].pc = records[i].pc}

(* Two traces whose pcs agree up to a repetition are cut at the same place. *)
PcsShifted(a, b, m) ==
  \A i \in 1 .. m : b[i].pc \in Nat /\ a[i].pc = b[i].pc + BASE_OFFSET
CutAt(a, b, n) == /\ trunc_spike(a, REPEAT_THRESHOLD) = SubSeq(a, 1, n)
                  /\ trunc_sv(b, REPEAT_THRESHOLD) = SubSeq(b, 1, n)

LEMMA CutAlike ==
  ASSUME NEW a, NEW b, Len(a) \in Nat, Len(b) \in Nat, NEW m \in Nat,
         m <= Len(a), m <= Len(b), m \in Repeats(b), PcsShifted(a, b, m)
  PROVE  \E n \in 1 .. m : CutAt(a, b, n)
<1>0. PICK base \in Nat : base = BASE_OFFSET
  BY WordAssumption DEF BASE_OFFSET
<1>1. REPEAT_THRESHOLD \in Nat /\ REPEAT_THRESHOLD > 1
  BY ThresholdAssumption
<1>2. PICK A, B : A = Repeats(a) /\ B = Repeats(b)
  OBVIOUS
<1>3. \A i \in A : i \in REPEAT_THRESHOLD .. Len(a)
  BY <1>2, Zenon DEF Repeats
<1>4. \A i \in B : i \in REPEAT_THRESHOLD .. Len(b)
  BY <1>2, Zenon DEF Repeats
<1>5. A \subseteq Nat /\ B \subseteq Nat
  BY <1>1, <1>3, <1>4
<1>6. ASSUME NEW i \in 1 .. m PROVE i \in A <=> i \in B
  <2>1. i \in REPEAT_THRESHOLD .. Len(a) <=> i \in REPEAT_THRESHOLD .. Len(b)
    BY <1>1
  <2>2. ASSUME i \in REPEAT_THRESHOLD .. Len(b), NEW j \in i - REPEAT_THRESHOLD + 1 .. i
        PROVE  a[j].pc = a[i].pc <=> b[j].pc = b[i].pc
    <3>1. j \in 1 .. m
      BY <1>1, <2>2
    <3>2. b[j].pc \in Nat /\ a[j].pc = b[j].pc + base /\ b[i].pc \in Nat /\ a[i].pc = b[i].pc + base
      BY <1>0, <3>1, Zenon DEF PcsShifted
    <3>3. \A y, z \in Nat : y + base = z + base <=> y = z
      BY <1>1
    <3>4. PICK y \in Nat, z \in Nat : y = b[j].pc /\ z = b[i].pc
      BY <3>2, Zenon
    <3>5. a[j].pc = y + base /\ a[i].pc = z + base
      BY <3>2, <3>4, Zenon
    <3>6. y + base = z + base <=> y = z
      BY <3>3, <3>4, Zenon
    <3> QED
      BY <3>4, <3>5, <3>6, Zenon
  <2> QED
    BY <1>2, <2>1, <2>2, Zenon DEF Repeats
<1>7. m \in 1 .. m /\ m \in B
  BY <1>1, <1>2, <1>4
<1>8. m \in A
  BY <1>6, <1>7, Zenon
<1>9. PICK x, y : x = Min(A) /\ y = Min(B)
  OBVIOUS
<1>10. /\ x \in A /\ \A z \in A : x <= z
       /\ y \in B /\ \A z \in B : y <= z
  BY <1>5, <1>7, <1>8, <1>9, MinOf, Zenon
<1>11. x \in 1 .. m /\ y \in 1 .. m
  <2>1. x <= m /\ y <= m
    BY <1>7, <1>8, <1>10, Zenon
  <2>2. x \in REPEAT_THRESHOLD .. Len(a) /\ y \in REPEAT_THRESHOLD .. Len(b)
    BY <1>3, <1>4, <1>10, Zenon
  <2> QED
    BY <1>1, <2>1, <2>2
<1>12. x \in B /\ y \in A
  BY <1>6, <1>10, <1>11, Zenon
<1>13. x <= y /\ y <= x
  BY <1>10, <1>12, Zenon
<1>14. x = y
  BY <1>11, <1>13
<1>15. PICK n : n = x - REPEAT_THRESHOLD + 1
  OBVIOUS
<1>16. n \in 1 .. m
  <2>1. x \in REPEAT_THRESHOLD .. Len(a)
    BY <1>3, <1>10, Zenon
  <2> QED
    BY <1>1, <1>11, <1>15, <2>1
<1>17. A # {} /\ B # {}
  BY <1>7, <1>8
<1>18. trunc_spike(a, REPEAT_THRESHOLD) = SubSeq(a, 1, n)
  BY <1>2, <1>9, <1>15, <1>17, Zenon DEF trunc_spike, Repeats
<1>19. trunc_sv(b, REPEAT_THRESHOLD) = SubSeq(b, 1, n)
  BY <1>2, <1>9, <1>14, <1>15, <1>17, Zenon DEF trunc_sv, Repeats
<1> QED
  BY <1>16, <1>18, <1>19, Zenon DEF CutAt

(* A record that both simulators agree on passes. *)
LEMMA RecordPasses ==
  ASSUME program \in Programs, NEW r, Ran(program, r), NEW sp, sp = EntryOf(program, r),
         NEW sv, sv.pc = r.pc, sv.reg = r.reg, sv.mem = r.mem
  PROVE  pc_ok(sp, sv, BASE_OFFSET, 0) /\ reg_ok(sp, sv) /\ mem_ok(sp, sv)
<1>1. r.pc \in Nat /\ r.reg \in Optional /\ r.mem \in Optional
  BY DEF Ran, Known
<1>2. /\ sp.pc = r.pc + BASE_OFFSET /\ sp.reg = SpikeReg(program, r) /\ sp.mem = SpikeMem(r)
  BY DEF EntryOf
<1>3. pc_ok(sp, sv, BASE_OFFSET, 0)
  <2>1. (r.pc + BASE_OFFSET) - BASE_OFFSET = r.pc /\ r.pc - 0 = r.pc
    BY <1>1, BaseFacts
  <2> QED
    BY <1>2, <2>1, Zenon DEF pc_ok
<1>4. mem_ok(sp, sv)
  <2>1. CASE r.mem = None
    BY <1>2, <2>1, Zenon DEF mem_ok, SpikeMem
  <2>2. CASE r.mem # None
    <3>1. r.mem[1] \in Nat /\ r.mem[2] \in Nat
      BY <1>1, <2>2, PairNotNone DEF Optional
    <3>2. PICK x : x = <<Rebase(r.mem[1]), r.mem[2]>>
      OBVIOUS
    <3>3. x # None /\ x[1] = Rebase(r.mem[1]) /\ x[2] = r.mem[2]
      <4>1. x \in Pairs
        BY <3>1, <3>2, RebaseType, PairNotNone
      <4> QED
        BY <3>2, <4>1, PairNotNone
    <3>4. sp.mem = x
      BY <1>2, <2>2, <3>2, Zenon DEF SpikeMem
    <3>5. values_match_allowing_pc_base(sv.mem[1], sp.mem[1])
      BY <3>3, <3>4, Zenon DEF values_match_allowing_pc_base, Rebase
    <3> QED
      BY <2>2, <3>3, <3>4, <3>5, Zenon DEF mem_ok
  <2> QED
    BY <2>1, <2>2
<1>5. reg_ok(sp, sv)
  <2>1. CASE r.reg = None
    <3>1. sp.reg = None /\ sv.reg = None
      BY <1>2, <2>1, Zenon DEF SpikeReg
    <3>2. without_x0(sv.reg, sp.reg) = None /\ without_x0(sp.reg, None) = None
      BY <3>1, Zenon DEF without_x0
    <3> QED
      BY <3>2, Zenon DEF reg_ok
  <2>2. CASE r.reg # None /\ r.reg[1] = 0
    <3>1. sp.reg = None
      BY <1>2, <2>2, Zenon DEF SpikeReg
    <3>2. without_x0(sv.reg, sp.reg) = None /\ without_x0(sp.reg, None) = None
      BY <2>2, <3>1, Zenon DEF without_x0
    <3> QED
      BY <3>2, Zenon DEF reg_ok
  <2>3. CASE r.reg # None /\ r.reg[1] # 0
    <3>1. r.reg[1] \in Nat /\ r.reg[2] \in Nat
      BY <1>1, <2>3, PairNotNone DEF Optional
    <3>2. PICK x : x = <<r.reg[1], Rebase(r.reg[2])>>
      OBVIOUS
    <3>3. x # None /\ x[1] = r.reg[1] /\ x[2] = Rebase(r.reg[2])
      <4>1. x \in Pairs
        BY <3>1, <3>2, RebaseType, PairNotNone
      <4> QED
        BY <3>2, <4>1, PairNotNone
    <3>4. sp.reg = x \/ sp.reg = r.reg
      BY <1>2, <2>3, <3>2, Zenon DEF SpikeReg
    <3>5. /\ sp.reg # None /\ sp.reg[1] = r.reg[1]
          /\ sp.reg[2] = Rebase(r.reg[2]) \/ sp.reg[2] = r.reg[2]
      BY <2>3, <3>3, <3>4, Zenon
    <3>6. without_x0(sv.reg, sp.reg) = sv.reg /\ without_x0(sp.reg, sv.reg) = sp.reg
      BY <2>3, <3>5, Zenon DEF without_x0
    <3>7. values_match_allowing_pc_base(sv.reg[2], sp.reg[2])
      BY <3>5, Zenon DEF values_match_allowing_pc_base, Rebase
    <3>8. x0_zeroed(sv.reg) = sv.reg[2] /\ x0_zeroed(sp.reg) = sp.reg[2]
      BY <2>3, <3>5, Zenon DEF x0_zeroed
    <3> QED
      BY <2>3, <3>5, <3>6, <3>7, <3>8, Zenon DEF reg_ok
  <2> QED
    BY <2>1, <2>2, <2>3
<1> QED
  BY <1>3, <1>4, <1>5

(* The report of two traces of one length whose records all pass. *)
AllPass(s, v, n) ==
  \A i \in 1 .. n : /\ pc_ok(s[i], v[i], s[1].pc, v[1].pc)
                    /\ reg_ok(s[i], v[i]) /\ mem_ok(s[i], v[i])

LEMMA CleanReport ==
  ASSUME NEW a, NEW b, NEW s, NEW v, NEW n \in Nat,
         s = trunc_spike(trim_boot_stub(parse_spike_log(a).records, BASE_OFFSET), REPEAT_THRESHOLD),
         v = trunc_sv(parse_sv_log(b).records, REPEAT_THRESHOLD),
         parse_spike_log(a).exceptions = 0, parse_spike_log(a).unrecognized = 0,
         parse_sv_log(b).unrecognized = 0,
         Len(s) = n, Len(v) = n, AllPass(s, v, n)
  PROVE  compare(a, b).total = n /\ compare(a, b).passed = n /\ ~compare(a, b).warned
<1> DEFINE ok(i) == /\ pc_ok(s[i], v[i], s[1].pc, v[1].pc)
                    /\ reg_ok(s[i], v[i]) /\ mem_ok(s[i], v[i])
           total == Min({n, n})
           warned == n # n \/ 0 > 0 \/ 0 > 0 \/ 0 > 0
<1>1. compare(a, b) = [total |-> total, passed |-> Cardinality({i \in 1 .. total : ok(i)}),
                       warned |-> warned]
  BY Zenon DEF compare
<1>2. total = n
  <2>1. {n, n} \subseteq Nat /\ {n, n} # {}
    OBVIOUS
  <2>2. Min({n, n}) \in {n, n}
    BY <2>1, MinOf, Zenon
  <2> QED
    BY <2>2, Zenon
<1>3. {i \in 1 .. total : ok(i)} = 1 .. n
  BY <1>2, Zenon DEF AllPass
<1>4. Cardinality(1 .. n) = n
  BY FS_Interval
<1>5. warned = FALSE
  OBVIOUS
<1>6. compare(a, b) = [total |-> n, passed |-> n, warned |-> FALSE]
  <2> HIDE DEF ok, total, warned
  <2> QED
    BY <1>1, <1>2, <1>3, <1>4, <1>5, Zenon
<1> QED
  BY <1>6

LEMMA SeqFirst ==
  ASSUME NEW s, IsSeq(s), NEW n \in Nat, n <= Len(s)
  PROVE  Len(SubSeq(s, 1, n)) = n /\ \A i \in 1 .. n : SubSeq(s, 1, n)[i] = s[i]
<1>1. PICK B : s \in Seq(B)
  BY DEF IsSeq
<1> QED
  BY <1>1

AgreeInv == CommitInv /\ SpikeInv /\ HaltInv /\ FeedInv

LEMMA AgreeInvStep ==
  ASSUME AgreeInv, [Next]_vars
  PROVE  AgreeInv'
<1>1. CommitInv /\ SpikeInv /\ HaltInv /\ FeedInv /\ SpikeType /\ CoreType
  BY DEF AgreeInv, CommitInv
<1>2. CommitInv'
  BY <1>1, CommitInvStep
<1>3. SpikeInv'
  BY <1>1, SpikeInvStep
<1>4. HaltInv'
  BY <1>1, HaltInvStep
<1>5. FeedInv'
  BY <1>1, FeedInvStep
<1> QED
  BY <1>2, <1>3, <1>4, <1>5 DEF AgreeInv

LEMMA AgreeReported ==
  ASSUME AgreeInv
  PROVE  NoFalseAlarm
<1> SUFFICES ASSUME Compared, fault = "none" PROVE Accurate /\ ~report.warned
  BY DEF NoFalseAlarm
<1>1. CommitInv /\ SpikeInv /\ HaltInv /\ FeedInv /\ SpikeType /\ CoreType
  BY DEF AgreeInv, CommitInv
<1>2. phase # "spike" /\ phase = "compare" /\ fault # "unknown_pc" /\ program \in Programs
  BY <1>1 DEF Compared, SpikeType
\* Spike's records
<1>3. PICK a : a = trim_boot_stub(parse_spike_log(spike_log).records, BASE_OFFSET)
  OBVIOUS
<1>4. /\ Trimmed(a, program, trace) /\ Len(trace) \in Nat /\ Len(trace) > 0
      /\ parse_spike_log(spike_log).exceptions = 0 /\ parse_spike_log(spike_log).unrecognized = 0
  BY <1>1, <1>2, <1>3, SpikeRead, Zenon
<1>5. /\ a \in Seq(EntryType) /\ Len(a) = Len(trace)
      /\ \A i \in 1 .. Len(trace) : a[i] = EntryOf(program, trace[i])
  BY <1>4, Zenon DEF Trimmed
<1>6. PICK h \in Nat : /\ h + REPEAT_THRESHOLD <= Len(trace)
                       /\ h + REPEAT_THRESHOLD <= MAX_RETIRE
                       /\ HaltsFrom(trace, h)
  BY <1>1, <1>2, HaltsSeen, Zenon
\* the core's records
<1>7. /\ Logged(sv_log, sv_trace, wb_commit_idx, mem_commit_idx)
      /\ wb_commit_idx \in Nat /\ mem_commit_idx \in Nat
      /\ MAX_RETIRE <= wb_commit_idx /\ wb_commit_idx <= mem_commit_idx
      /\ mem_commit_idx <= Len(sv_trace)
      /\ sv_trace \in Seq(Retired) /\ UnknownTail(sv_trace, fault)
  BY <1>1, <1>2, Zenon DEF CommitInv, LogInv, CoreType
<1>8. Len(sv_trace) \in Nat /\ wb_commit_idx <= Len(sv_trace) /\ MAX_RETIRE \in Nat
  BY <1>7, CosimAssumption
<1>9. PICK u \in Nat : KnownUpTo(sv_trace, fault, wb_commit_idx, u)
  BY <1>7, <1>8, KnownPrefix, Zenon
<1>10. u = wb_commit_idx
  BY <1>2, <1>9, Zenon DEF KnownUpTo
<1>11. LogReady(sv_log, sv_trace, wb_commit_idx, mem_commit_idx, wb_commit_idx)
  BY <1>7, <1>9, <1>10, Zenon DEF LogReady, KnownUpTo
<1>12. PICK b : b = parse_sv_log(sv_log).records
  OBVIOUS
<1>13. Recovered(b, sv_trace, wb_commit_idx) /\ IsSeq(b) /\ parse_sv_log(sv_log).unrecognized = 0
  BY <1>11, <1>12, ParseSv, SvReadable, SvRecordsSeq, Zenon
\* up to the repetition of the epilogue they agree
<1>14. PICK m : m = h + REPEAT_THRESHOLD
  OBVIOUS
<1>15. REPEAT_THRESHOLD \in Nat /\ REPEAT_THRESHOLD > 1
  BY ThresholdAssumption
<1>16. m \in Nat /\ m <= Len(trace) /\ m <= wb_commit_idx /\ m <= Len(sv_trace)
  BY <1>6, <1>7, <1>8, <1>14, <1>15
<1>17. ASSUME NEW i \in 1 .. m
       PROVE  /\ Ran(program, trace[i]) /\ a[i] = EntryOf(program, trace[i])
              /\ b[i].pc = trace[i].pc /\ b[i].reg = trace[i].reg /\ b[i].mem = trace[i].mem
  <2>1. i \in 1 .. Len(trace) /\ i <= Len(trace) /\ i \in 1 .. wb_commit_idx /\ i \in 1 .. Len(sv_trace)
    BY <1>4, <1>7, <1>8, <1>16
  <2>2. sv_trace[i] = trace[i]
    BY <1>1, <2>1, Zenon DEF FeedInv, Follows
  <2>3. Ran(program, trace[i])
    BY <1>1, <2>1, Zenon DEF SpikeInv
  <2> QED
    BY <1>5, <1>13, <2>1, <2>2, <2>3, Zenon DEF Recovered
<1>18. ASSUME NEW i \in 1 .. m
       PROVE  b[i].pc \in Nat /\ a[i].pc = b[i].pc + BASE_OFFSET
  <2>1. trace[i].pc \in Nat
    BY <1>17 DEF Ran, Known
  <2>2. EntryOf(program, trace[i]).pc = trace[i].pc + BASE_OFFSET
    BY DEF EntryOf
  <2> QED
    BY <1>17, <2>1, <2>2, Zenon
<1>19. Len(a) \in Nat /\ Len(b) \in Nat /\ m <= Len(a) /\ m <= Len(b) /\ Len(b) = wb_commit_idx
  BY <1>4, <1>5, <1>7, <1>13, <1>16 DEF Recovered
<1>20. m \in Repeats(b)
  <2>1. m \in REPEAT_THRESHOLD .. Len(b)
    BY <1>6, <1>14, <1>15, <1>19
  <2>2. ASSUME NEW j \in m - REPEAT_THRESHOLD + 1 .. m PROVE b[j].pc = Len(program) - 1
    <3>1. j \in h + 1 .. Len(trace) /\ j \in 1 .. m
      BY <1>4, <1>6, <1>14, <1>15, <1>16
    <3> QED
      BY <1>6, <1>17, <3>1, Zenon DEF HaltsFrom
  <2>3. m \in m - REPEAT_THRESHOLD + 1 .. m
    BY <1>15, <1>16
  <2> QED
    BY <2>1, <2>2, <2>3, Zenon DEF Repeats
<1>21. BASE_OFFSET \in Nat
  BY <1>2, BaseFacts
<1>22. PICK n \in 1 .. m : CutAt(a, b, n)
  <2>1. PcsShifted(a, b, m)
    BY <1>18, Zenon DEF PcsShifted
  <2> QED
    BY <1>16, <1>19, <1>20, <2>1, CutAlike, Zenon
<1>23. n \in Nat /\ n > 0 /\ n <= Len(a) /\ n <= Len(b) /\ 1 \in 1 .. n /\ 1 \in 1 .. m
  BY <1>16, <1>19, <1>22
<1>24. PICK s, v : s = SubSeq(a, 1, n) /\ v = SubSeq(b, 1, n)
  OBVIOUS
<1>25. IsSeq(a)
  BY <1>5, Zenon DEF IsSeq
<1>26. /\ Len(s) = n /\ \A i \in 1 .. n : s[i] = a[i]
       /\ Len(v) = n /\ \A i \in 1 .. n : v[i] = b[i]
  <2>1. Len(SubSeq(a, 1, n)) = n /\ \A i \in 1 .. n : SubSeq(a, 1, n)[i] = a[i]
    BY <1>23, <1>25, SeqFirst, Zenon
  <2>2. Len(SubSeq(b, 1, n)) = n /\ \A i \in 1 .. n : SubSeq(b, 1, n)[i] = b[i]
    BY <1>13, <1>23, SeqFirst, Zenon
  <2> QED
    BY <1>24, <2>1, <2>2, Zenon
<1>27. s[1].pc = BASE_OFFSET /\ v[1].pc = 0
  <2>1. trace[1].pc = 0
    BY <1>1, <1>4, Zenon DEF SpikeInv
  <2>2. v[1].pc = 0
    BY <1>17, <1>23, <1>26, <2>1, Zenon
  <2>3. a[1].pc = b[1].pc + BASE_OFFSET /\ b[1].pc = 0
    BY <1>17, <1>18, <1>23, <2>1, Zenon
  <2>4. s[1].pc = 0 + BASE_OFFSET
    BY <1>23, <1>26, <2>3, Zenon
  <2> QED
    BY <1>21, <2>2, <2>4
<1>28. ASSUME NEW i \in 1 .. n
       PROVE  /\ pc_ok(s[i], v[i], s[1].pc, v[1].pc)
              /\ reg_ok(s[i], v[i]) /\ mem_ok(s[i], v[i])
  <2>1. i \in 1 .. m
    BY <1>16, <1>22
  <2>2. PICK r, sp, sv : r = trace[i] /\ sp = s[i] /\ sv = v[i]
    OBVIOUS
  <2>3. /\ Ran(program, r) /\ sp = EntryOf(program, r)
        /\ sv.pc = r.pc /\ sv.reg = r.reg /\ sv.mem = r.mem
    BY <1>17, <1>26, <2>1, <2>2, Zenon
  <2>4. pc_ok(sp, sv, BASE_OFFSET, 0) /\ reg_ok(sp, sv) /\ mem_ok(sp, sv)
    BY <1>2, <2>3, RecordPasses, Zenon
  <2> QED
    BY <1>27, <2>2, <2>4, Zenon
<1>29. AllPass(s, v, n)
  BY <1>28, Zenon DEF AllPass
<1>30. /\ s = trunc_spike(trim_boot_stub(parse_spike_log(spike_log).records, BASE_OFFSET),
                          REPEAT_THRESHOLD)
       /\ v = trunc_sv(parse_sv_log(sv_log).records, REPEAT_THRESHOLD)
  BY <1>3, <1>12, <1>22, <1>24, Zenon DEF CutAt
<1>31. /\ compare(spike_log, sv_log).total = n /\ compare(spike_log, sv_log).passed = n
       /\ ~compare(spike_log, sv_log).warned
  BY <1>4, <1>13, <1>23, <1>26, <1>29, <1>30, CleanReport, Zenon
<1> QED
  BY <1>23, <1>31, Zenon DEF Accurate, report

(* compare_accuracy.py never reports a core that retires what Spike does:  *)
(* however the logs interleave, whatever the load address does to pcs,     *)
(* auipc results and data addresses, and although Spike omits writes to    *)
(* x0, both traces are cut at the same record, every record passes and     *)
(* nothing is warned of.                                                   *)
THEOREM AgreeingCorePasses == Spec => []NoFalseAlarm
<1>1. Init => AgreeInv
  BY CommitInvInit, SpikeInvInit, HaltInvInit, FeedInvInit DEF AgreeInv
<1>2. AgreeInv /\ [Next]_vars => AgreeInv'
  BY AgreeInvStep
<1>3. AgreeInv => NoFalseAlarm
  BY AgreeReported
<1> QED
  BY <1>1, <1>2, <1>3, PTL DEF Spec

-----------------------------------------------------------------------------
(* Faults: Spike's trace is cut right behind the first epilogue *)

(* An instruction is followed by another one, the epilogue by itself. *)
Moves(x, y) == /\ x = Len(program) - 1 => y = Len(program) - 1
               /\ x # Len(program) - 1 => y # x
MoveInv ==
  /\ \A i \in 1 .. Len(trace) : i < Len(trace) => Moves(trace[i].pc, trace[i + 1].pc)
  /\ Len(trace) > 0 => Moves(trace[Len(trace)].pc, pc - 1)

LEMMA MoveInvInit ==
  ASSUME Init
  PROVE  MoveInv
<1>1. trace = <<>>
  BY DEF Init
<1>2. 1 .. Len(<<>>) = {} /\ ~(Len(<<>>) > 0)
  OBVIOUS
<1> QED
  BY <1>1, <1>2, Zenon DEF MoveInv

LEMMA MoveStep ==
  ASSUME SpikeType, SpikeInv, MoveInv, SpikeStep
  PROVE  MoveInv'
<1>1. /\ program \in Programs /\ pc \in 0 .. Len(program) /\ trace \in Seq(Known)
      /\ Len(program) \in Nat /\ 0 < Len(program)
  BY ProgramLength DEF SpikeType
<1>2. /\ pc > 0 /\ program' = program
  BY DEF SpikeStep
<1>3. pc \in 1 .. Len(program)
  BY <1>1, <1>2
<1>4. PICK r : trace' = Append(trace, r) /\ r \in Known /\ r.pc = pc - 1
  BY SpikeLogStep, Zenon
<1>5. /\ Len(trace) \in Nat /\ Len(trace') = Len(trace) + 1
      /\ \A k \in 1 .. Len(trace) : trace'[k] = trace[k]
      /\ trace'[Len(trace) + 1] = r
  BY <1>1, <1>4, AppendTo
<1>6. /\ instr.back \in Nat
      /\ instr.kind = "halt" <=> pc = Len(program)
      /\ instr.kind = "branch" => 0 < instr.back /\ instr.back < pc
  BY <1>1, <1>3, ProgramType, Zenon DEF instr
<1>7. \/ instr.kind = "branch" /\ pc' = pc - instr.back
      \/ pc' = (IF instr.kind = "halt" THEN pc ELSE pc + 1)
  BY DEF SpikeStep
<1>8. \A x, y : Moves(x, y)' <=> Moves(x, y)
  BY <1>2, Zenon DEF Moves
<1>9. Moves(pc - 1, pc' - 1)
  <2>1. PICK n, q, back : n = Len(program) /\ q = pc' /\ back = instr.back
    OBVIOUS
  <2>2. CASE pc = n
    <3>1. instr.kind = "halt" /\ instr.kind # "branch"
      BY <1>6, <2>1, <2>2
    <3>2. q = pc
      BY <1>7, <2>1, <3>1
    <3> QED
      BY <2>1, <2>2, <3>2, Zenon DEF Moves
  <2>3. CASE pc # n
    <3>1. instr.kind # "halt"
      BY <1>6, <2>1, <2>3
    <3>2. back \in Nat /\ (q = pc + 1 \/ (0 < back /\ q = pc - back))
      BY <1>6, <1>7, <2>1, <3>1
    <3>3. pc - 1 # n - 1 /\ q - 1 # pc - 1
      BY <1>1, <1>3, <2>1, <2>3, <3>2
    <3> QED
      BY <2>1, <3>3, Zenon DEF Moves
  <2> QED
    BY <2>2, <2>3
<1>10. Moves(trace'[Len(trace')].pc, pc' - 1)
  BY <1>4, <1>5, <1>9, Zenon
<1>11. ASSUME NEW i \in 1 .. Len(trace'), i < Len(trace')
       PROVE  Moves(trace'[i].pc, trace'[i + 1].pc)
  <2>1. CASE i = Len(trace)
    <3>1. i \in 1 .. Len(trace) /\ Len(trace) > 0
      BY <1>5, <2>1
    <3>2. trace'[i] = trace[Len(trace)] /\ trace'[i + 1] = r
      BY <1>5, <2>1, <3>1, Zenon
    <3> QED
      BY <1>4, <3>1, <3>2, Zenon DEF MoveInv
  <2>2. CASE i # Len(trace)
    <3>1. i \in 1 .. Len(trace) /\ i < Len(trace) /\ i + 1 \in 1 .. Len(trace)
      BY <1>5, <1>11, <2>2
    <3>2. trace'[i] = trace[i] /\ trace'[i + 1] = trace[i + 1]
      BY <1>5, <3>1, Zenon
    <3> QED
      BY <3>1, <3>2, Zenon DEF MoveInv
  <2> QED
    BY <2>1, <2>2
<1> QED
  BY <1>8, <1>10, <1>11, Zenon DEF MoveInv

LEMMA MoveInvStep ==
  ASSUME SpikeType, SpikeInv, MoveInv, [Next]_vars
  PROVE  MoveInv'
<1>1. CASE SpikeBoot
  <2>1. pc = 0 /\ trace' = trace
    BY <1>1 DEF SpikeBoot
  <2>2. trace' = <<>>
    BY <2>1 DEF SpikeInv
  <2>3. 1 .. Len(<<>>) = {} /\ ~(Len(<<>>) > 0)
    OBVIOUS
  <2> QED
    BY <2>2, <2>3, Zenon DEF MoveInv
<1>2. CASE SpikeStep
  BY <1>2, MoveStep
<1>3. CASE SpikeDone \/ SvCycle \/ SvDone \/ UNCHANGED vars
  <2>1. program' = program /\ pc' = pc /\ trace' = trace
    BY <1>3 DEF SpikeDone, SvCycle, SvDone, vars, spike_vars
  <2> QED
    BY <2>1, Zenon DEF MoveInv, Moves
<1> QED
  BY <1>1, <1>2, <1>3 DEF Next

(* The first epilogue is instruction f + 1, behind it there is no other. *)
FirstHalt(f) ==
  /\ f \in Nat /\ f + REPEAT_THRESHOLD <= Len(trace) /\ f + REPEAT_THRESHOLD <= MAX_RETIRE
  /\ \A i \in 1 .. f : trace[i].pc # Len(program) - 1
  /\ \A i \in f + 1 .. Len(trace) : trace[i].pc = Len(program) - 1

LEMMA FirstHaltExists ==
  ASSUME SpikeType, SpikeInv, HaltInv, MoveInv, phase # "spike"
  PROVE  \E f \in Nat : FirstHalt(f)
<1>1. Len(trace) \in Nat /\ REPEAT_THRESHOLD \in Nat /\ REPEAT_THRESHOLD > 1 /\ MAX_RETIRE \in Nat
  BY ThresholdAssumption, CosimAssumption DEF SpikeType
<1>2. PICK h \in Nat : /\ h + REPEAT_THRESHOLD <= Len(trace)
                       /\ h + REPEAT_THRESHOLD <= MAX_RETIRE
                       /\ HaltsFrom(trace, h)
  BY HaltsSeen, Zenon
<1>3. PICK S : S = {k \in 1 .. Len(trace) : trace[k].pc = Len(program) - 1}
  OBVIOUS
<1>4. h + 1 \in S /\ S \subseteq Nat
  <2>1. h + 1 \in h + 1 .. Len(trace) /\ h + 1 \in 1 .. Len(trace) /\ 1 .. Len(trace) \subseteq Nat
    BY <1>1, <1>2
  <2> QED
    BY <1>2, <1>3, <2>1, Zenon DEF HaltsFrom
<1>5. PICK g \in S : \A y \in S : g <= y
  BY <1>4, LeastElement
<1>6. g \in 1 .. Len(trace) /\ g <= h + 1 /\ trace[g].pc = Len(program) - 1
  BY <1>3, <1>4, <1>5, Zenon
<1>7. PICK f : f = g - 1
  OBVIOUS
<1>8. /\ f \in Nat /\ f + 1 = g /\ f + REPEAT_THRESHOLD <= Len(trace)
      /\ f + REPEAT_THRESHOLD <= MAX_RETIRE
  BY <1>1, <1>2, <1>6, <1>7
<1>9. ASSUME NEW i \in 1 .. f PROVE trace[i].pc # Len(program) - 1
  <2>1. i \in 1 .. Len(trace) /\ ~(g <= i)
    BY <1>1, <1>6, <1>8
  <2> QED
    BY <1>3, <1>5, <2>1, Zenon
<1>10. ASSUME NEW i \in f + 1 .. Len(trace) PROVE trace[i].pc = Len(program) - 1
  <2>1. SUFFICES ASSUME trace[i].pc # Len(program) - 1 PROVE FALSE
    OBVIOUS
  <2>2. PICK W : W = {k \in g .. Len(trace) : trace[k].pc # Len(program) - 1}
    OBVIOUS
  <2>3. i \in W /\ W \subseteq Nat
    <3>1. i \in g .. Len(trace) /\ g .. Len(trace) \subseteq Nat
      BY <1>1, <1>6, <1>8
    <3> QED
      BY <2>1, <2>2, <3>1, Zenon
  <2>4. PICK j \in W : \A y \in W : j <= y
    BY <2>3, LeastElement
  <2>5. j \in g .. Len(trace) /\ trace[j].pc # Len(program) - 1
    BY <2>2, <2>4, Zenon
  <2>6. PICK k : k = j - 1
    OBVIOUS
  <2>7. j # g
    BY <1>6, <2>5
  <2>8. k \in g .. Len(trace) /\ k \in 1 .. Len(trace) /\ k < Len(trace) /\ k + 1 = j /\ ~(j <= k)
    BY <1>1, <1>6, <2>5, <2>6, <2>7
  <2>9. trace[k].pc = Len(program) - 1
    BY <2>2, <2>4, <2>8, Zenon
  <2>10. Moves(trace[k].pc, trace[j].pc)
    BY <2>8, Zenon DEF MoveInv
  <2> QED
    BY <2>5, <2>9, <2>10, Zenon DEF Moves
<1> QED
  BY <1>8, <1>9, <1>10, Zenon DEF FirstHalt

(* How truncate_at_self_loop cuts Spike's records. *)
LEMMA SpikeCut ==
  ASSUME SpikeType, MoveInv, NEW f \in Nat, FirstHalt(f), NEW a, Trimmed(a, program, trace)
  PROVE  trunc_spike(a, REPEAT_THRESHOLD) = SubSeq(a, 1, f + 1)
<1>1. /\ REPEAT_THRESHOLD \in Nat /\ REPEAT_THRESHOLD > 1 /\ Len(trace) \in Nat
      /\ f + REPEAT_THRESHOLD <= Len(trace) /\ BASE_OFFSET \in Nat
  BY ThresholdAssumption, BaseFacts DEF SpikeType, FirstHalt
<1>2. Len(a) = Len(trace)
  BY Zenon DEF Trimmed
<1>3. ASSUME NEW i \in 1 .. Len(trace)
      PROVE  a[i].pc = trace[i].pc + BASE_OFFSET /\ trace[i].pc \in Nat
  <2>1. a[i] = EntryOf(program, trace[i])
    BY Zenon DEF Trimmed
  <2>2. EntryOf(program, trace[i]).pc = trace[i].pc + BASE_OFFSET
    BY DEF EntryOf
  <2>3. trace[i] \in Known
    BY ElementType DEF SpikeType
  <2> QED
    BY <2>1, <2>2, <2>3 DEF Known
<1>4. PICK A, m : A = Repeats(a) /\ m = f + REPEAT_THRESHOLD
  OBVIOUS
<1>5. ASSUME NEW i \in A
      PROVE  i \in Nat /\ i <= Len(trace) /\ m <= i
  <2>1. /\ i \in REPEAT_THRESHOLD .. Len(trace)
        /\ \A j \in i - REPEAT_THRESHOLD + 1 .. i : a[j].pc = a[i].pc
    BY <1>2, <1>4, <1>5, Zenon DEF Repeats
  <2>2. i \in Nat /\ i <= Len(trace)
    BY <1>1, <2>1
  <2>3. ASSUME ~(m <= i) PROVE FALSE
    <3>1. PICK k, l : k = i - REPEAT_THRESHOLD + 1 /\ l = k + 1
      OBVIOUS
    <3>2. /\ k \in 1 .. f /\ k \in 1 .. Len(trace) /\ k < Len(trace) /\ l \in 1 .. Len(trace)
          /\ k \in i - REPEAT_THRESHOLD + 1 .. i /\ l \in i - REPEAT_THRESHOLD + 1 .. i
      BY <1>1, <1>4, <2>1, <2>3, <3>1
    <3>3. a[k].pc = a[l].pc
      BY <2>1, <3>2, Zenon
    <3>4. trace[k].pc = trace[l].pc
      <4>1. PICK x, y : x = trace[k].pc /\ y = trace[l].pc
        OBVIOUS
      <4>2. x \in Nat /\ y \in Nat /\ x + BASE_OFFSET = y + BASE_OFFSET
        BY <1>3, <3>2, <3>3, <4>1, Zenon
      <4>3. x = y
        BY <1>1, <4>2
      <4> QED
        BY <4>1, <4>3
    <3>5. Moves(trace[k].pc, trace[l].pc)
      BY <3>1, <3>2, Zenon DEF MoveInv
    <3>6. trace[k].pc # Len(program) - 1
      BY <3>2, Zenon DEF FirstHalt
    <3> QED
      BY <3>4, <3>5, <3>6, Zenon DEF Moves
  <2> QED
    BY <2>2, <2>3
<1>6. m \in A
  <2>1. m \in REPEAT_THRESHOLD .. Len(trace) /\ m \in m - REPEAT_THRESHOLD + 1 .. m
    BY <1>1, <1>4
  <2>2. ASSUME NEW j \in m - REPEAT_THRESHOLD + 1 .. m
        PROVE  a[j].pc = (Len(program) - 1) + BASE_OFFSET
    <3>1. j \in f + 1 .. Len(trace) /\ j \in 1 .. Len(trace)
      BY <1>1, <1>4
    <3> QED
      BY <1>3, <3>1, Zenon DEF FirstHalt
  <2> QED
    BY <1>2, <1>4, <2>1, <2>2, Zenon DEF Repeats
<1>7. A \subseteq Nat /\ A # {}
  BY <1>5, <1>6
<1>8. PICK x : x = Min(A)
  OBVIOUS
<1>9. x \in A /\ x <= m
  BY <1>6, <1>7, <1>8, MinOf, Zenon
<1>10. x = m
  <2>1. m <= x /\ x \in Nat /\ m \in Nat
    BY <1>1, <1>4, <1>5, <1>9
  <2> QED
    BY <1>9, <2>1
<1>11. x - REPEAT_THRESHOLD + 1 = f + 1
  BY <1>1, <1>4, <1>10
<1>12. trunc_spike(a, REPEAT_THRESHOLD) = SubSeq(a, 1, x - REPEAT_THRESHOLD + 1)
  BY <1>4, <1>7, <1>8, Zenon DEF trunc_spike, Repeats
<1> QED
  BY <1>11, <1>12, Zenon

(* What the core retires when instruction d shows the fault. *)
InPlace == {"value", "rd", "lost_write", "store_value", "store_address"}

FaultAt(d) ==
  /\ d \in 1 .. Len(trace) /\ trace[d].pc # Len(program) - 1 /\ d <= Len(sv_trace) + 1
  /\ \A i \in 1 .. Len(sv_trace) : i < d => sv_trace[i] = trace[i]
  /\ fault # "dropped" => d <= Len(sv_trace)
  /\ fault \in InPlace => Possible(trace[d], fault) /\ sv_trace[d] = Faulty(trace[d], fault)
  /\ fault = "dropped" =>
       /\ fed = Len(sv_trace) + 1
       /\ \A i \in 1 .. Len(sv_trace) : d <= i /\ i < Len(trace) => sv_trace[i] = trace[i + 1]
  /\ fault = "repeated" =>
       /\ fed + 1 = Len(sv_trace) /\ sv_trace[d] = trace[d]
       /\ d < Len(sv_trace) => sv_trace[d + 1] = trace[d]
  /\ fault = "unknown_pc" => \A i \in 1 .. Len(sv_trace) : d <= i => sv_trace[i].pc = Unknown

FaultInv ==
  /\ phase = "spike" => fault = "none"
  /\ fault # "none" => \E d \in Nat : FaultAt(d)

LEMMA FaultInvInit ==
  ASSUME Init
  PROVE  FaultInv
BY DEF Init, FaultInv

LEMMA FaultShown ==
  ASSUME SpikeType, CoreType, SpikeInv, FeedInv, phase = "sv", trace' = trace, program' = program,
         FeedFault
  PROVE  \E d \in Nat : FaultAt(d)'
<1>1. fault = "none" /\ fed < Len(trace) /\ Kind(Due) # "halt"
  BY DEF FeedFault
<1>2. fed = Len(sv_trace) /\ Follows(trace, sv_trace)
  BY <1>1, Zenon DEF FeedInv
<1>3. /\ program \in Programs /\ Len(program) \in Nat /\ trace \in Seq(Known) /\ Len(trace) \in Nat
      /\ fed \in Nat /\ sv_trace \in Seq(Retired) /\ Len(sv_trace) \in Nat
  BY ProgramLength DEF SpikeType, CoreType
<1>4. PICK d : d = fed + 1
  OBVIOUS
<1>5. d \in Nat /\ d \in 1 .. Len(trace) /\ d = Len(sv_trace) + 1 /\ Len(sv_trace) < d
  BY <1>1, <1>2, <1>3, <1>4
<1>6. PICK r : r = trace[d]
  OBVIOUS
<1>7. Due = r /\ Ran(program, r)
  BY <1>1, <1>4, <1>5, <1>6, Zenon DEF Due, SpikeInv
<1>8. r \in Known /\ r.pc \in Nat /\ r.pc # Unknown /\ r.pc < Len(program)
  BY <1>7 DEF Ran, Known, Unknown
<1>9. r.pc # Len(program) - 1
  <2>1. program[r.pc + 1].kind # "halt"
    BY <1>1, <1>7, <1>8, Zenon DEF Kind
  <2>2. r.pc + 1 \in 1 .. Len(program)
    BY <1>3, <1>8
  <2>3. r.pc + 1 # Len(program)
    BY <1>3, <2>1, <2>2, ProgramType, Zenon
  <2> QED
    BY <1>3, <1>8, <2>3
<1>10. PICK f \in Faults :
         /\ Possible(r, f) /\ fault' = f
         /\ f = "dropped" => sv_trace' = sv_trace
         /\ f # "dropped" => sv_trace' = Append(sv_trace, Faulty(r, f))
         /\ fed' = IF f = "repeated" THEN fed ELSE fed + 1
  BY <1>7 DEF FeedFault, Enter
<1>11. f \in FaultKinds /\ r \in Retired
  BY <1>8, <1>10, CosimAssumption, KnownRetired
<1>12. /\ Faulty(r, f) \in Retired
       /\ f = "unknown_pc" => Faulty(r, f).pc = Unknown
  BY <1>10, <1>11, FaultyType, Zenon
<1>13. \A i \in 1 .. Len(sv_trace) : i < d => sv_trace[i] = trace[i]
  <2>1. \A i \in 1 .. Len(sv_trace) : i <= Len(trace)
    BY <1>1, <1>2, <1>3
  <2> QED
    BY <1>2, <2>1, Zenon DEF Follows
<1>14. CASE f = "dropped"
  <2>1. f \notin InPlace /\ f # "repeated" /\ f # "unknown_pc"
    BY <1>14 DEF InPlace
  <2>2. sv_trace' = sv_trace /\ fed' = fed + 1 /\ fault' = f
    BY <1>10, <1>14, <2>1
  <2>3. \A i \in 1 .. Len(sv_trace) : ~(d <= i)
    BY <1>3, <1>5
  <2>4. d <= Len(sv_trace) + 1
    BY <1>3, <1>5
  <2> QED
    BY <1>2, <1>5, <1>6, <1>9, <1>13, <1>14, <2>1, <2>2, <2>3, <2>4, Zenon DEF FaultAt
<1>15. CASE f # "dropped"
  <2>1. PICK tr, x : tr = sv_trace' /\ x = Faulty(r, f)
    OBVIOUS
  <2>2. /\ Len(tr) = Len(sv_trace) + 1 /\ tr[Len(sv_trace) + 1] = x
        /\ \A k \in 1 .. Len(sv_trace) : tr[k] = sv_trace[k]
    <3>1. tr = Append(sv_trace, x) /\ x \in Retired
      BY <1>10, <1>12, <1>15, <2>1, Zenon
    <3> QED
      BY <1>3, <3>1, AppendTo
  <2>3. Len(tr) = d /\ tr[d] = x
    BY <1>5, <2>2, Zenon
  <2>4. d <= d /\ d <= d + 1 /\ ~(d < d) /\ \A i \in 1 .. d : d <= i => i = d
    BY <1>5
  <2>5. ASSUME NEW i \in 1 .. d, i < d PROVE tr[i] = trace[i]
    <3>1. i \in 1 .. Len(sv_trace)
      BY <1>3, <1>5, <2>5
    <3> QED
      BY <1>13, <2>2, <2>5, <3>1, Zenon
  <2>6. f = "repeated" => x = r /\ fed' + 1 = d
    <3>1. f = "repeated" => x = r
      BY <2>1 DEF Faulty
    <3>2. f = "repeated" => fed' + 1 = d
      BY <1>4, <1>10
    <3> QED
      BY <3>1, <3>2
  <2>7. f = "unknown_pc" => x.pc = Unknown
    BY <1>12, <2>1, Zenon
  <2> QED
    BY <1>5, <1>6, <1>9, <1>10, <1>15, <2>1, <2>3, <2>4, <2>5, <2>6, <2>7, Zenon DEF FaultAt
<1> QED
  BY <1>14, <1>15

LEMMA FaultKept ==
  ASSUME SpikeType, CoreType, trace' = trace, program' = program, FeedInstruction,
         fault # "none", NEW d \in Nat, FaultAt(d)
  PROVE  FaultAt(d)'
<1>1. fault' = fault /\ fed' = fed + 1 /\ fed \in Nat
  BY DEF FeedInstruction, CoreType
<1>2. /\ sv_trace \in Seq(Retired) /\ Len(sv_trace) \in Nat /\ Len(trace) \in Nat
      /\ d \in 1 .. Len(trace) /\ d <= Len(sv_trace) + 1
  BY DEF SpikeType, CoreType, FaultAt
<1>3. PICK x : x = IF fault = "unknown_pc" THEN Faulty(Due, fault) ELSE Due
  OBVIOUS
<1>4. Due \in Known
  BY <1>1, DueType
<1>5. Due \in Retired /\ Due.pc # Unknown
  BY <1>4, KnownRetired, Zenon
<1>6. /\ x \in Retired
      /\ fault = "unknown_pc" => x.pc = Unknown
      /\ fault # "unknown_pc" => x = Due
  <2>1. CASE fault = "unknown_pc"
    <3>1. "unknown_pc" \in FaultKinds
      BY DEF FaultKinds
    <3>2. Faulty(Due, fault) \in Retired /\ Faulty(Due, fault).pc = Unknown
      BY <1>5, <2>1, <3>1, FaultyType, Zenon
    <3> QED
      BY <1>3, <2>1, <3>2, Zenon
  <2>2. CASE fault # "unknown_pc"
    BY <1>3, <1>5, <2>2, Zenon
  <2> QED
    BY <2>1, <2>2
<1>7. PICK tr, n : tr = sv_trace' /\ n = Len(sv_trace) + 1
  OBVIOUS
<1>8. /\ Len(tr) = n /\ tr[n] = x
      /\ \A k \in 1 .. Len(sv_trace) : tr[k] = sv_trace[k]
  <2>1. tr = Append(sv_trace, x)
    BY <1>3, <1>7 DEF FeedInstruction, Enter
  <2> QED
    BY <1>2, <1>6, <1>7, <2>1, AppendTo
<1>9. n \in Nat /\ d <= n /\ d <= n + 1 /\ \A i \in 1 .. n : i \in 1 .. Len(sv_trace) \/ i = n
  BY <1>2, <1>7
<1>10. ASSUME NEW i \in 1 .. n, i < d PROVE tr[i] = trace[i]
  <2>1. i \in 1 .. Len(sv_trace)
    BY <1>2, <1>7, <1>10
  <2> QED
    BY <1>8, <1>10, <2>1, Zenon DEF FaultAt
<1>11. d <= Len(sv_trace) => d \in 1 .. Len(sv_trace) /\ tr[d] = sv_trace[d]
  <2>1. d <= Len(sv_trace) => d \in 1 .. Len(sv_trace)
    BY <1>2
  <2> QED
    BY <1>8, <2>1, Zenon
<1>12. fault \in InPlace => Possible(trace[d], fault) /\ tr[d] = Faulty(trace[d], fault)
  <2>1. fault \in InPlace => fault # "dropped"
    BY DEF InPlace
  <2> QED
    BY <1>11, <2>1, Zenon DEF FaultAt
<1>13. ASSUME fault = "dropped"
       PROVE  /\ fed' = n + 1
              /\ \A i \in 1 .. n : d <= i /\ i < Len(trace) => tr[i] = trace[i + 1]
  <2>1. fed = n /\ x = Due
    BY <1>6, <1>7, <1>13 DEF FaultAt
  <2>2. ASSUME NEW i \in 1 .. n, d <= i, i < Len(trace) PROVE tr[i] = trace[i + 1]
    <3>1. CASE i = n
      BY <1>8, <2>1, <2>2, <3>1, Zenon DEF Due
    <3>2. CASE i \in 1 .. Len(sv_trace)
      BY <1>8, <1>13, <2>2, <3>2, Zenon DEF FaultAt
    <3> QED
      BY <1>9, <3>1, <3>2
  <2> QED
    BY <1>1, <2>1, <2>2, Zenon
<1>14. ASSUME fault = "repeated"
       PROVE  /\ fed' + 1 = n /\ tr[d] = trace[d]
              /\ d < n => tr[d + 1] = trace[d]
  <2>1. fed + 1 = Len(sv_trace) /\ d <= Len(sv_trace) /\ sv_trace[d] = trace[d] /\ x = Due
    BY <1>6, <1>14 DEF FaultAt
  <2>2. fed' + 1 = n
    BY <1>1, <1>2, <1>7, <2>1
  <2>3. CASE d = Len(sv_trace)
    <3>1. d + 1 = n /\ fed + 1 = d /\ fed < Len(trace)
      BY <1>1, <1>2, <1>7, <2>1, <2>3
    <3>2. Due = trace[d]
      BY <3>1, Zenon DEF Due
    <3> QED
      BY <1>8, <1>11, <2>1, <2>2, <3>1, <3>2, Zenon
  <2>4. CASE d # Len(sv_trace)
    <3>1. d < Len(sv_trace) /\ d + 1 \in 1 .. Len(sv_trace)
      BY <1>2, <2>1, <2>4
    <3>2. sv_trace[d + 1] = trace[d]
      BY <1>14, <3>1, Zenon DEF FaultAt
    <3> QED
      BY <1>8, <1>11, <2>1, <2>2, <3>1, <3>2, Zenon
  <2> QED
    BY <2>3, <2>4
<1>15. ASSUME fault = "unknown_pc", NEW i \in 1 .. n, d <= i PROVE tr[i].pc = Unknown
  <2>1. CASE i = n
    BY <1>6, <1>8, <1>15, <2>1, Zenon
  <2>2. CASE i \in 1 .. Len(sv_trace)
    BY <1>8, <1>15, <2>2, Zenon DEF FaultAt
  <2> QED
    BY <1>9, <2>1, <2>2
<1>16. trace[d].pc # Len(program) - 1
  BY DEF FaultAt
<1> QED
  BY <1>1, <1>2, <1>7, <1>8, <1>9, <1>10, <1>12, <1>13, <1>14, <1>15, <1>16, Zenon DEF FaultAt

LEMMA FaultInvStep ==
  ASSUME SpikeType, CoreType, SpikeInv, FeedInv, FaultInv, [Next]_vars
  PROVE  FaultInv'
<1>1. CASE SpikeBoot \/ SpikeStep \/ SpikeDone
  <2>1. phase = "spike" /\ fault' = fault
    BY <1>1 DEF SpikeBoot, SpikeStep, SpikeDone, feed_vars
  <2> QED
    BY <2>1, Zenon DEF FaultInv
<1>2. CASE SvDone \/ UNCHANGED vars
  <2>1. /\ phase' = "spike" => phase = "spike"
        /\ sv_trace' = sv_trace /\ fed' = fed /\ fault' = fault /\ trace' = trace
        /\ program' = program
    BY <1>2 DEF SvDone, vars, feed_vars, spike_vars
  <2> QED
    BY <2>1, Zenon DEF FaultInv, FaultAt
<1>3. CASE SvCycle
  <2>1. phase = "sv" /\ phase' = phase /\ trace' = trace /\ program' = program
        /\ (FeedInstruction \/ FeedBubble \/ FeedFault)
    BY <1>3 DEF SvCycle, spike_vars
  <2>2. phase' # "spike"
    BY <2>1
  <2> SUFFICES ASSUME fault' # "none" PROVE \E d \in Nat : FaultAt(d)'
    BY <2>2, Zenon DEF FaultInv
  <2>3. CASE FeedInstruction
    <3>1. fault # "none"
      BY <2>3 DEF FeedInstruction
    <3>2. PICK d \in Nat : FaultAt(d)
      BY <3>1, Zenon DEF FaultInv
    <3> QED
      BY <2>1, <2>3, <3>1, <3>2, FaultKept, Zenon
  <2>4. CASE FeedBubble
    <3>1. fed' = fed /\ fault' = fault /\ sv_trace' = sv_trace
      BY <2>4 DEF FeedBubble
    <3> QED
      BY <2>1, <3>1, Zenon DEF FaultInv, FaultAt
  <2>5. CASE FeedFault
    BY <2>1, <2>5, FaultShown, Zenon
  <2> QED
    BY <2>1, <2>3, <2>4, <2>5
<1> QED
  BY <1>1, <1>2, <1>3 DEF Next

(* A wrong value is outside the tolerance for the load address, unless it  *)
(* is off by the load address itself.                                      *)
LEMMA Remainder2 ==
  ASSUME NEW a \in Nat, NEW W \in Nat, a < 2 * W
  PROVE  /\ a < W => a % W = a
         /\ ~(a < W) => a % W = a - W
<1>1. CASE a < W
  BY <1>1, RemainderOf
<1>2. CASE ~(a < W)
  <2>1. PICK c : c = a - W
    OBVIOUS
  <2>2. c \in Nat /\ c < W /\ a = c + W
    BY <1>2, <2>1
  <2>3. (c + W) % W = c
    BY <2>2, RemainderOf, Zenon
  <2> QED
    BY <1>2, <2>1, <2>2, <2>3, Zenon
<1> QED
  BY <1>1, <1>2

LEMMA OutOfTolerance ==
  ASSUME FaultDelta # BASE_OFFSET, NEW v \in Nat, v < WORD
  PROVE  /\ Off(v) # v
         /\ ~values_match_allowing_pc_base(Off(v), v)
         /\ ~values_match_allowing_pc_base(Off(v), Rebase(v))
<1>1. PICK W, B, D : W = WORD /\ B = BASE_OFFSET /\ D = FaultDelta
  OBVIOUS
<1>2. W \in Nat /\ B \in Nat /\ W = 2 * B /\ D \in 1 .. W - 1 /\ D # B /\ v < W
  BY <1>1, WordAssumption, BaseAssumption, CosimAssumption DEF BASE_OFFSET
<1>3. PICK x, y : x = Off(v) /\ y = Rebase(v)
  OBVIOUS
<1>4. /\ x = IF v + D < W THEN v + D ELSE v + D - W
      /\ y = IF v + B < W THEN v + B ELSE v + B - W
  <2>1. v + D \in Nat /\ v + D < 2 * W /\ v + B \in Nat /\ v + B < 2 * W
    BY <1>2
  <2>2. x = (v + D) % W /\ y = (v + B) % W
    BY <1>1, <1>3, Zenon DEF Off, Rebase
  <2>3. /\ v + D < W => (v + D) % W = v + D
        /\ ~(v + D < W) => (v + D) % W = (v + D) - W
    BY <1>2, <2>1, Remainder2, Zenon
  <2>4. /\ v + B < W => (v + B) % W = v + B
        /\ ~(v + B < W) => (v + B) % W = (v + B) - W
    BY <1>2, <2>1, Remainder2, Zenon
  <2>5. PICK p, q : p = (v + D) % W /\ q = (v + B) % W
    OBVIOUS
  <2>6. /\ x = p /\ y = q
        /\ v + D < W => p = v + D
        /\ ~(v + D < W) => p = (v + D) - W
        /\ v + B < W => q = v + B
        /\ ~(v + B < W) => q = (v + B) - W
    BY <2>2, <2>3, <2>4, <2>5, Zenon
  <2> QED
    BY <1>2, <2>1, <2>6
<1>5. x \in Nat /\ x < W /\ y \in Nat /\ y < W
  BY <1>2, <1>4
<1>6. PICK xb, yb : xb = (x + B) % W /\ yb = (y + B) % W
  OBVIOUS
<1>7. /\ xb = IF x + B < W THEN x + B ELSE x + B - W
      /\ yb = IF y + B < W THEN y + B ELSE y + B - W
  <2>1. x + B \in Nat /\ x + B < 2 * W /\ y + B \in Nat /\ y + B < 2 * W
    BY <1>2, <1>5
  <2>2. /\ x + B < W => (x + B) % W = x + B
        /\ ~(x + B < W) => (x + B) % W = (x + B) - W
    BY <1>2, <2>1, Remainder2, Zenon
  <2>3. /\ y + B < W => (y + B) % W = y + B
        /\ ~(y + B < W) => (y + B) % W = (y + B) - W
    BY <1>2, <2>1, Remainder2, Zenon
  <2>4. /\ x + B < W => xb = x + B
        /\ ~(x + B < W) => xb = (x + B) - W
        /\ y + B < W => yb = y + B
        /\ ~(y + B < W) => yb = (y + B) - W
    BY <1>6, <2>2, <2>3, Zenon
  <2> QED
    BY <1>2, <1>5, <2>4
<1>8. x # v /\ xb # v /\ x # y /\ xb # y /\ x # yb
  BY <1>2, <1>4, <1>5, <1>7
<1>9. ~values_match_allowing_pc_base(x, v)
  <2>1. (v + B) % W = y
    BY <1>1, <1>3, Zenon DEF Rebase
  <2> QED
    BY <1>1, <1>6, <1>8, <2>1, Zenon DEF values_match_allowing_pc_base
<1>10. ~values_match_allowing_pc_base(x, y)
  BY <1>1, <1>6, <1>8, Zenon DEF values_match_allowing_pc_base
<1> QED
  BY <1>3, <1>8, <1>9, <1>10, Zenon

LEMMA RegCompared ==
  ASSUME NEW sp, NEW sv, sv.reg # None, sv.reg[1] # 0, reg_ok(sp, sv)
  PROVE  /\ sp.reg # None /\ sp.reg[1] = sv.reg[1]
         /\ values_match_allowing_pc_base(sv.reg[2], sp.reg[2])
<1>1. without_x0(sv.reg, sp.reg) = sv.reg /\ without_x0(sp.reg, sv.reg) = sp.reg
  BY Zenon DEF without_x0
<1>2. /\ (sp.reg = None) = (sv.reg = None)
      /\ sp.reg # None =>
           /\ sp.reg[1] = sv.reg[1]
           /\ values_match_allowing_pc_base(x0_zeroed(sv.reg), x0_zeroed(sp.reg))
  BY <1>1, Zenon DEF reg_ok
<1>3. sp.reg # None
  BY <1>2, Zenon
<1>4. x0_zeroed(sv.reg) = sv.reg[2] /\ x0_zeroed(sp.reg) = sp.reg[2]
  BY <1>2, <1>3, Zenon DEF x0_zeroed
<1> QED
  BY <1>2, <1>3, <1>4, Zenon

LEMMA FaultFails ==
  ASSUME FaultDelta # BASE_OFFSET, program \in Programs, NEW r, Ran(program, r),
         NEW f \in InPlace, Possible(r, f), NEW sp, sp = EntryOf(program, r),
         NEW sv, sv.reg = Faulty(r, f).reg, sv.mem = Faulty(r, f).mem
  PROVE  ~(reg_ok(sp, sv) /\ mem_ok(sp, sv))
<1>1. /\ r \in Known /\ r.reg \in Optional /\ r.mem \in Optional
      /\ r = [pc |-> r.pc, reg |-> r.reg, mem |-> r.mem]
  BY DEF Ran, Known
<1>2. r.reg # None => r.reg[1] \in Nat /\ r.reg[2] \in Nat
  BY <1>1, PairNotNone DEF Optional
<1>3. r.mem # None => r.mem[1] \in Nat /\ r.mem[2] \in Nat
  BY <1>1, PairNotNone DEF Optional
<1>4. /\ sp.reg = SpikeReg(program, r) /\ sp.mem = SpikeMem(r)
  BY DEF EntryOf
<1>5. PICK kind : kind = program[r.pc + 1].kind
  OBVIOUS
<1>6. /\ r.reg # None => r.reg[2] < WORD
      /\ r.mem # None => r.mem[1] = Len(program) /\ r.mem[2] < WORD
  <2>1. CASE kind \in RegKinds
    BY <1>5, <2>1, Zenon DEF Ran
  <2>2. CASE kind = "store"
    BY <1>5, <2>2, Zenon DEF Ran
  <2>3. CASE kind \notin RegKinds \cup {"store"}
    BY <1>5, <2>3, Zenon DEF Ran
  <2> QED
    BY <2>1, <2>2, <2>3
<1>7. r.mem # None => r.mem[1] < WORD
  <2>1. Len(program) \in Nat /\ Len(program) < WORD
    BY BaseFacts
  <2> QED
    BY <1>6, <2>1, Zenon
<1>8. ASSUME r.reg # None, r.reg[1] # 0
      PROVE  /\ sp.reg # None /\ sp.reg[1] = r.reg[1]
             /\ sp.reg[2] = Rebase(r.reg[2]) \/ sp.reg[2] = r.reg[2]
  <2>1. PICK x : x = <<r.reg[1], Rebase(r.reg[2])>>
    OBVIOUS
  <2>2. x # None /\ x[1] = r.reg[1] /\ x[2] = Rebase(r.reg[2])
    <3>1. x \in Pairs
      BY <1>2, <1>8, <2>1, RebaseType, PairNotNone
    <3> QED
      BY <2>1, <3>1, PairNotNone
  <2>3. sp.reg = x \/ sp.reg = r.reg
    BY <1>4, <1>8, <2>1, Zenon DEF SpikeReg
  <2> QED
    BY <1>8, <2>2, <2>3, Zenon
<1>9. ASSUME r.mem # None
      PROVE  sp.mem # None /\ sp.mem[1] = Rebase(r.mem[1]) /\ sp.mem[2] = r.mem[2]
  <2>1. PICK x : x = <<Rebase(r.mem[1]), r.mem[2]>>
    OBVIOUS
  <2>2. x # None /\ x[1] = Rebase(r.mem[1]) /\ x[2] = r.mem[2]
    <3>1. x \in Pairs
      BY <1>3, <1>9, <2>1, RebaseType, PairNotNone
    <3> QED
      BY <2>1, <3>1, PairNotNone
  <2>3. sp.mem = x
    BY <1>4, <1>9, <2>1, Zenon DEF SpikeMem
  <2> QED
    BY <2>2, <2>3, Zenon
<1>10. \A n \in Nat : Off(n) \in Nat
  BY WordAssumption, CosimAssumption DEF Off
<1>11. CASE f = "value"
  <2>1. r.reg # None /\ r.reg[1] # 0
    BY <1>11 DEF Possible
  <2>2. PICK x : x = <<r.reg[1], Off(r.reg[2])>>
    OBVIOUS
  <2>3. x # None /\ x[1] = r.reg[1] /\ x[2] = Off(r.reg[2])
    <3>1. x \in Pairs
      BY <1>2, <1>10, <2>1, <2>2, PairNotNone
    <3> QED
      BY <2>2, <3>1, PairNotNone
  <2>4. sv.reg = x
    <3>1. Faulty(r, f).reg = <<r.reg[1], Off(r.reg[2])>>
      BY <1>1, <1>11 DEF Faulty
    <3> QED
      BY <2>2, <3>1, Zenon
  <2>5. /\ ~values_match_allowing_pc_base(Off(r.reg[2]), r.reg[2])
        /\ ~values_match_allowing_pc_base(Off(r.reg[2]), Rebase(r.reg[2]))
    BY <1>2, <1>6, <2>1, OutOfTolerance, Zenon
  <2> QED
    BY <1>8, <2>1, <2>3, <2>4, <2>5, RegCompared, Zenon
<1>12. CASE f = "rd"
  <2>1. r.reg # None
    BY <1>12 DEF Possible
  <2>2. PICK x : x = <<r.reg[1] + 1, r.reg[2]>>
    OBVIOUS
  <2>3. x # None /\ x[1] = r.reg[1] + 1 /\ x[1] # 0 /\ x[1] # r.reg[1]
    <3>1. x \in Pairs /\ r.reg[1] + 1 # 0 /\ r.reg[1] + 1 # r.reg[1]
      BY <1>2, <2>1, <2>2, PairNotNone
    <3>2. x[1] = r.reg[1] + 1 /\ x # None
      BY <2>2, <3>1, PairNotNone
    <3> QED
      BY <3>1, <3>2, Zenon
  <2>4. sv.reg = x
    <3>1. Faulty(r, f).reg = <<r.reg[1] + 1, r.reg[2]>>
      BY <1>1, <1>12 DEF Faulty
    <3> QED
      BY <2>2, <3>1, Zenon
  <2>5. CASE r.reg[1] = 0
    <3>1. sp.reg = None
      BY <1>4, <2>5, Zenon DEF SpikeReg
    <3> QED
      BY <2>3, <2>4, <3>1, RegCompared, Zenon
  <2>6. CASE r.reg[1] # 0
    BY <1>8, <2>1, <2>3, <2>4, <2>6, RegCompared, Zenon
  <2> QED
    BY <2>5, <2>6
<1>13. CASE f = "lost_write"
  <2>1. r.mem # None \/ (r.reg # None /\ r.reg[1] # 0)
    BY <1>13 DEF Possible
  <2>2. sv.reg = None /\ sv.mem = None
    <3>1. Faulty(r, f).reg = None /\ Faulty(r, f).mem = None
      BY <1>1, <1>13 DEF Faulty
    <3> QED
      BY <3>1, Zenon
  <2>3. CASE r.mem # None
    BY <1>9, <2>2, <2>3, Zenon DEF mem_ok
  <2>4. CASE r.reg # None /\ r.reg[1] # 0
    <3>1. sp.reg # None /\ sp.reg[1] # 0
      BY <1>8, <2>4, Zenon
    <3>2. without_x0(sv.reg, sp.reg) = None /\ without_x0(sp.reg, None) = sp.reg
      BY <2>2, <3>1, Zenon DEF without_x0
    <3> QED
      BY <3>1, <3>2, Zenon DEF reg_ok
  <2> QED
    BY <2>1, <2>3, <2>4
<1>14. CASE f = "store_value"
  <2>1. r.mem # None
    BY <1>14 DEF Possible
  <2>2. PICK x : x = <<r.mem[1], Off(r.mem[2])>>
    OBVIOUS
  <2>3. x # None /\ x[2] = Off(r.mem[2])
    <3>1. x \in Pairs
      BY <1>3, <1>10, <2>1, <2>2, PairNotNone
    <3> QED
      BY <2>2, <3>1, PairNotNone
  <2>4. sv.mem = x
    <3>1. Faulty(r, f).mem = <<r.mem[1], Off(r.mem[2])>>
      BY <1>1, <1>14 DEF Faulty
    <3> QED
      BY <2>2, <3>1, Zenon
  <2>5. Off(r.mem[2]) # r.mem[2]
    BY <1>3, <1>6, <2>1, OutOfTolerance, Zenon
  <2> QED
    BY <1>9, <2>1, <2>3, <2>4, <2>5, Zenon DEF mem_ok
<1>15. CASE f = "store_address"
  <2>1. r.mem # None
    BY <1>15 DEF Possible
  <2>2. PICK x : x = <<Off(r.mem[1]), r.mem[2]>>
    OBVIOUS
  <2>3. x # None /\ x[1] = Off(r.mem[1])
    <3>1. x \in Pairs
      BY <1>3, <1>10, <2>1, <2>2, PairNotNone
    <3> QED
      BY <2>2, <3>1, PairNotNone
  <2>4. sv.mem = x
    <3>1. Faulty(r, f).mem = <<Off(r.mem[1]), r.mem[2]>>
      BY <1>1, <1>15 DEF Faulty
    <3> QED
      BY <2>2, <3>1, Zenon
  <2>5. ~values_match_allowing_pc_base(Off(r.mem[1]), Rebase(r.mem[1]))
    BY <1>3, <1>7, <2>1, OutOfTolerance, Zenon
  <2> QED
    BY <1>9, <2>1, <2>3, <2>4, <2>5, Zenon DEF mem_ok
<1> QED
  BY <1>11, <1>12, <1>13, <1>14, <1>15 DEF InPlace

(* How truncate_at_self_loop cuts the core's records. *)
LEMMA SvCut ==
  ASSUME NEW b, IsSeq(b), NEW v, v = trunc_sv(b, REPEAT_THRESHOLD)
  PROVE  /\ Len(b) \in Nat /\ Len(v) \in Nat /\ Len(v) <= Len(b)
         /\ \A i \in 1 .. Len(v) : v[i] = b[i]
         /\ \A m \in Repeats(b) : Len(v) <= m - REPEAT_THRESHOLD + 1
<1>1. REPEAT_THRESHOLD \in Nat /\ REPEAT_THRESHOLD > 1
  BY ThresholdAssumption
<1>2. Len(b) \in Nat
  BY DEF IsSeq
<1>3. PICK B : B = Repeats(b)
  OBVIOUS
<1>4. \A i \in B : i \in REPEAT_THRESHOLD .. Len(b)
  BY <1>3, Zenon DEF Repeats
<1>5. CASE B = {}
  <2>1. v = b
    BY <1>3, <1>5, Zenon DEF trunc_sv, Repeats
  <2>2. Len(b) <= Len(b)
    BY <1>2
  <2> QED
    BY <1>2, <1>3, <1>5, <2>1, <2>2, Zenon
<1>6. CASE B # {}
  <2>1. B \subseteq Nat
    BY <1>1, <1>2, <1>4
  <2>2. PICK x : x = Min(B)
    OBVIOUS
  <2>3. x \in B /\ \A y \in B : x <= y
    BY <1>6, <2>1, <2>2, MinOf, Zenon
  <2>4. PICK n : n = x - REPEAT_THRESHOLD + 1
    OBVIOUS
  <2>5. n \in Nat /\ n <= Len(b)
    <3>1. x \in REPEAT_THRESHOLD .. Len(b)
      BY <1>4, <2>3, Zenon
    <3> QED
      BY <1>1, <1>2, <2>4, <3>1
  <2>6. v = SubSeq(b, 1, n)
    BY <1>3, <1>6, <2>2, <2>4, Zenon DEF trunc_sv, Repeats
  <2>7. Len(SubSeq(b, 1, n)) = n /\ \A i \in 1 .. n : SubSeq(b, 1, n)[i] = b[i]
    BY <2>5, SeqFirst, Zenon
  <2>8. Len(v) = n /\ \A i \in 1 .. n : v[i] = b[i]
    BY <2>6, <2>7, Zenon
  <2>9. ASSUME NEW m \in B PROVE n <= m - REPEAT_THRESHOLD + 1
    <3>1. x <= m /\ m \in Nat /\ x \in Nat
      BY <2>1, <2>3
    <3> QED
      BY <1>1, <2>4, <3>1
  <2> QED
    BY <1>2, <1>3, <2>5, <2>8, <2>9, Zenon
<1> QED
  BY <1>5, <1>6

(* Traces of two lengths, or a record that does not pass, show. *)
LEMMA DirtyReport ==
  ASSUME NEW a, NEW b, NEW s, NEW v, NEW n \in Nat,
         s = trunc_spike(trim_boot_stub(parse_spike_log(a).records, BASE_OFFSET), REPEAT_THRESHOLD),
         v = trunc_sv(parse_sv_log(b).records, REPEAT_THRESHOLD), Len(s) = n,
         \/ Len(v) # n
         \/ \E i \in 1 .. n : ~(/\ pc_ok(s[i], v[i], s[1].pc, v[1].pc)
                                /\ reg_ok(s[i], v[i]) /\ mem_ok(s[i], v[i]))
  PROVE  compare(a, b).passed # compare(a, b).total \/ compare(a, b).warned
<1> DEFINE ok(i) == /\ pc_ok(s[i], v[i], s[1].pc, v[1].pc)
                    /\ reg_ok(s[i], v[i]) /\ mem_ok(s[i], v[i])
           total == Min({Len(s), Len(v)})
           passed == Cardinality({i \in 1 .. total : ok(i)})
           warned == \/ Len(s) # Len(v) \/ parse_spike_log(a).exceptions > 0
                     \/ parse_spike_log(a).unrecognized > 0 \/ parse_sv_log(b).unrecognized > 0
<1>1. compare(a, b) = [total |-> total, passed |-> passed, warned |-> warned]
  BY Zenon DEF compare
<1>2. CASE Len(v) # n
  <2>1. warned = TRUE
    BY <1>2, Zenon
  <2>2. compare(a, b) = [total |-> total, passed |-> passed, warned |-> TRUE]
    <3> HIDE DEF total, passed, warned
    <3> QED
      BY <1>1, <2>1, Zenon
  <2> HIDE DEF total, passed, warned
  <2> QED
    BY <2>2
<1>3. CASE Len(v) = n
  <2>1. total = n
    <3>1. {n, n} \subseteq Nat /\ {n, n} # {}
      OBVIOUS
    <3>2. Min({n, n}) \in {n, n}
      BY <3>1, MinOf, Zenon
    <3> QED
      BY <1>3, <3>2, Zenon
  <2>2. PICK i \in 1 .. n : ~ok(i)
    BY <1>3, Zenon
  <2>3. PICK S, T : S = {k \in 1 .. n : ok(k)} /\ T = 1 .. n
    OBVIOUS
  <2>4. IsFiniteSet(T) /\ Cardinality(T) = n /\ i \in T
    BY <2>2, <2>3, FS_Interval
  <2>5. IsFiniteSet(T \ {i}) /\ Cardinality(T \ {i}) = n - 1
    BY <2>4, FS_RemoveElement
  <2>6. S \subseteq T \ {i}
    BY <2>2, <2>3, Zenon
  <2>7. IsFiniteSet(S) /\ Cardinality(S) <= Cardinality(T \ {i})
    BY <2>5, <2>6, FS_Subset, Zenon
  <2>8. Cardinality(S) \in Nat
    BY <2>7, FS_CardinalityType, Zenon
  <2>9. Cardinality(S) # n
    BY <2>5, <2>7, <2>8
  <2>10. passed = Cardinality(S)
    BY <2>1, <2>3, Zenon
  <2> HIDE DEF total, passed, warned
  <2>11. compare(a, b).passed = passed /\ compare(a, b).total = total
    BY <1>1
  <2> QED
    BY <2>1, <2>9, <2>10, <2>11, Zenon
<1> QED
  BY <1>2, <1>3

ReportInv == AgreeInv /\ MoveInv /\ FaultInv

LEMMA ReportInvStep ==
  ASSUME ReportInv, [Next]_vars
  PROVE  ReportInv'
<1>1. AgreeInv /\ MoveInv /\ FaultInv /\ SpikeInv /\ FeedInv /\ SpikeType /\ CoreType
  BY DEF ReportInv, AgreeInv, CommitInv
<1>2. AgreeInv'
  BY <1>1, AgreeInvStep
<1>3. MoveInv'
  BY <1>1, MoveInvStep
<1>4. FaultInv'
  BY <1>1, FaultInvStep
<1> QED
  BY <1>2, <1>3, <1>4 DEF ReportInv

LEMMA FaultShows ==
  ASSUME FaultDelta # BASE_OFFSET, ReportInv
  PROVE  FaultReported
<1> SUFFICES ASSUME Compared, fault # "none" PROVE ~Accurate \/ report.warned
  BY DEF FaultReported
<1>1. /\ CommitInv /\ SpikeInv /\ HaltInv /\ FeedInv /\ SpikeType /\ CoreType
      /\ MoveInv /\ FaultInv
  BY DEF ReportInv, AgreeInv, CommitInv
<1>2. phase # "spike" /\ phase = "compare" /\ program \in Programs
  BY <1>1 DEF Compared, SpikeType
<1>3. REPEAT_THRESHOLD \in Nat /\ REPEAT_THRESHOLD > 1 /\ MAX_RETIRE \in Nat
  BY ThresholdAssumption, CosimAssumption
\* Spike's records, cut behind the first epilogue
<1>4. PICK a : a = trim_boot_stub(parse_spike_log(spike_log).records, BASE_OFFSET)
  OBVIOUS
<1>5. Trimmed(a, program, trace) /\ Len(trace) \in Nat /\ Len(trace) > 0
  BY <1>1, <1>2, <1>4, SpikeRead, Zenon
<1>6. /\ a \in Seq(EntryType) /\ Len(a) = Len(trace) /\ IsSeq(a)
      /\ \A i \in 1 .. Len(trace) : a[i] = EntryOf(program, trace[i])
  BY <1>5, Zenon DEF Trimmed, IsSeq
<1>7. PICK f \in Nat : FirstHalt(f)
  BY <1>1, <1>2, FirstHaltExists, Zenon
<1>8. /\ f + REPEAT_THRESHOLD <= Len(trace) /\ f + REPEAT_THRESHOLD <= MAX_RETIRE
      /\ \A i \in f + 1 .. Len(trace) : trace[i].pc = Len(program) - 1
  BY <1>7, Zenon DEF FirstHalt
<1>9. PICK n : n = f + 1
  OBVIOUS
<1>10. n \in Nat /\ n <= Len(a) /\ 1 \in 1 .. n /\ n <= Len(trace) /\ n <= MAX_RETIRE
  BY <1>3, <1>5, <1>6, <1>8, <1>9
<1>11. PICK s : s = trunc_spike(a, REPEAT_THRESHOLD)
  OBVIOUS
<1>12. Len(s) = n /\ \A i \in 1 .. n : s[i] = a[i]
  <2>1. trunc_spike(a, REPEAT_THRESHOLD) = SubSeq(a, 1, f + 1)
    BY <1>1, <1>5, <1>7, SpikeCut, Zenon
  <2>2. Len(SubSeq(a, 1, n)) = n /\ \A i \in 1 .. n : SubSeq(a, 1, n)[i] = a[i]
    BY <1>6, <1>10, SeqFirst, Zenon
  <2> QED
    BY <1>9, <1>11, <2>1, <2>2, Zenon
<1>13. ASSUME NEW i \in 1 .. n
       PROVE  /\ Ran(program, trace[i]) /\ s[i] = EntryOf(program, trace[i])
              /\ s[i].pc = trace[i].pc + BASE_OFFSET /\ trace[i].pc \in Nat
              /\ trace[i].pc < Len(program)
  <2>1. i \in 1 .. Len(trace)
    BY <1>5, <1>10
  <2>2. Ran(program, trace[i]) /\ s[i] = EntryOf(program, trace[i])
    BY <1>1, <1>6, <1>12, <2>1, Zenon DEF SpikeInv
  <2>3. trace[i].pc \in Nat /\ trace[i].pc < Len(program)
    BY <2>2 DEF Ran, Known
  <2>4. EntryOf(program, trace[i]).pc = trace[i].pc + BASE_OFFSET
    BY DEF EntryOf
  <2> QED
    BY <2>2, <2>3, <2>4, Zenon
\* the core's records
<1>14. /\ Logged(sv_log, sv_trace, wb_commit_idx, mem_commit_idx)
       /\ wb_commit_idx \in Nat /\ mem_commit_idx \in Nat
       /\ MAX_RETIRE <= wb_commit_idx /\ wb_commit_idx <= mem_commit_idx
       /\ mem_commit_idx <= Len(sv_trace)
       /\ sv_trace \in Seq(Retired) /\ UnknownTail(sv_trace, fault)
  BY <1>1, <1>2, Zenon DEF CommitInv, LogInv, CoreType
<1>15. Len(sv_trace) \in Nat /\ wb_commit_idx <= Len(sv_trace)
  BY <1>14
<1>16. PICK u \in Nat : KnownUpTo(sv_trace, fault, wb_commit_idx, u)
  BY <1>14, <1>15, KnownPrefix, Zenon
<1>17. LogReady(sv_log, sv_trace, wb_commit_idx, mem_commit_idx, u)
  BY <1>14, <1>16, Zenon DEF LogReady, KnownUpTo
<1>18. PICK b, v : b = parse_sv_log(sv_log).records /\ v = trunc_sv(b, REPEAT_THRESHOLD)
  OBVIOUS
<1>19. Recovered(b, sv_trace, u) /\ IsSeq(b)
  BY <1>17, <1>18, ParseSv, SvRecordsSeq, Zenon
<1>20. /\ Len(b) = u
       /\ \A i \in 1 .. u : b[i].pc = sv_trace[i].pc /\ b[i].reg = sv_trace[i].reg
                                                     /\ b[i].mem = sv_trace[i].mem
  BY <1>19, Zenon DEF Recovered
<1>21. /\ Len(v) \in Nat /\ Len(v) <= u
       /\ \A i \in 1 .. Len(v) : v[i] = b[i]
       /\ \A m \in Repeats(b) : Len(v) <= m - REPEAT_THRESHOLD + 1
  <2>1. IsSeq(b) /\ v = trunc_sv(b, REPEAT_THRESHOLD)
    BY <1>18, <1>19, Zenon
  <2>2. /\ Len(b) \in Nat /\ Len(v) \in Nat /\ Len(v) <= Len(b)
        /\ \A i \in 1 .. Len(v) : v[i] = b[i]
        /\ \A m \in Repeats(b) : Len(v) <= m - REPEAT_THRESHOLD + 1
    BY <2>1, SvCut, Zenon
  <2>3. Len(b) = u
    BY <1>20, Zenon
  <2> QED
    BY <2>2, <2>3, Zenon
<1>22. u <= wb_commit_idx /\ (fault # "unknown_pc" => u = wb_commit_idx)
       /\ \A i \in 1 .. u : sv_trace[i].pc # Unknown
  BY <1>16, Zenon DEF KnownUpTo
\* what the fault did to them
<1>23. PICK d \in Nat : FaultAt(d)
  BY <1>1, Zenon DEF FaultInv
<1>24. d \in 1 .. Len(trace) /\ trace[d].pc # Len(program) - 1
  BY <1>23 DEF FaultAt
<1>25. d \in 1 .. f /\ d \in 1 .. n /\ d + 1 \in 1 .. n
  <2>1. d \notin f + 1 .. Len(trace)
    BY <1>8, <1>24, Zenon
  <2> QED
    BY <1>5, <1>9, <1>24, <2>1
<1> DEFINE ok(i) == /\ pc_ok(s[i], v[i], s[1].pc, v[1].pc)
                    /\ reg_ok(s[i], v[i]) /\ mem_ok(s[i], v[i])
<1>26. Len(v) # n \/ \E i \in 1 .. n : ~ok(i)
  <2> SUFFICES ASSUME Len(v) = n PROVE \E i \in 1 .. n : ~ok(i)
    OBVIOUS
  <2>1. n <= u
    BY <1>21
  <2>2. ASSUME NEW i \in 1 .. n
        PROVE  /\ v[i].pc = sv_trace[i].pc /\ v[i].reg = sv_trace[i].reg /\ v[i].mem = sv_trace[i].mem
               /\ i \in 1 .. Len(sv_trace)
    <3>1. i \in 1 .. Len(v) /\ i \in 1 .. u /\ i \in 1 .. Len(sv_trace)
      BY <1>10, <1>14, <1>15, <1>22, <2>1
    <3> QED
      BY <1>20, <1>21, <3>1, Zenon
  <2>3. CASE fault \in InPlace
    <3>1. Possible(trace[d], fault) /\ sv_trace[d] = Faulty(trace[d], fault)
      BY <1>23, <2>3, Zenon DEF FaultAt
    <3>2. PICK r, sp, sv : r = trace[d] /\ sp = s[d] /\ sv = v[d]
      OBVIOUS
    <3>3. /\ Ran(program, r) /\ sp = EntryOf(program, r) /\ Possible(r, fault)
          /\ sv.reg = Faulty(r, fault).reg /\ sv.mem = Faulty(r, fault).mem
      BY <1>13, <1>25, <2>2, <3>1, <3>2, Zenon
    <3>4. ~(reg_ok(sp, sv) /\ mem_ok(sp, sv))
      BY <1>2, <2>3, <3>3, FaultFails, Zenon
    <3> QED
      BY <1>25, <3>2, <3>4, Zenon
  <2>4. CASE fault = "dropped"
    <3>1. \A i \in 1 .. Len(sv_trace) : d <= i /\ i < Len(trace) => sv_trace[i] = trace[i + 1]
      BY <1>23, <2>4, Zenon DEF FaultAt
    <3>2. u = wb_commit_idx
      BY <1>22, <2>4
    <3>3. PICK m : m = f + REPEAT_THRESHOLD - 1
      OBVIOUS
    <3>4. m \in REPEAT_THRESHOLD .. Len(b) /\ m \in m - REPEAT_THRESHOLD + 1 .. m
      BY <1>3, <1>8, <1>14, <1>20, <1>25, <3>2, <3>3
    <3>5. ASSUME NEW j \in m - REPEAT_THRESHOLD + 1 .. m PROVE b[j].pc = Len(program) - 1
      <4>1. PICK k : k = j + 1
        OBVIOUS
      <4>2. /\ j \in 1 .. u /\ j \in 1 .. Len(sv_trace) /\ d <= j /\ j < Len(trace)
            /\ k \in f + 1 .. Len(trace)
        BY <1>3, <1>5, <1>8, <1>14, <1>15, <1>25, <3>2, <3>3, <4>1
      <4>3. sv_trace[j] = trace[k]
        BY <3>1, <4>1, <4>2, Zenon
      <4> QED
        BY <1>8, <1>20, <4>2, <4>3, Zenon
    <3>6. m \in Repeats(b)
      BY <3>4, <3>5, Zenon DEF Repeats
    <3>7. Len(v) <= m - REPEAT_THRESHOLD + 1
      BY <1>21, <3>6, Zenon
    <3> QED
      BY <1>3, <1>9, <3>3, <3>7
  <2>5. CASE fault = "repeated"
    <3>1. sv_trace[d] = trace[d] /\ (d < Len(sv_trace) => sv_trace[d + 1] = trace[d])
          /\ \A i \in 1 .. Len(sv_trace) : i < d => sv_trace[i] = trace[i]
      BY <1>23, <2>5, Zenon DEF FaultAt
    <3>2. PICK e : e = d + 1
      OBVIOUS
    <3>3. e \in 1 .. n /\ e \in 1 .. Len(trace) /\ d < Len(trace) /\ 1 \in 1 .. n
      BY <1>5, <1>10, <1>25, <3>2
    <3>4. d < Len(sv_trace)
      BY <1>15, <2>2, <3>2, <3>3
    <3>5. v[e].pc = trace[d].pc
      BY <2>2, <3>1, <3>2, <3>3, <3>4, Zenon
    <3>6. v[1].pc = 0
      <4>1. trace[1].pc = 0
        BY <1>1, <1>5, Zenon DEF SpikeInv
      <4>2. sv_trace[1] = trace[1]
        <5>1. CASE d = 1
          BY <3>1, <5>1, Zenon
        <5>2. CASE d # 1
          <6>0. 1 < d
            BY <1>25, <5>2
          <6>1. 1 < d /\ 1 \in 1 .. Len(sv_trace)
            BY <2>2, <3>3, <6>0, Zenon
          <6> QED
            BY <3>1, <6>1, Zenon
        <5> QED
          BY <5>1, <5>2
      <4> QED
        BY <2>2, <3>3, <4>1, <4>2, Zenon
    <3>7. s[1].pc = BASE_OFFSET
      <4>1. trace[1].pc = 0
        BY <1>1, <1>5, Zenon DEF SpikeInv
      <4>2. s[1].pc = 0 + BASE_OFFSET
        BY <1>13, <3>3, <4>1, Zenon
      <4> QED
        BY <1>2, <4>2, BaseFacts
    <3>8. trace[e].pc # trace[d].pc
      <4>1. Moves(trace[d].pc, trace[e].pc)
        BY <1>1, <1>24, <3>2, <3>3, Zenon DEF MoveInv
      <4> QED
        BY <1>24, <4>1, Zenon DEF Moves
    <3>9. PICK x, y : x = trace[e].pc /\ y = trace[d].pc
      OBVIOUS
    <3>10. /\ x \in Nat /\ y \in Nat /\ x < Len(program) /\ y < Len(program)
           /\ s[e].pc = x + BASE_OFFSET
      BY <1>13, <1>25, <3>3, <3>9, Zenon
    <3>11. (x + BASE_OFFSET) - BASE_OFFSET = x /\ y - 0 = y /\ x < WORD /\ y < WORD /\ WORD \in Nat
      BY <1>2, <3>10, BaseFacts
    <3>12. x % WORD = x /\ y % WORD = y
      BY <3>10, <3>11, RemainderOf, Zenon
    <3>13. ~pc_ok(s[e], v[e], s[1].pc, v[1].pc)
      BY <3>5, <3>6, <3>7, <3>8, <3>9, <3>10, <3>11, <3>12, Zenon DEF pc_ok
    <3> QED
      BY <3>3, <3>13, Zenon
  <2>6. CASE fault = "unknown_pc"
    <3>1. \A i \in 1 .. Len(sv_trace) : d <= i => sv_trace[i].pc = Unknown
      BY <1>23, <2>6, Zenon DEF FaultAt
    <3>2. d \in 1 .. u /\ d <= d
      BY <1>10, <1>25, <2>1
    <3> QED
      BY <1>22, <1>25, <2>2, <3>1, <3>2, Zenon
  <2>7. fault \in InPlace \cup {"dropped", "repeated", "unknown_pc"}
    BY <1>1 DEF CoreType, FaultKinds, InPlace
  <2> QED
    BY <2>3, <2>4, <2>5, <2>6, <2>7
<1>27. /\ s = trunc_spike(trim_boot_stub(parse_spike_log(spike_log).records, BASE_OFFSET),
                          REPEAT_THRESHOLD)
       /\ v = trunc_sv(parse_sv_log(sv_log).records, REPEAT_THRESHOLD)
  BY <1>4, <1>11, <1>18, Zenon
<1>28. \/ compare(spike_log, sv_log).passed # compare(spike_log, sv_log).total
       \/ compare(spike_log, sv_log).warned
  BY <1>10, <1>12, <1>26, <1>27, DirtyReport, Zenon
<1> QED
  BY <1>28, Zenon DEF Accurate, report

(* compare_accuracy.py never gives a clean report to a core that computes, *)
(* writes, stores, drops or repeats something else than Spike: a record    *)
(* mismatches, or the report warns.  The one exception is a value that is  *)
(* off by the load address itself, which the tolerance of                  *)
(* values_match_allowing_pc_base lets pass.                                *)
THEOREM FaultyCoreReported == FaultDelta # BASE_OFFSET => (Spec => []FaultReported)
<1> SUFFICES ASSUME FaultDelta # BASE_OFFSET PROVE Spec => []FaultReported
  OBVIOUS
<1>1. Init => ReportInv
  BY CommitInvInit, SpikeInvInit, HaltInvInit, FeedInvInit, MoveInvInit, FaultInvInit
     DEF ReportInv, AgreeInv
<1>2. ReportInv /\ [Next]_vars => ReportInv'
  BY ReportInvStep
<1>3. ReportInv => FaultReported
  BY FaultShows
<1> QED
  BY <1>1, <1>2, <1>3, PTL DEF Spec
=============================================================================
