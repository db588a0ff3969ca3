-------------------------- MODULE Induction_lemmas --------------------------
(***************************************************************************)
(* Induction on the naturals in a form whose parameter is a set, and what  *)
(* follows from it about sequences that are joined, read line by line or   *)
(* added up: the parsers of shared/spike, build_elf32 and                  *)
(* estimate_retire_count of gen_program.py work that way.                  *)
(***************************************************************************)
EXTENDS Integers, SequencesExt, WellFoundedInduction, TLAPS

(* Every set of naturals has a least element. *)
LEMMA LeastElement ==
  ASSUME NEW T, T \subseteq Nat, T # {}
  PROVE  \E m \in T : \A y \in T : m <= y
<1> DEFINE R == OpToRel(<, Nat)
<1>1. IsWellFoundedOn(R, Nat)
  BY NatLessThanWellFounded
<1> HIDE DEF R
<1>2. PICK m \in T : \A y \in T : ~(<<y, m>> \in R)
  BY <1>1, WFMin
<1>3. ASSUME NEW y \in T PROVE m <= y
  <2>1. ~(<<y, m>> \in R)
    BY <1>2
  <2>2. y \in Nat /\ m \in Nat
    BY <1>2
  <2>3. ~(y < m)
    BY <2>1, <2>2, Zenon DEF R, OpToRel
  <2> QED
    BY <2>2, <2>3
<1> QED
  BY <1>2, <1>3

(* A set with 0 that is closed under successor holds every natural. *)
LEMMA SetInduction ==
  ASSUME NEW S, 0 \in S, \A n \in Nat : n \in S => n + 1 \in S
  PROVE  Nat \subseteq S
<1> SUFFICES ASSUME NEW k \in Nat, k \notin S PROVE FALSE
  OBVIOUS
<1> DEFINE T == {n \in Nat : n \notin S}
<1>1. T \subseteq Nat /\ T # {}
  OBVIOUS
<1>2. PICK m \in T : \A y \in T : m <= y
  BY <1>1, LeastElement
<1>3. m # 0 /\ m \in Nat /\ m \notin S
  BY <1>2
<1>4. m - 1 \in Nat /\ m - 1 \in S
  BY <1>2, <1>3
<1>5. (m - 1) + 1 \in S /\ (m - 1) + 1 = m
  BY <1>3, <1>4
<1> QED
  BY <1>3, <1>5

-----------------------------------------------------------------------------
(* Joining pieces of one length *)

LEMMA FlattenExists ==
  ASSUME NEW seqs
  PROVE  \A n \in Nat :
           \E f : f = [i \in 1 .. n |-> IF i = 1 THEN seqs[i] ELSE f[i - 1] \o seqs[i]]
<1> DEFINE S == {n \in Nat :
      \E f : f = [i \in 1 .. n |-> IF i = 1 THEN seqs[i] ELSE f[i - 1] \o seqs[i]]}
<1>1. 0 \in S
  <2> DEFINE f == [i \in 1 .. 0 |-> seqs[i]]
  <2>1. f = [i \in 1 .. 0 |-> IF i = 1 THEN seqs[i] ELSE f[i - 1] \o seqs[i]]
    OBVIOUS
  <2> QED
    BY <2>1
<1>2. ASSUME NEW n \in Nat, n \in S PROVE n + 1 \in S
  <2>1. PICK f : f = [i \in 1 .. n |-> IF i = 1 THEN seqs[i] ELSE f[i - 1] \o seqs[i]]
    BY <1>2
  <2> DEFINE h == [i \in 1 .. n + 1 |->
                     IF i = n + 1 THEN IF i = 1 THEN seqs[i] ELSE f[n] \o seqs[i]
                     ELSE f[i]]
  <2>2. ASSUME NEW i \in 1 .. n + 1
        PROVE  h[i] = IF i = 1 THEN seqs[i] ELSE h[i - 1] \o seqs[i]
    <3>1. CASE i = n + 1
      <4>1. h[i] = IF i = 1 THEN seqs[i] ELSE f[n] \o seqs[i]
        BY <3>1
      <4>2. i # 1 => h[i - 1] = f[n]
        BY <3>1
      <4> QED
        BY <4>1, <4>2
    <3>2. CASE i # n + 1
      <4>1. i \in 1 .. n /\ h[i] = f[i]
        BY <3>2
      <4>2. f[i] = IF i = 1 THEN seqs[i] ELSE f[i - 1] \o seqs[i]
        BY <4>1, <2>1
      <4>3. i # 1 => h[i - 1] = f[i - 1]
        BY <4>1
      <4> QED
        BY <4>1, <4>2, <4>3
    <3> QED
      BY <3>1, <3>2
  <2>3. h = [i \in 1 .. n + 1 |-> IF i = 1 THEN seqs[i] ELSE h[i - 1] \o seqs[i]]
    BY <2>2
  <2>4. n + 1 \in Nat
    OBVIOUS
  <2> HIDE DEF h
  <2> QED
    BY <2>3, <2>4, Zenon
<1> HIDE DEF S
<1>3. Nat \subseteq S
  BY <1>1, <1>2, SetInduction
<1> QED
  BY <1>3 DEF S

Flattened(f, seqs) ==
  /\ f[1] = seqs[1] /\ FlattenSeq(seqs) = f[Len(seqs)]
  /\ \A n \in Nat \ {0} : n < Len(seqs) => f[n + 1] = f[n] \o seqs[n + 1]

LEMMA FlattenUnfold ==
  ASSUME NEW seqs, Len(seqs) \in Nat, Len(seqs) # 0
  PROVE  \E f : Flattened(f, seqs)
<1>1. \E f : f = [i \in 1 .. Len(seqs) |-> IF i = 1 THEN seqs[i] ELSE f[i - 1] \o seqs[i]]
  BY FlattenExists
<1> DEFINE f == CHOOSE f : f = [i \in 1 .. Len(seqs) |->
                                  IF i = 1 THEN seqs[i] ELSE f[i - 1] \o seqs[i]]
<1>2. f = [i \in 1 .. Len(seqs) |-> IF i = 1 THEN seqs[i] ELSE f[i - 1] \o seqs[i]]
  BY <1>1, Zenon
<1>3. FlattenSeq(seqs) = f[Len(seqs)]
  BY Zenon DEF FlattenSeq
<1> HIDE DEF f
<1> DEFINE g == [i \in 1 .. Len(seqs) |-> IF i = 1 THEN seqs[i] ELSE f[i - 1] \o seqs[i]]
<1>4. f = g
  BY <1>2, Zenon
<1>5. ASSUME NEW i \in 1 .. Len(seqs)
      PROVE  (i = 1 => g[i] = seqs[i]) /\ (i # 1 => g[i] = f[i - 1] \o seqs[i])
  BY Zenon
<1> HIDE DEF g
<1>6. f[1] = seqs[1]
  <2>1. 1 \in 1 .. Len(seqs)
    OBVIOUS
  <2> QED
    BY <1>4, <1>5, <2>1, Zenon
<1>7. ASSUME NEW n \in Nat \ {0}, n < Len(seqs)
      PROVE  f[n + 1] = f[n] \o seqs[n + 1]
  <2>2. PICK m : m = n + 1
    OBVIOUS
  <2>3. m \in 1 .. Len(seqs) /\ m # 1 /\ m - 1 = n
    BY <1>7, <2>2, SMT
  <2>4. g[m] = f[m - 1] \o seqs[m]
    BY <1>5, <2>3, Zenon
  <2> QED
    BY <1>4, <2>2, <2>3, <2>4, Zenon
<1> QED
  BY <1>3, <1>6, <1>7, Zenon DEF Flattened

Concatenated(join, s, t, B) ==
  /\ join \in Seq(B) /\ Len(join) = Len(s) + Len(t)
  /\ \A k \in 1 .. Len(s) : join[k] = s[k]
  /\ \A k \in 1 .. Len(t) : join[Len(s) + k] = t[k]

LEMMA Concat ==
  ASSUME NEW B, NEW s \in Seq(B), NEW t \in Seq(B)
  PROVE  Concatenated(s \o t, s, t, B)
BY DEF Concatenated

(* A product with one factor larger. *)
LEMMA ProductStep ==
  ASSUME NEW s \in Nat, NEW a \in Nat, NEW b \in Nat, a < b
  PROVE  s * a + s <= s * b
<1>1. PICK d \in Nat : b = a + 1 + d
  <2> b - a - 1 \in Nat /\ b = a + 1 + (b - a - 1)
    OBVIOUS
  <2> QED
    OBVIOUS
<1>2. s * b = s * a + s + s * d
  BY <1>1
<1>3. s * d \in Nat
  OBVIOUS
<1>4. s * a \in Nat
  OBVIOUS
<1> QED
  BY <1>2, <1>3, <1>4

LEMMA PieceIndex ==
  ASSUME NEW s \in Nat, NEW a \in Nat, NEW b \in Nat, a < b, NEW k \in 1 .. s
  PROVE  s * a + k \in 1 .. s * b
<1>1. s * a + s <= s * b
  BY ProductStep
<1>2. s * a \in Nat /\ s * b \in Nat
  OBVIOUS
<1>3. ASSUME NEW x \in Nat, NEW y \in Nat, x + s <= y PROVE x + k \in 1 .. y
  BY <1>3
<1> QED
  BY <1>1, <1>2, <1>3, Zenon

Joined(join, B, seqs, size, n) ==
  /\ join \in Seq(B) /\ Len(join) = size * n
  /\ \A j \in 1 .. n, k \in 1 .. size : join[size * (j - 1) + k] = seqs[j][k]

LEMMA JoinOne ==
  ASSUME NEW B, NEW seqs, NEW size \in Nat, NEW n \in Nat, NEW s, NEW t \in Seq(B), NEW u,
         Joined(s, B, seqs, size, n), Concatenated(u, s, t, B),
         \A k \in 1 .. size : t[k] = seqs[n + 1][k], Len(t) = size
  PROVE  Joined(u, B, seqs, size, n + 1)
<1>1. /\ s \in Seq(B) /\ Len(s) = size * n
      /\ \A j \in 1 .. n, k \in 1 .. size : s[size * (j - 1) + k] = seqs[j][k]
  BY DEF Joined
<1>2. /\ u \in Seq(B) /\ Len(u) = Len(s) + Len(t)
      /\ \A k \in 1 .. Len(s) : u[k] = s[k]
      /\ \A k \in 1 .. Len(t) : u[Len(s) + k] = t[k]
  BY DEF Concatenated
<1>3. size * (n + 1) = size * n + size
  OBVIOUS
<1>4. ASSUME NEW j \in 1 .. n + 1, NEW k \in 1 .. size
      PROVE  u[size * (j - 1) + k] = seqs[j][k]
  <2>1. CASE j = n + 1
    <3>1. j - 1 = n
      BY <2>1
    <3>2. u[size * n + k] = t[k]
      BY <1>1, <1>2
    <3> QED
      BY <2>1, <3>1, <3>2
  <2>2. CASE j # n + 1
    <3>1. j \in 1 .. n /\ j - 1 \in Nat /\ j - 1 < n
      BY <2>2
    <3>2. size * (j - 1) + k \in 1 .. size * n
      BY <3>1, PieceIndex
    <3>3. u[size * (j - 1) + k] = s[size * (j - 1) + k]
      BY <1>1, <1>2, <3>2
    <3> QED
      BY <1>1, <3>1, <3>3
  <2> QED
    BY <2>1, <2>2
<1>5. Len(u) = size * (n + 1)
  BY <1>1, <1>2, <1>3
<1> QED
  BY <1>2, <1>4, <1>5 DEF Joined

(* Piece j of a join of pieces of one size starts behind j - 1 pieces. *)
LEMMA FlattenPieces ==
  ASSUME NEW B, NEW seqs, Len(seqs) \in Nat, NEW size \in Nat,
         \A j \in 1 .. Len(seqs) : seqs[j] \in Seq(B) /\ Len(seqs[j]) = size,
         Len(seqs) = 0 => seqs = <<>>
  PROVE  Joined(FlattenSeq(seqs), B, seqs, size, Len(seqs))
<1>1. CASE Len(seqs) = 0
  <2>1. FlattenSeq(seqs) = <<>>
    BY <1>1, Zenon DEF FlattenSeq
  <2>2. size * 0 = 0 /\ <<>> \in Seq(B) /\ Len(<<>>) = 0 /\ 1 .. 0 = {}
    OBVIOUS
  <2> QED
    BY <1>1, <2>1, <2>2, Zenon DEF Joined
<1>2. CASE Len(seqs) # 0
  <2>1. PICK f : Flattened(f, seqs)
    BY <1>2, FlattenUnfold, Zenon
  <2> DEFINE S == {n \in Nat : 0 < n /\ n <= Len(seqs) => Joined(f[n], B, seqs, size, n)}
  <2>2. 0 \in S
    OBVIOUS
  <2>3. ASSUME NEW n \in Nat, n \in S, n + 1 <= Len(seqs)
        PROVE  Joined(f[n + 1], B, seqs, size, n + 1)
    <3>1. seqs[n + 1] \in Seq(B) /\ Len(seqs[n + 1]) = size
      BY <2>3
    <3>2. CASE n = 0
      <4>1. f[1] = seqs[1] /\ n + 1 = 1
        BY <3>2, <2>1 DEF Flattened
      <4>2. size * (1 - 1) = 0 /\ size * 1 = size
        OBVIOUS
      <4>3. ASSUME NEW j \in 1 .. 1, NEW k \in 1 .. size
            PROVE  f[1][size * (j - 1) + k] = seqs[j][k]
        BY <4>1, <4>2
      <4>4. Joined(f[1], B, seqs, size, 1)
        BY <3>1, <4>1, <4>2, <4>3 DEF Joined
      <4> QED
        BY <4>1, <4>4, Zenon
    <3>3. CASE n # 0
      <4>1. n \in Nat \ {0} /\ n < Len(seqs) /\ Joined(f[n], B, seqs, size, n)
        BY <3>3, <2>3
      <4>2. f[n + 1] = f[n] \o seqs[n + 1]
        BY <4>1, <2>1, Zenon DEF Flattened
      <4>3. f[n] \in Seq(B)
        BY <4>1 DEF Joined
      <4>4. Concatenated(f[n + 1], f[n], seqs[n + 1], B)
        BY <4>2, <4>3, <3>1, Concat, Zenon
      <4> QED
        BY <4>1, <4>4, <3>1, JoinOne, Zenon
    <3> QED
      BY <3>2, <3>3
  <2>4. Nat \subseteq S
    <3>1. ASSUME NEW n \in Nat, n \in S PROVE n + 1 \in S
      BY <2>3, <3>1
    <3> HIDE DEF S
    <3> QED
      BY <2>2, <3>1, SetInduction
  <2>5. Joined(f[Len(seqs)], B, seqs, size, Len(seqs))
    BY <1>2, <2>4
  <2> QED
    BY <2>1, <2>5, Zenon DEF Flattened
<1> QED
  BY <1>1, <1>2
=============================================================================
