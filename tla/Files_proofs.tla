---------------------------- MODULE Files_proofs ----------------------------
(***************************************************************************)
(* The encoders of shared/spike/gen_program.py against the decoders of the *)
(* core and of the C++ simulator, for every register, function code and    *)
(* immediate that fits its field; and the files build_elf32 and main       *)
(* write, against what the three simulators load from them.                *)
(***************************************************************************)
EXTENDS ProgramFiles, Induction_lemmas

-----------------------------------------------------------------------------
(* Bits and fields *)

(* Bit b of the two's complement of v. *)
Bit(v, b) == (v \div 2^b) % 2 = 1

LEMMA SliceMember ==
  ASSUME NEW S, NEW lo \in Int, NEW hi \in Int, NEW at \in Int, NEW b \in Int
  PROVE  b \in slice(S, lo, hi, at) <=>
           b - at + lo \in S /\ lo <= b - at + lo /\ b - at + lo <= hi
<1>1. ASSUME b \in slice(S, lo, hi, at)
      PROVE  b - at + lo \in S /\ lo <= b - at + lo /\ b - at + lo <= hi
  <2>1. PICK c \in S \cap (lo .. hi) : b = c - lo + at
    BY <1>1 DEF slice
  <2>2. c \in S /\ c \in Int /\ lo <= c /\ c <= hi /\ b - at + lo = c
    BY <2>1
  <2> QED
    BY <2>2
<1>2. ASSUME b - at + lo \in S, lo <= b - at + lo, b - at + lo <= hi
      PROVE  b \in slice(S, lo, hi, at)
  <2>1. PICK c : c = b - at + lo
    OBVIOUS
  <2>2. c \in S \cap (lo .. hi) /\ b = c - lo + at
    BY <1>2, <2>1
  <2> QED
    BY <2>2 DEF slice
<1> QED
  BY <1>1, <1>2

LEMMA SliceInts ==
  ASSUME NEW S, NEW lo \in Int, NEW hi \in Int, NEW at \in Int
  PROVE  slice(S, lo, hi, at) \subseteq Int
BY DEF slice

LEMMA LowBitsMember ==
  ASSUME NEW v \in Int, NEW w \in Nat, NEW b
  PROVE  b \in low_bits(v, w) <=> b \in 0 .. w - 1 /\ Bit(v, b)
BY DEF low_bits, Bit

LEMMA LowBitsMembers ==
  ASSUME NEW v \in Int, NEW b
  PROVE  /\ b \in low_bits(v, 3) <=> b \in 0 .. 3 - 1 /\ Bit(v, b)
         /\ b \in low_bits(v, 5) <=> b \in 0 .. 5 - 1 /\ Bit(v, b)
         /\ b \in low_bits(v, 7) <=> b \in 0 .. 7 - 1 /\ Bit(v, b)
BY LowBitsMember, Zenon

LEMMA FieldMember ==
  ASSUME NEW v \in Int, NEW w \in Nat, NEW at \in Nat, NEW b \in Int
  PROVE  b \in field(v, w, at) <=> at <= b /\ b < at + w /\ Bit(v, b - at)
<1>1. b \in field(v, w, at) <=>
        b - at + 0 \in low_bits(v, w) /\ 0 <= b - at + 0 /\ b - at + 0 <= w - 1
  BY SliceMember DEF field
<1>2. b - at + 0 = b - at
  OBVIOUS
<1>3. b - at \in low_bits(v, w) <=> b - at \in 0 .. w - 1 /\ Bit(v, b - at)
  BY LowBitsMember
<1>4. b - at \in 0 .. w - 1 <=> at <= b /\ b < at + w
  OBVIOUS
<1> QED
  BY <1>1, <1>2, <1>3, <1>4

LEMMA FieldInts ==
  ASSUME NEW v \in Int, NEW w \in Nat, NEW at \in Nat
  PROVE  field(v, w, at) \subseteq Int
<1>1. 0 \in Int /\ w - 1 \in Int /\ at \in Int
  OBVIOUS
<1> QED
  BY <1>1, SliceInts DEF field

LEMMA WordSlice ==
  ASSUME NEW S, NEW lo \in Nat, NEW hi \in Nat, NEW at \in Nat, NEW b \in Int
  PROVE  b \in slice(S, lo, hi, at) <=>
           at <= b /\ b <= at + hi - lo /\ b - at + lo \in S
<1>1. b \in slice(S, lo, hi, at) <=>
        b - at + lo \in S /\ lo <= b - at + lo /\ b - at + lo <= hi
  BY SliceMember
<1>2. lo <= b - at + lo /\ b - at + lo <= hi <=> at <= b /\ b <= at + hi - lo
  OBVIOUS
<1> QED
  BY <1>1, <1>2

LEMMA WordSliceInts ==
  ASSUME NEW S, NEW lo \in Nat, NEW hi \in Nat, NEW at \in Nat
  PROVE  slice(S, lo, hi, at) \subseteq Int
BY SliceInts

(* A part of an immediate. *)
LEMMA PartMember ==
  ASSUME NEW v \in Int, NEW w \in Nat, NEW lo \in Nat, NEW hi \in Nat, hi < w,
         NEW at \in Nat, NEW b \in Int
  PROVE  b \in slice(low_bits(v, w), lo, hi, at) <=>
           at <= b /\ b <= at + hi - lo /\ Bit(v, b - at + lo)
<1>1. b \in slice(low_bits(v, w), lo, hi, at) <=>
        /\ b - at + lo \in low_bits(v, w)
        /\ lo <= b - at + lo /\ b - at + lo <= hi
  BY SliceMember
<1>2. b - at + lo \in low_bits(v, w) <=> b - at + lo \in 0 .. w - 1 /\ Bit(v, b - at + lo)
  BY LowBitsMember
<1>3. /\ lo <= b - at + lo /\ b - at + lo <= hi <=> at <= b /\ b <= at + hi - lo
      /\ lo <= b - at + lo /\ b - at + lo <= hi => b - at + lo \in 0 .. w - 1
  OBVIOUS
<1> QED
  BY <1>1, <1>2, <1>3

-----------------------------------------------------------------------------
(* Numbers of a limited range *)

(* A small number has no high bits. *)
LEMMA HighBitsClear ==
  /\ \A v \in 0 .. 7 : \A b \in 3 .. 4 : ~Bit(v, b)
  /\ \A v \in 0 .. 31 : \A b \in 5 .. 6 : ~Bit(v, b)
  /\ \A v \in 0 .. 127 : \A b \in 7 .. 29 : ~Bit(v, b)
<1>1. ASSUME NEW v \in 0 .. 7, NEW b \in 3 .. 4 PROVE ~Bit(v, b)
  <2>1. /\ ~Bit(v, 3) /\ ~Bit(v, 4)
    BY SMT DEF Bit
  <2>2. \/ b = 3 \/ b = 4
    BY SMT
  <2> QED
    BY <2>1, <2>2, SMT
<1>2. ASSUME NEW v \in 0 .. 31, NEW b \in 5 .. 6 PROVE ~Bit(v, b)
  <2>1. /\ ~Bit(v, 5) /\ ~Bit(v, 6)
    BY SMT DEF Bit
  <2>2. \/ b = 5 \/ b = 6
    BY SMT
  <2> QED
    BY <2>1, <2>2, SMT
<1>3. ASSUME NEW v \in 0 .. 127, NEW b \in 7 .. 29 PROVE ~Bit(v, b)
  <2>1. /\ ~Bit(v, 7) /\ ~Bit(v, 8) /\ ~Bit(v, 9) /\ ~Bit(v, 10) /\ ~Bit(v, 11)
        /\ ~Bit(v, 12) /\ ~Bit(v, 13) /\ ~Bit(v, 14) /\ ~Bit(v, 15) /\ ~Bit(v, 16)
        /\ ~Bit(v, 17) /\ ~Bit(v, 18) /\ ~Bit(v, 19) /\ ~Bit(v, 20) /\ ~Bit(v, 21)
        /\ ~Bit(v, 22) /\ ~Bit(v, 23) /\ ~Bit(v, 24) /\ ~Bit(v, 25) /\ ~Bit(v, 26)
        /\ ~Bit(v, 27) /\ ~Bit(v, 28) /\ ~Bit(v, 29)
    BY SMT DEF Bit
  <2>2. \/ b = 7 \/ b = 8 \/ b = 9 \/ b = 10 \/ b = 11 \/ b = 12 \/ b = 13 \/ b = 14
        \/ b = 15 \/ b = 16 \/ b = 17 \/ b = 18 \/ b = 19 \/ b = 20 \/ b = 21
        \/ b = 22 \/ b = 23 \/ b = 24 \/ b = 25 \/ b = 26 \/ b = 27 \/ b = 28
        \/ b = 29
    BY SMT
  <2> QED
    BY <2>1, <2>2, SMT
<1> QED
  BY <1>1, <1>2, <1>3

(* The bits from the sign bit up are copies of it. *)
LEMMA SignBits ==
  /\ \A v \in Int : Signed(v, 2048) => \A b \in 11 .. 11 : Bit(v, b) <=> v < 0
  /\ \A v \in Int : Signed(v, 4096) => \A b \in 12 .. 19 : Bit(v, b) <=> v < 0
  /\ \A v \in Int : Signed(v, 1048576) => \A b \in 20 .. 29 : Bit(v, b) <=> v < 0
<1>1. ASSUME NEW v \in Int, Signed(v, 2048), NEW b \in 11 .. 11
      PROVE  Bit(v, b) <=> v < 0
  <2>1. /\ (Bit(v, 11) <=> v < 0)
    BY <1>1, SMT DEF Bit, Signed
  <2>2. \/ b = 11
    BY SMT
  <2> QED
    BY <2>1, <2>2, SMT
<1>2. ASSUME NEW v \in Int, Signed(v, 4096), NEW b \in 12 .. 19
      PROVE  Bit(v, b) <=> v < 0
  <2>1. /\ (Bit(v, 12) <=> v < 0) /\ (Bit(v, 13) <=> v < 0)
        /\ (Bit(v, 14) <=> v < 0) /\ (Bit(v, 15) <=> v < 0)
        /\ (Bit(v, 16) <=> v < 0) /\ (Bit(v, 17) <=> v < 0)
        /\ (Bit(v, 18) <=> v < 0) /\ (Bit(v, 19) <=> v < 0)
    BY <1>2, SMT DEF Bit, Signed
  <2>2. \/ b = 12 \/ b = 13 \/ b = 14 \/ b = 15 \/ b = 16 \/ b = 17 \/ b = 18
        \/ b = 19
    BY SMT
  <2> QED
    BY <2>1, <2>2, SMT
<1>3. ASSUME NEW v \in Int, Signed(v, 1048576), NEW b \in 20 .. 29
      PROVE  Bit(v, b) <=> v < 0
  <2>1. /\ (Bit(v, 20) <=> v < 0) /\ (Bit(v, 21) <=> v < 0)
        /\ (Bit(v, 22) <=> v < 0) /\ (Bit(v, 23) <=> v < 0)
        /\ (Bit(v, 24) <=> v < 0) /\ (Bit(v, 25) <=> v < 0)
        /\ (Bit(v, 26) <=> v < 0) /\ (Bit(v, 27) <=> v < 0)
        /\ (Bit(v, 28) <=> v < 0) /\ (Bit(v, 29) <=> v < 0)
    BY <1>3, SMT DEF Bit, Signed
  <2>2. \/ b = 20 \/ b = 21 \/ b = 22 \/ b = 23 \/ b = 24 \/ b = 25 \/ b = 26
        \/ b = 27 \/ b = 28 \/ b = 29
    BY SMT
  <2> QED
    BY <2>1, <2>2, SMT
<1> QED
  BY <1>1, <1>2, <1>3, SMT

(* The opcodes differ in bits 2 to 6. *)
LEMMA OpcodeBits ==
  /\ 4 \in bits32(19) /\ 2 \notin bits32(19)
  /\ 4 \notin bits32(3) /\ 5 \notin bits32(3)
  /\ 5 \in bits32(103) /\ 4 \notin bits32(103) /\ 2 \in bits32(103) /\ 3 \notin bits32(103)
  /\ 5 \in bits32(35) /\ 4 \notin bits32(35) /\ 2 \notin bits32(35) /\ 6 \notin bits32(35)
  /\ 5 \in bits32(99) /\ 4 \notin bits32(99) /\ 2 \notin bits32(99) /\ 6 \in bits32(99)
  /\ 5 \in bits32(111) /\ 4 \notin bits32(111) /\ 2 \in bits32(111) /\ 3 \in bits32(111)
  /\ 4 \in bits32(55) /\ 2 \in bits32(55)
  /\ 4 \in bits32(23) /\ 2 \in bits32(23)
BY SMT DEF bits32, low_bits

LEMMA Bits32Member ==
  ASSUME NEW v \in Int, NEW b
  PROVE  b \in bits32(v) <=> \/ b \in 0 .. 29 /\ Bit(v, b)
                             \/ v < 0 /\ (b = 30 \/ b = 31)
<1>1. b \in low_bits(v, 30) <=> b \in 0 .. 30 - 1 /\ Bit(v, b)
  BY LowBitsMember
<1>2. b \in 0 .. 30 - 1 <=> b \in 0 .. 29
  BY SMT
<1> QED
  BY <1>1, <1>2, SMT DEF bits32

(* A number that fits its field is what the field holds. *)
LEMMA SmallBits ==
  /\ \A v \in 0 .. 7 : low_bits(v, 3) = bits32(v)
  /\ \A v \in 0 .. 31 : low_bits(v, 5) = bits32(v)
  /\ \A v \in 0 .. 127 : low_bits(v, 7) = bits32(v)
<1>1. ASSUME NEW v \in 0 .. 127, NEW b
      PROVE  /\ b \in bits32(v) <=> b \in 0 .. 6 /\ Bit(v, b)
             /\ b \in low_bits(v, 3) <=> b \in 0 .. 2 /\ Bit(v, b)
             /\ b \in low_bits(v, 5) <=> b \in 0 .. 4 /\ Bit(v, b)
             /\ b \in low_bits(v, 7) <=> b \in 0 .. 6 /\ Bit(v, b)
  <2>1. /\ b \in low_bits(v, 3) <=> b \in 0 .. 3 - 1 /\ Bit(v, b)
        /\ b \in low_bits(v, 5) <=> b \in 0 .. 5 - 1 /\ Bit(v, b)
        /\ b \in low_bits(v, 7) <=> b \in 0 .. 7 - 1 /\ Bit(v, b)
    BY LowBitsMembers, SMT
  <2>2. v \in Int /\ ~(v < 0)
    BY SMT
  <2>3. b \in bits32(v) <=> b \in 0 .. 29 /\ Bit(v, b)
    BY <2>2, Bits32Member
  <2>4. b \in 0 .. 29 /\ Bit(v, b) => b \in 0 .. 6
    <3>1. b \in 0 .. 29 => b \in 0 .. 6 \/ b \in 7 .. 29
      BY SMT
    <3> QED
      BY <3>1, HighBitsClear
  <2> QED
    BY <2>1, <2>3, <2>4, SMT
<1>2. ASSUME NEW v \in 0 .. 31, NEW b
      PROVE  b \in 0 .. 6 /\ Bit(v, b) => b \in 0 .. 4
  <2>1. b \in 0 .. 6 => b \in 0 .. 4 \/ b \in 5 .. 6
    BY SMT
  <2> QED
    BY <2>1, HighBitsClear
<1>3. ASSUME NEW v \in 0 .. 7, NEW b
      PROVE  b \in 0 .. 4 /\ Bit(v, b) => b \in 0 .. 2
  <2>1. b \in 0 .. 4 => b \in 0 .. 2 \/ b \in 3 .. 4
    BY SMT
  <2> QED
    BY <2>1, HighBitsClear
<1>4. ASSUME NEW v \in 0 .. 7 PROVE low_bits(v, 3) = bits32(v)
  <2>1. v \in 0 .. 31 /\ v \in 0 .. 127
    BY SMT
  <2>2. \A b : b \in low_bits(v, 3) <=> b \in bits32(v)
    BY <2>1, <1>1, <1>2, <1>3, SMT
  <2> QED
    BY <2>2
<1>5. ASSUME NEW v \in 0 .. 31 PROVE low_bits(v, 5) = bits32(v)
  <2>1. v \in 0 .. 127
    BY SMT
  <2>2. \A b : b \in low_bits(v, 5) <=> b \in bits32(v)
    BY <2>1, <1>1, <1>2, SMT
  <2> QED
    BY <2>2
<1>6. ASSUME NEW v \in 0 .. 127 PROVE low_bits(v, 7) = bits32(v)
  BY <1>1
<1> QED
  BY <1>4, <1>5, <1>6

(* An immediate of w bits: its own bits, then copies of its sign. *)
Extended(v, w) ==
  /\ Bit(v, w - 1) <=> v < 0
  /\ \A b : b \in bits32(v) <=> \/ b \in 0 .. w - 2 /\ Bit(v, b)
                                \/ b \in w - 1 .. 31 /\ v < 0

LEMMA SignedBits ==
  ASSUME NEW v \in Int
  PROVE  /\ Signed(v, 2048) => Extended(v, 12)
         /\ Signed(v, 4096) => Extended(v, 13)
         /\ Signed(v, 1048576) => Extended(v, 21)
<1>1. \A b : b \in bits32(v) <=> \/ b \in 0 .. 29 /\ Bit(v, b)
                                 \/ v < 0 /\ (b = 30 \/ b = 31)
  BY Bits32Member
<1>2. Signed(v, 2048) => Signed(v, 4096)
  BY SMT DEF Signed
<1>3. Signed(v, 4096) => Signed(v, 1048576)
  BY SMT DEF Signed
<1>4. ASSUME Signed(v, 1048576) PROVE Extended(v, 21)
  <2>1. \A b \in 20 .. 29 : Bit(v, b) <=> v < 0
    BY <1>4, SignBits
  <2> QED
    BY <1>1, <2>1, SMT DEF Extended
<1>5. ASSUME Signed(v, 4096) PROVE Extended(v, 13)
  <2>1. /\ \A b \in 12 .. 19 : Bit(v, b) <=> v < 0
        /\ \A b \in 20 .. 29 : Bit(v, b) <=> v < 0
    BY <1>3, <1>5, SignBits
  <2> QED
    BY <1>1, <2>1, SMT DEF Extended
<1>6. ASSUME Signed(v, 2048) PROVE Extended(v, 12)
  <2>1. /\ \A b \in 11 .. 11 : Bit(v, b) <=> v < 0
        /\ \A b \in 12 .. 19 : Bit(v, b) <=> v < 0
        /\ \A b \in 20 .. 29 : Bit(v, b) <=> v < 0
    BY <1>2, <1>3, <1>6, SignBits
  <2> QED
    BY <1>1, <2>1, SMT DEF Extended
<1> QED
  BY <1>4, <1>5, <1>6

(* Bit 0 of an even number. *)
LEMMA EvenBit ==
  ASSUME NEW v \in Int, v % 2 = 0
  PROVE  ~Bit(v, 0)
BY SMT DEF Bit

-----------------------------------------------------------------------------
(* What each format puts where *)

FieldTypes(i) ==
  /\ i.rd \in Int /\ i.rs1 \in Int /\ i.rs2 \in Int
  /\ i.funct3 \in Int /\ i.funct7 \in Int /\ i.opcode \in Int /\ i.imm \in Int

(* The word w holds bits lo .. hi of v from its bit at on. *)
Holds(w, v, lo, hi, at) == \A b \in lo .. hi : b - lo + at \in w <=> Bit(v, b)

LEMMA EncodesR ==
  ASSUME NEW i, FieldTypes(i)
  PROVE  /\ Holds(enc_r(i), i.funct7, 0, 6, 25)
         /\ Holds(enc_r(i), i.rs2, 0, 4, 20)
         /\ Holds(enc_r(i), i.rs1, 0, 4, 15)
         /\ Holds(enc_r(i), i.funct3, 0, 2, 12)
         /\ Holds(enc_r(i), i.rd, 0, 4, 7)
         /\ Holds(enc_r(i), i.opcode, 0, 6, 0)
<1>1. ASSUME NEW c \in Int
      PROVE  /\ c \in field(i.funct7, 7, 25) <=> 25 <= c /\ c < 25 + 7 /\ Bit(i.funct7, c - 25)
             /\ c \in field(i.rs2, 5, 20) <=> 20 <= c /\ c < 20 + 5 /\ Bit(i.rs2, c - 20)
             /\ c \in field(i.rs1, 5, 15) <=> 15 <= c /\ c < 15 + 5 /\ Bit(i.rs1, c - 15)
             /\ c \in field(i.funct3, 3, 12) <=> 12 <= c /\ c < 12 + 3 /\ Bit(i.funct3, c - 12)
             /\ c \in field(i.rd, 5, 7) <=> 7 <= c /\ c < 7 + 5 /\ Bit(i.rd, c - 7)
             /\ c \in field(i.opcode, 7, 0) <=> 0 <= c /\ c < 0 + 7 /\ Bit(i.opcode, c - 0)
  BY FieldMember, Zenon DEF FieldTypes
<1>2. ASSUME NEW c \in Int
      PROVE  c \in enc_r(i) <=>
               \/ c \in field(i.funct7, 7, 25)
               \/ c \in field(i.rs2, 5, 20)
               \/ c \in field(i.rs1, 5, 15)
               \/ c \in field(i.funct3, 3, 12)
               \/ c \in field(i.rd, 5, 7)
               \/ c \in field(i.opcode, 7, 0)
  BY SMT DEF enc_r
<1> QED
  BY <1>1, <1>2, SMT DEF Holds

LEMMA EncodesI ==
  ASSUME NEW i, FieldTypes(i)
  PROVE  /\ Holds(enc_i(i), i.imm, 0, 11, 20)
         /\ Holds(enc_i(i), i.rs1, 0, 4, 15)
         /\ Holds(enc_i(i), i.funct3, 0, 2, 12)
         /\ Holds(enc_i(i), i.rd, 0, 4, 7)
         /\ Holds(enc_i(i), i.opcode, 0, 6, 0)
<1>1. ASSUME NEW c \in Int
      PROVE  /\ c \in field(i.imm, 12, 20) <=> 20 <= c /\ c < 20 + 12 /\ Bit(i.imm, c - 20)
             /\ c \in field(i.rs1, 5, 15) <=> 15 <= c /\ c < 15 + 5 /\ Bit(i.rs1, c - 15)
             /\ c \in field(i.funct3, 3, 12) <=> 12 <= c /\ c < 12 + 3 /\ Bit(i.funct3, c - 12)
             /\ c \in field(i.rd, 5, 7) <=> 7 <= c /\ c < 7 + 5 /\ Bit(i.rd, c - 7)
             /\ c \in field(i.opcode, 7, 0) <=> 0 <= c /\ c < 0 + 7 /\ Bit(i.opcode, c - 0)
  BY FieldMember, Zenon DEF FieldTypes
<1>2. ASSUME NEW c \in Int
      PROVE  c \in enc_i(i) <=>
               \/ c \in field(i.imm, 12, 20)
               \/ c \in field(i.rs1, 5, 15)
               \/ c \in field(i.funct3, 3, 12)
               \/ c \in field(i.rd, 5, 7)
               \/ c \in field(i.opcode, 7, 0)
  BY SMT DEF enc_i
<1> QED
  BY <1>1, <1>2, SMT DEF Holds

LEMMA EncodesShift ==
  ASSUME NEW i, FieldTypes(i)
  PROVE  /\ Holds(enc_shift(i), i.funct7, 0, 6, 25)
         /\ Holds(enc_shift(i), i.imm, 0, 4, 20)
         /\ Holds(enc_shift(i), i.rs1, 0, 4, 15)
         /\ Holds(enc_shift(i), i.funct3, 0, 2, 12)
         /\ Holds(enc_shift(i), i.rd, 0, 4, 7)
         /\ Holds(enc_shift(i), i.opcode, 0, 6, 0)
<1>1. ASSUME NEW c \in Int
      PROVE  /\ c \in field(i.funct7, 7, 25) <=> 25 <= c /\ c < 25 + 7 /\ Bit(i.funct7, c - 25)
             /\ c \in field(i.imm, 5, 20) <=> 20 <= c /\ c < 20 + 5 /\ Bit(i.imm, c - 20)
             /\ c \in field(i.rs1, 5, 15) <=> 15 <= c /\ c < 15 + 5 /\ Bit(i.rs1, c - 15)
             /\ c \in field(i.funct3, 3, 12) <=> 12 <= c /\ c < 12 + 3 /\ Bit(i.funct3, c - 12)
             /\ c \in field(i.rd, 5, 7) <=> 7 <= c /\ c < 7 + 5 /\ Bit(i.rd, c - 7)
             /\ c \in field(i.opcode, 7, 0) <=> 0 <= c /\ c < 0 + 7 /\ Bit(i.opcode, c - 0)
  BY FieldMember, Zenon DEF FieldTypes
<1>2. ASSUME NEW c \in Int
      PROVE  c \in enc_shift(i) <=>
               \/ c \in field(i.funct7, 7, 25)
               \/ c \in field(i.imm, 5, 20)
               \/ c \in field(i.rs1, 5, 15)
               \/ c \in field(i.funct3, 3, 12)
               \/ c \in field(i.rd, 5, 7)
               \/ c \in field(i.opcode, 7, 0)
  BY SMT DEF enc_shift
<1> QED
  BY <1>1, <1>2, SMT DEF Holds

LEMMA EncodesS ==
  ASSUME NEW i, FieldTypes(i)
  PROVE  /\ Holds(enc_s(i), i.imm, 5, 11, 25)
         /\ Holds(enc_s(i), i.rs2, 0, 4, 20)
         /\ Holds(enc_s(i), i.rs1, 0, 4, 15)
         /\ Holds(enc_s(i), i.funct3, 0, 2, 12)
         /\ Holds(enc_s(i), i.imm, 0, 4, 7)
         /\ Holds(enc_s(i), i.opcode, 0, 6, 0)
<1>0. 11 < 12 /\ 4 < 12
  BY SMT
<1>1. ASSUME NEW c \in Int
      PROVE  /\ c \in slice(low_bits(i.imm, 12), 5, 11, 25) <=> 25 <= c /\ c <= 25 + 11 - 5 /\ Bit(i.imm, c - 25 + 5)
             /\ c \in field(i.rs2, 5, 20) <=> 20 <= c /\ c < 20 + 5 /\ Bit(i.rs2, c - 20)
             /\ c \in field(i.rs1, 5, 15) <=> 15 <= c /\ c < 15 + 5 /\ Bit(i.rs1, c - 15)
             /\ c \in field(i.funct3, 3, 12) <=> 12 <= c /\ c < 12 + 3 /\ Bit(i.funct3, c - 12)
             /\ c \in slice(low_bits(i.imm, 12), 0, 4, 7) <=> 7 <= c /\ c <= 7 + 4 - 0 /\ Bit(i.imm, c - 7 + 0)
             /\ c \in field(i.opcode, 7, 0) <=> 0 <= c /\ c < 0 + 7 /\ Bit(i.opcode, c - 0)
  BY <1>0, FieldMember, PartMember, Zenon DEF FieldTypes
<1>2. ASSUME NEW c \in Int
      PROVE  c \in enc_s(i) <=>
               \/ c \in slice(low_bits(i.imm, 12), 5, 11, 25)
               \/ c \in field(i.rs2, 5, 20)
               \/ c \in field(i.rs1, 5, 15)
               \/ c \in field(i.funct3, 3, 12)
               \/ c \in slice(low_bits(i.imm, 12), 0, 4, 7)
               \/ c \in field(i.opcode, 7, 0)
  BY SMT DEF enc_s
<1> QED
  BY <1>1, <1>2, SMT DEF Holds

LEMMA EncodesB ==
  ASSUME NEW i, FieldTypes(i)
  PROVE  /\ Holds(enc_b(i), i.imm, 12, 12, 31)
         /\ Holds(enc_b(i), i.imm, 5, 10, 25)
         /\ Holds(enc_b(i), i.rs2, 0, 4, 20)
         /\ Holds(enc_b(i), i.rs1, 0, 4, 15)
         /\ Holds(enc_b(i), i.funct3, 0, 2, 12)
         /\ Holds(enc_b(i), i.imm, 1, 4, 8)
         /\ Holds(enc_b(i), i.imm, 11, 11, 7)
         /\ Holds(enc_b(i), i.opcode, 0, 6, 0)
<1>0. 12 < 13 /\ 10 < 13 /\ 4 < 13 /\ 11 < 13
  BY SMT
<1>1. ASSUME NEW c \in Int
      PROVE  /\ c \in slice(low_bits(i.imm, 13), 12, 12, 31) <=> 31 <= c /\ c <= 31 + 12 - 12 /\ Bit(i.imm, c - 31 + 12)
             /\ c \in slice(low_bits(i.imm, 13), 5, 10, 25) <=> 25 <= c /\ c <= 25 + 10 - 5 /\ Bit(i.imm, c - 25 + 5)
             /\ c \in field(i.rs2, 5, 20) <=> 20 <= c /\ c < 20 + 5 /\ Bit(i.rs2, c - 20)
             /\ c \in field(i.rs1, 5, 15) <=> 15 <= c /\ c < 15 + 5 /\ Bit(i.rs1, c - 15)
             /\ c \in field(i.funct3, 3, 12) <=> 12 <= c /\ c < 12 + 3 /\ Bit(i.funct3, c - 12)
             /\ c \in slice(low_bits(i.imm, 13), 1, 4, 8) <=> 8 <= c /\ c <= 8 + 4 - 1 /\ Bit(i.imm, c - 8 + 1)
             /\ c \in slice(low_bits(i.imm, 13), 11, 11, 7) <=> 7 <= c /\ c <= 7 + 11 - 11 /\ Bit(i.imm, c - 7 + 11)
             /\ c \in field(i.opcode, 7, 0) <=> 0 <= c /\ c < 0 + 7 /\ Bit(i.opcode, c - 0)
  BY <1>0, FieldMember, PartMember, Zenon DEF FieldTypes
<1>2. ASSUME NEW c \in Int
      PROVE  c \in enc_b(i) <=>
               \/ c \in slice(low_bits(i.imm, 13), 12, 12, 31)
               \/ c \in slice(low_bits(i.imm, 13), 5, 10, 25)
               \/ c \in field(i.rs2, 5, 20)
               \/ c \in field(i.rs1, 5, 15)
               \/ c \in field(i.funct3, 3, 12)
               \/ c \in slice(low_bits(i.imm, 13), 1, 4, 8)
               \/ c \in slice(low_bits(i.imm, 13), 11, 11, 7)
               \/ c \in field(i.opcode, 7, 0)
  BY SMT DEF enc_b
<1> QED
  BY <1>1, <1>2, SMT DEF Holds

LEMMA EncodesU ==
  ASSUME NEW i, FieldTypes(i)
  PROVE  /\ Holds(enc_u(i), i.imm, 0, 19, 12)
         /\ Holds(enc_u(i), i.rd, 0, 4, 7)
         /\ Holds(enc_u(i), i.opcode, 0, 6, 0)
<1>1. ASSUME NEW c \in Int
      PROVE  /\ c \in field(i.imm, 20, 12) <=> 12 <= c /\ c < 12 + 20 /\ Bit(i.imm, c - 12)
             /\ c \in field(i.rd, 5, 7) <=> 7 <= c /\ c < 7 + 5 /\ Bit(i.rd, c - 7)
             /\ c \in field(i.opcode, 7, 0) <=> 0 <= c /\ c < 0 + 7 /\ Bit(i.opcode, c - 0)
  BY FieldMember, Zenon DEF FieldTypes
<1>2. ASSUME NEW c \in Int
      PROVE  c \in enc_u(i) <=>
               \/ c \in field(i.imm, 20, 12)
               \/ c \in field(i.rd, 5, 7)
               \/ c \in field(i.opcode, 7, 0)
  BY SMT DEF enc_u
<1> QED
  BY <1>1, <1>2, SMT DEF Holds

LEMMA EncodesJ ==
  ASSUME NEW i, FieldTypes(i)
  PROVE  /\ Holds(enc_j(i), i.imm, 20, 20, 31)
         /\ Holds(enc_j(i), i.imm, 12, 19, 12)
         /\ Holds(enc_j(i), i.imm, 11, 11, 20)
         /\ Holds(enc_j(i), i.imm, 1, 10, 21)
         /\ Holds(enc_j(i), i.rd, 0, 4, 7)
         /\ Holds(enc_j(i), i.opcode, 0, 6, 0)
<1>0. 20 < 21 /\ 19 < 21 /\ 11 < 21 /\ 10 < 21
  BY SMT
<1>1. ASSUME NEW c \in Int
      PROVE  /\ c \in slice(low_bits(i.imm, 21), 20, 20, 31) <=> 31 <= c /\ c <= 31 + 20 - 20 /\ Bit(i.imm, c - 31 + 20)
             /\ c \in slice(low_bits(i.imm, 21), 12, 19, 12) <=> 12 <= c /\ c <= 12 + 19 - 12 /\ Bit(i.imm, c - 12 + 12)
             /\ c \in slice(low_bits(i.imm, 21), 11, 11, 20) <=> 20 <= c /\ c <= 20 + 11 - 11 /\ Bit(i.imm, c - 20 + 11)
             /\ c \in slice(low_bits(i.imm, 21), 1, 10, 21) <=> 21 <= c /\ c <= 21 + 10 - 1 /\ Bit(i.imm, c - 21 + 1)
             /\ c \in field(i.rd, 5, 7) <=> 7 <= c /\ c < 7 + 5 /\ Bit(i.rd, c - 7)
             /\ c \in field(i.opcode, 7, 0) <=> 0 <= c /\ c < 0 + 7 /\ Bit(i.opcode, c - 0)
  BY <1>0, FieldMember, PartMember, Zenon DEF FieldTypes
<1>2. ASSUME NEW c \in Int
      PROVE  c \in enc_j(i) <=>
               \/ c \in slice(low_bits(i.imm, 21), 20, 20, 31)
               \/ c \in slice(low_bits(i.imm, 21), 12, 19, 12)
               \/ c \in slice(low_bits(i.imm, 21), 11, 11, 20)
               \/ c \in slice(low_bits(i.imm, 21), 1, 10, 21)
               \/ c \in field(i.rd, 5, 7)
               \/ c \in field(i.opcode, 7, 0)
  BY SMT DEF enc_j
<1> QED
  BY <1>1, <1>2, SMT DEF Holds

-----------------------------------------------------------------------------
(* What the decoders read *)

(* A field of n bits from bit at on. *)
Place(at, n, top, hi) == top = n - 1 /\ hi = at + n - 1

LEMMA ReadField ==
  ASSUME NEW w, NEW v \in Int, NEW n \in Nat, NEW at \in Nat, NEW top \in Nat,
         NEW hi \in Nat, Place(at, n, top, hi), Holds(w, v, 0, top, at)
  PROVE  slice(w, at, hi, 0) = low_bits(v, n)
<1>0. top = n - 1 /\ hi = at + n - 1
  BY DEF Place
<1>1. ASSUME NEW b \in Int
      PROVE  b \in slice(w, at, hi, 0) <=> b \in low_bits(v, n)
  <2>1. b \in slice(w, at, hi, 0) <=>
          b - 0 + at \in w /\ at <= b - 0 + at /\ b - 0 + at <= hi
    BY SliceMember, SMT
  <2>2. b \in low_bits(v, n) <=> b \in 0 .. n - 1 /\ Bit(v, b)
    BY LowBitsMember
  <2>3. b \in 0 .. n - 1 => (b - 0 + at \in w <=> Bit(v, b))
    BY <1>0, SMT DEF Holds
  <2> QED
    BY <1>0, <2>1, <2>2, <2>3, SMT
<1>2. slice(w, at, hi, 0) \subseteq Int /\ low_bits(v, n) \subseteq Int
  <2>1. low_bits(v, n) \subseteq Int
    BY SMT DEF low_bits
  <2> QED
    BY <2>1, SliceInts, SMT
<1> QED
  BY <1>1, <1>2

LEMMA ReadsFields ==
  ASSUME NEW w, NEW v \in Int
  PROVE  /\ Holds(w, v, 0, 4, 7) /\ v \in 0 .. 31 => rd(w) = bits32(v)
         /\ Holds(w, v, 0, 4, 15) /\ v \in 0 .. 31 => rs1(w) = bits32(v)
         /\ Holds(w, v, 0, 4, 20) /\ v \in 0 .. 31 => rs2(w) = bits32(v)
         /\ Holds(w, v, 0, 2, 12) /\ v \in 0 .. 7 => funct3(w) = bits32(v)
         /\ Holds(w, v, 0, 6, 25) /\ v \in 0 .. 127 => funct7(w) = bits32(v)
<1>1. /\ Place(7, 5, 4, 11) /\ Place(15, 5, 4, 19) /\ Place(20, 5, 4, 24)
      /\ Place(12, 3, 2, 14) /\ Place(25, 7, 6, 31)
  BY SMT DEF Place
<1>2. Holds(w, v, 0, 4, 7) => slice(w, 7, 11, 0) = low_bits(v, 5)
  BY <1>1, ReadField, SMT
<1>3. Holds(w, v, 0, 4, 15) => slice(w, 15, 19, 0) = low_bits(v, 5)
  BY <1>1, ReadField, SMT
<1>4. Holds(w, v, 0, 4, 20) => slice(w, 20, 24, 0) = low_bits(v, 5)
  BY <1>1, ReadField, SMT
<1>5. Holds(w, v, 0, 2, 12) => slice(w, 12, 14, 0) = low_bits(v, 3)
  BY <1>1, ReadField, SMT
<1>6. Holds(w, v, 0, 6, 25) => slice(w, 25, 31, 0) = low_bits(v, 7)
  BY <1>1, ReadField, SMT
<1> QED
  BY <1>2, <1>3, <1>4, <1>5, <1>6, SmallBits DEF rd, rs1, rs2, funct3, funct7

LEMMA ReadsOpcode ==
  ASSUME NEW w, NEW v \in 0 .. 127, Holds(w, v, 0, 6, 0)
  PROVE  opcode(w) = bits32(v)
<1>1. low_bits(v, 7) = bits32(v)
  BY SmallBits
<1>2. ASSUME NEW b PROVE b \in low_bits(v, 7) <=> b \in 0 .. 6 /\ Bit(v, b)
  <2>1. b \in low_bits(v, 7) <=> b \in 0 .. 7 - 1 /\ Bit(v, b)
    BY LowBitsMembers, SMT
  <2> QED
    BY <2>1, SMT
<1>3. ASSUME NEW b \in 0 .. 6 PROVE b \in w <=> Bit(v, b)
  <2>1. b - 0 + 0 \in w <=> Bit(v, b)
    BY Zenon DEF Holds
  <2> QED
    BY <2>1, SMT
<1> QED
  BY <1>1, <1>2, <1>3, SMT DEF opcode

(* The immediates, as imm_gen and as the simulator's helpers join them.    *)
LEMMA ReadsImmI ==
  ASSUME NEW w, NEW v \in Int, Holds(w, v, 0, 11, 20), Extended(v, 12)
  PROVE  /\ sext(w, 12) \cup slice(w, 20, 31, 0) = bits32(v)
         /\ sign_extend_12(slice(w, 20, 31, 0)) = bits32(v)
<1>2. ASSUME NEW b \in 0 .. 11 PROVE b - 0 + 20 \in w <=> Bit(v, b)
  BY SMT DEF Holds
<1>3. ASSUME NEW b \in Int
      PROVE  b \in slice(w, 20, 31, 0) <=> b \in 0 .. 11 /\ Bit(v, b)
  <2>1. b \in slice(w, 20, 31, 0) <=>
          0 <= b /\ b <= 0 + 31 - 20 /\ b - 0 + 20 \in w
    BY WordSlice, SMT
  <2> QED
    BY <2>1, <1>2, SMT
<1>4. 31 \in w <=> Bit(v, 11)
  <2>1. 11 - 0 + 20 = 31 /\ 11 \in 0 .. 11
    BY SMT
  <2> QED
    BY <2>1, <1>2
<1>5. slice(w, 20, 31, 0) \subseteq Int /\ bits32(v) \subseteq Int
  BY SliceInts, SMT DEF Extended
<1>6. ASSUME NEW b \in Int
      PROVE  b \in bits32(v) <=> \/ b \in slice(w, 20, 31, 0)
                                 \/ Bit(v, 11) /\ b \in 12 .. 31
  BY <1>3, SMT DEF Extended
<1>7. sext(w, 12) \cup slice(w, 20, 31, 0) = bits32(v)
  BY <1>4, <1>5, <1>6, SMT DEF sext
<1>8. sign_extend_12(slice(w, 20, 31, 0)) = bits32(v)
  <2>1. 11 \in slice(w, 20, 31, 0) <=> Bit(v, 11)
    BY <1>3, SMT
  <2> QED
    BY <2>1, <1>5, <1>6, SMT DEF sign_extend_12
<1> QED
  BY <1>7, <1>8

LEMMA ReadsShamt ==
  ASSUME NEW w, NEW v \in 0 .. 31, Holds(w, v, 0, 4, 20)
  PROVE  (sext(w, 12) \cup slice(w, 20, 31, 0)) \cap (0 .. 4) = bits32(v)
<1>1. low_bits(v, 5) = bits32(v)
  BY SmallBits
<1>2. ASSUME NEW b PROVE b \in low_bits(v, 5) <=> b \in 0 .. 4 /\ Bit(v, b)
  <2>1. b \in low_bits(v, 5) <=> b \in 0 .. 5 - 1 /\ Bit(v, b)
    BY LowBitsMembers, SMT
  <2> QED
    BY <2>1, SMT
<1>3. ASSUME NEW b \in 0 .. 4 PROVE b - 0 + 20 \in w <=> Bit(v, b)
  BY SMT DEF Holds
<1>4. ASSUME NEW b \in 0 .. 4
      PROVE  b \in slice(w, 20, 31, 0) <=> Bit(v, b)
  <2>1. b \in slice(w, 20, 31, 0) <=>
          0 <= b /\ b <= 0 + 31 - 20 /\ b - 0 + 20 \in w
    BY WordSlice, SMT
  <2> QED
    BY <2>1, <1>3, SMT
<1>5. ASSUME NEW b \in 0 .. 4 PROVE b \notin sext(w, 12)
  BY SMT DEF sext
<1> QED
  BY <1>1, <1>2, <1>4, <1>5, SMT

LEMMA ReadsImmS ==
  ASSUME NEW w, NEW v \in Int, Extended(v, 12),
         Holds(w, v, 5, 11, 25), Holds(w, v, 0, 4, 7)
  PROVE  /\ sext(w, 12) \cup slice(w, 25, 31, 5) \cup slice(w, 7, 11, 0) = bits32(v)
         /\ decode_S_imm(w) = bits32(v)
<1> DEFINE high == slice(w, 25, 31, 5)
           low  == slice(w, 7, 11, 0)
<1>2. /\ \A b \in 5 .. 11 : b - 5 + 25 \in w <=> Bit(v, b)
      /\ \A b \in 0 .. 4 : b - 0 + 7 \in w <=> Bit(v, b)
  BY SMT DEF Holds
<1>3. ASSUME NEW b \in Int
      PROVE  b \in high \cup low <=> b \in 0 .. 11 /\ Bit(v, b)
  <2>1. /\ b \in high <=> 5 <= b /\ b <= 5 + 31 - 25 /\ b - 5 + 25 \in w
        /\ b \in low <=> 0 <= b /\ b <= 0 + 11 - 7 /\ b - 0 + 7 \in w
    BY WordSlice, SMT
  <2> QED
    BY <2>1, <1>2, SMT
<1>4. 31 \in w <=> Bit(v, 11)
  <2>1. 11 - 5 + 25 = 31 /\ 11 \in 5 .. 11
    BY SMT
  <2> QED
    BY <2>1, <1>2
<1>5. high \cup low \subseteq Int /\ bits32(v) \subseteq Int
  BY WordSliceInts, SMT DEF Extended
<1>6. ASSUME NEW b \in Int
      PROVE  b \in bits32(v) <=> \/ b \in high \cup low
                                 \/ Bit(v, 11) /\ b \in 12 .. 31
  BY <1>3, SMT DEF Extended
<1>7. 11 \in high \cup low <=> Bit(v, 11)
  BY <1>3, SMT
<1> HIDE DEF high, low
<1>8. sext(w, 12) \cup high \cup low = bits32(v)
  BY <1>4, <1>5, <1>6, SMT DEF sext
<1>9. sign_extend_12(high \cup low) = bits32(v)
  BY <1>5, <1>6, <1>7, SMT DEF sign_extend_12
<1> QED
  BY <1>8, <1>9 DEF decode_S_imm, high, low

LEMMA ReadsImmB ==
  ASSUME NEW w, NEW v \in Int, Extended(v, 13), ~Bit(v, 0),
         Holds(w, v, 12, 12, 31), Holds(w, v, 5, 10, 25),
         Holds(w, v, 1, 4, 8), Holds(w, v, 11, 11, 7)
  PROVE  /\ sext(w, 12) \cup slice(w, 7, 7, 11) \cup slice(w, 25, 30, 5)
              \cup slice(w, 8, 11, 1) = bits32(v)
         /\ decode_B_imm(w) = bits32(v)
<1> DEFINE top   == slice(w, 31, 31, 12)
           parts == slice(w, 7, 7, 11) \cup slice(w, 25, 30, 5) \cup slice(w, 8, 11, 1)
<1>2. /\ \A b \in 12 .. 12 : b - 12 + 31 \in w <=> Bit(v, b)
      /\ \A b \in 5 .. 10 : b - 5 + 25 \in w <=> Bit(v, b)
      /\ \A b \in 1 .. 4 : b - 1 + 8 \in w <=> Bit(v, b)
      /\ \A b \in 11 .. 11 : b - 11 + 7 \in w <=> Bit(v, b)
  BY SMT DEF Holds
<1>3. ASSUME NEW b \in Int
      PROVE  /\ b \in parts <=> b \in 0 .. 11 /\ Bit(v, b)
             /\ b \in top <=> b = 12 /\ Bit(v, 12)
  <2>1. /\ b \in slice(w, 7, 7, 11) <=> 11 <= b /\ b <= 11 + 7 - 7 /\ b - 11 + 7 \in w
        /\ b \in slice(w, 25, 30, 5) <=> 5 <= b /\ b <= 5 + 30 - 25 /\ b - 5 + 25 \in w
        /\ b \in slice(w, 8, 11, 1) <=> 1 <= b /\ b <= 1 + 11 - 8 /\ b - 1 + 8 \in w
        /\ b \in top <=> 12 <= b /\ b <= 12 + 31 - 31 /\ b - 12 + 31 \in w
    BY WordSlice, SMT
  <2>2. b \in parts <=> \/ b \in slice(w, 7, 7, 11) \/ b \in slice(w, 25, 30, 5)
                        \/ b \in slice(w, 8, 11, 1)
    BY SMT
  <2> HIDE DEF parts, top
  <2>3. b \in parts <=> b \in 1 .. 11 /\ Bit(v, b)
    BY <2>1, <2>2, <1>2, SMT
  <2>4. b \in top <=> b = 12 /\ Bit(v, 12)
    BY <2>1, <1>2, SMT
  <2> QED
    BY <2>3, <2>4, SMT
<1>4. 31 \in w <=> Bit(v, 12)
  <2>1. 12 - 12 + 31 = 31 /\ 12 \in 12 .. 12
    BY SMT
  <2> QED
    BY <2>1, <1>2
<1>5. parts \subseteq Int /\ top \subseteq Int /\ bits32(v) \subseteq Int
  BY WordSliceInts, SMT DEF Extended
<1> HIDE DEF parts, top
<1>6. ASSUME NEW b \in Int
      PROVE  b \in bits32(v) <=> b \in parts \/ (Bit(v, 12) /\ b \in 12 .. 31)
  BY <1>3, SMT DEF Extended
<1>7. sext(w, 12) \cup parts = bits32(v)
  <2>1. ASSUME NEW b PROVE b \in sext(w, 12) \cup parts <=> b \in bits32(v)
    <3>1. b \in sext(w, 12) <=> Bit(v, 12) /\ b \in 12 .. 31
      BY <1>4, SMT DEF sext
    <3>2. b \in 12 .. 31 => b \in Int
      BY SMT
    <3> QED
      BY <3>1, <3>2, <1>5, <1>6, Zenon
  <2> QED
    BY <2>1
<1>8. 12 \in top \cup parts <=> Bit(v, 12)
  BY <1>3, SMT
<1>9. (top \cup parts) \cup (IF 12 \in top \cup parts THEN 13 .. 31 ELSE {}) = bits32(v)
  <2> DEFINE fill == IF 12 \in top \cup parts THEN 13 .. 31 ELSE {}
  <2>1. ASSUME NEW b PROVE b \in (top \cup parts) \cup fill <=> b \in bits32(v)
    <3>1. b \in fill <=> Bit(v, 12) /\ b \in 13 .. 31
      BY <1>8, SMT
    <3>2. b \in 13 .. 31 => b \in Int
      BY SMT
    <3> HIDE DEF fill
    <3>3. b \in Int => (b \in bits32(v) <=> \/ b \in top \/ b \in parts
                                            \/ (Bit(v, 12) /\ b \in 13 .. 31))
      BY <1>3, <1>6, SMT
    <3> QED
      BY <3>1, <3>2, <3>3, <1>5, Zenon
  <2> QED
    BY <2>1
<1>10. /\ slice(w, 31, 31, 12) \cup slice(w, 7, 7, 11) \cup slice(w, 25, 30, 5)
            \cup slice(w, 8, 11, 1) = top \cup parts
       /\ sext(w, 12) \cup slice(w, 7, 7, 11) \cup slice(w, 25, 30, 5)
            \cup slice(w, 8, 11, 1) = sext(w, 12) \cup parts
  BY SMT DEF top, parts
<1> QED
  BY <1>7, <1>9, <1>10 DEF decode_B_imm

LEMMA ReadsImmJ ==
  ASSUME NEW w, NEW v \in Int, Extended(v, 21), ~Bit(v, 0),
         Holds(w, v, 20, 20, 31), Holds(w, v, 12, 19, 12),
         Holds(w, v, 11, 11, 20), Holds(w, v, 1, 10, 21)
  PROVE  /\ sext(w, 20) \cup slice(w, 12, 19, 12) \cup slice(w, 20, 20, 11)
              \cup slice(w, 21, 30, 1) = bits32(v)
         /\ decode_J_imm(w) = bits32(v)
<1> DEFINE top   == slice(w, 31, 31, 20)
           parts == slice(w, 12, 19, 12) \cup slice(w, 20, 20, 11) \cup slice(w, 21, 30, 1)
<1>2. /\ \A b \in 20 .. 20 : b - 20 + 31 \in w <=> Bit(v, b)
      /\ \A b \in 12 .. 19 : b - 12 + 12 \in w <=> Bit(v, b)
      /\ \A b \in 11 .. 11 : b - 11 + 20 \in w <=> Bit(v, b)
      /\ \A b \in 1 .. 10 : b - 1 + 21 \in w <=> Bit(v, b)
  BY SMT DEF Holds
<1>3. ASSUME NEW b \in Int
      PROVE  /\ b \in parts <=> b \in 0 .. 19 /\ Bit(v, b)
             /\ b \in top <=> b = 20 /\ Bit(v, 20)
  <2>1. /\ b \in slice(w, 12, 19, 12) <=> 12 <= b /\ b <= 12 + 19 - 12 /\ b - 12 + 12 \in w
        /\ b \in slice(w, 20, 20, 11) <=> 11 <= b /\ b <= 11 + 20 - 20 /\ b - 11 + 20 \in w
        /\ b \in slice(w, 21, 30, 1) <=> 1 <= b /\ b <= 1 + 30 - 21 /\ b - 1 + 21 \in w
        /\ b \in top <=> 20 <= b /\ b <= 20 + 31 - 31 /\ b - 20 + 31 \in w
    BY WordSlice, SMT
  <2>2. b \in parts <=> \/ b \in slice(w, 12, 19, 12) \/ b \in slice(w, 20, 20, 11)
                        \/ b \in slice(w, 21, 30, 1)
    BY SMT
  <2> HIDE DEF parts, top
  <2>3. b \in parts <=> b \in 1 .. 19 /\ Bit(v, b)
    BY <2>1, <2>2, <1>2, SMT
  <2>4. b \in top <=> b = 20 /\ Bit(v, 20)
    BY <2>1, <1>2, SMT
  <2> QED
    BY <2>3, <2>4, SMT
<1>4. 31 \in w <=> Bit(v, 20)
  <2>1. 20 - 20 + 31 = 31 /\ 20 \in 20 .. 20
    BY SMT
  <2> QED
    BY <2>1, <1>2
<1>5. parts \subseteq Int /\ top \subseteq Int /\ bits32(v) \subseteq Int
  BY WordSliceInts, SMT DEF Extended
<1> HIDE DEF parts, top
<1>6. ASSUME NEW b \in Int
      PROVE  b \in bits32(v) <=> b \in parts \/ (Bit(v, 20) /\ b \in 20 .. 31)
  BY <1>3, SMT DEF Extended
<1>7. sext(w, 20) \cup parts = bits32(v)
  <2>1. ASSUME NEW b PROVE b \in sext(w, 20) \cup parts <=> b \in bits32(v)
    <3>1. b \in sext(w, 20) <=> Bit(v, 20) /\ b \in 20 .. 31
      BY <1>4, SMT DEF sext
    <3>2. b \in 20 .. 31 => b \in Int
      BY SMT
    <3> QED
      BY <3>1, <3>2, <1>5, <1>6, Zenon
  <2> QED
    BY <2>1
<1>8. 20 \in top \cup parts <=> Bit(v, 20)
  BY <1>3, SMT
<1>9. (top \cup parts) \cup (IF 20 \in top \cup parts THEN 21 .. 31 ELSE {}) = bits32(v)
  <2> DEFINE fill == IF 20 \in top \cup parts THEN 21 .. 31 ELSE {}
  <2>1. ASSUME NEW b PROVE b \in (top \cup parts) \cup fill <=> b \in bits32(v)
    <3>1. b \in fill <=> Bit(v, 20) /\ b \in 21 .. 31
      BY <1>8, SMT
    <3>2. b \in 21 .. 31 => b \in Int
      BY SMT
    <3> HIDE DEF fill
    <3>3. b \in Int => (b \in bits32(v) <=> \/ b \in top \/ b \in parts
                                            \/ (Bit(v, 20) /\ b \in 21 .. 31))
      BY <1>3, <1>6, SMT
    <3> QED
      BY <3>1, <3>2, <3>3, <1>5, Zenon
  <2> QED
    BY <2>1
<1>10. /\ slice(w, 31, 31, 20) \cup slice(w, 21, 30, 1) \cup slice(w, 20, 20, 11)
            \cup slice(w, 12, 19, 12) = top \cup parts
       /\ sext(w, 20) \cup slice(w, 12, 19, 12) \cup slice(w, 20, 20, 11)
            \cup slice(w, 21, 30, 1) = sext(w, 20) \cup parts
  BY SMT DEF top, parts
<1> QED
  BY <1>7, <1>9, <1>10 DEF decode_J_imm

(* The upper immediate is wired straight. *)
LEMMA UpperBits ==
  ASSUME NEW i, FieldTypes(i)
  PROVE  enc_u(i) \cap (12 .. 31) = field(i.imm, 20, 12)
<1>1. ASSUME NEW c \in Int
      PROVE  /\ c \in field(i.imm, 20, 12) <=> 12 <= c /\ c < 12 + 20 /\ Bit(i.imm, c - 12)
             /\ c \in field(i.rd, 5, 7) <=> 7 <= c /\ c < 7 + 5 /\ Bit(i.rd, c - 7)
             /\ c \in field(i.opcode, 7, 0) <=> 0 <= c /\ c < 0 + 7 /\ Bit(i.opcode, c - 0)
  BY FieldMember, Zenon DEF FieldTypes
<1>2. field(i.imm, 20, 12) \subseteq Int
  BY FieldInts, SMT DEF FieldTypes
<1>3. ASSUME NEW c
      PROVE  c \in enc_u(i) \cap (12 .. 31) <=> c \in field(i.imm, 20, 12)
  <2>1. CASE c \in Int
    BY <1>1, <2>1, SMT DEF enc_u
  <2>2. CASE c \notin Int
    BY <1>2, <2>2, SMT
  <2> QED
    BY <2>1, <2>2
<1> QED
  BY <1>3

(* The opcode chooses the immediate. *)
LEMMA ImmGenByOpcode ==
  ASSUME NEW w
  PROVE  /\ opcode(w) \in {bits32(19), bits32(3), bits32(103)} =>
              imm_gen(w) = sext(w, 12) \cup slice(w, 20, 31, 0)
         /\ opcode(w) = bits32(35) =>
              imm_gen(w) = sext(w, 12) \cup slice(w, 25, 31, 5) \cup slice(w, 7, 11, 0)
         /\ opcode(w) = bits32(99) =>
              imm_gen(w) = sext(w, 12) \cup slice(w, 7, 7, 11) \cup slice(w, 25, 30, 5)
                             \cup slice(w, 8, 11, 1)
         /\ opcode(w) = bits32(111) =>
              imm_gen(w) = sext(w, 20) \cup slice(w, 12, 19, 12) \cup slice(w, 20, 20, 11)
                             \cup slice(w, 21, 30, 1)
         /\ opcode(w) \in {bits32(55), bits32(23)} => imm_gen(w) = w \cap (12 .. 31)
<1> DEFINE i == {bits32(19), bits32(3), bits32(103)}
           u == {bits32(55), bits32(23)}
           immI == sext(w, 12) \cup slice(w, 20, 31, 0)
           immS == sext(w, 12) \cup slice(w, 25, 31, 5) \cup slice(w, 7, 11, 0)
           immB == sext(w, 12) \cup slice(w, 7, 7, 11) \cup slice(w, 25, 30, 5)
                     \cup slice(w, 8, 11, 1)
           immJ == sext(w, 20) \cup slice(w, 12, 19, 12) \cup slice(w, 20, 20, 11)
                     \cup slice(w, 21, 30, 1)
           immU == w \cap (12 .. 31)
<1>1. /\ bits32(35) \notin i /\ bits32(99) \notin i /\ bits32(111) \notin i
      /\ bits32(99) # bits32(35) /\ bits32(111) # bits32(35) /\ bits32(111) # bits32(99)
      /\ \A op \in u : /\ op \notin i /\ op # bits32(35)
                       /\ op # bits32(99) /\ op # bits32(111)
  BY OpcodeBits, SMT
<1>2. imm_gen(w) = CASE opcode(w) \in i -> immI
                     [] opcode(w) = bits32(35) -> immS
                     [] opcode(w) = bits32(99) -> immB
                     [] opcode(w) = bits32(111) -> immJ
                     [] opcode(w) \in u -> immU
                     [] OTHER -> {}
  BY Zenon DEF imm_gen
<1> HIDE DEF i, u, immI, immS, immB, immJ, immU
<1>3. /\ opcode(w) \in i => imm_gen(w) = immI
      /\ opcode(w) = bits32(35) => imm_gen(w) = immS
      /\ opcode(w) = bits32(99) => imm_gen(w) = immB
      /\ opcode(w) = bits32(111) => imm_gen(w) = immJ
      /\ opcode(w) \in u => imm_gen(w) = immU
  BY <1>1, <1>2, SMT
<1> QED
  BY <1>3 DEF i, u, immI, immS, immB, immJ, immU

-----------------------------------------------------------------------------
(* Every format comes back as it was meant *)

RoundTrip(i, w) ==
  /\ i.fmt \in {"R", "I", "shift", "U", "J"} => rd(w) = bits32(i.rd)
  /\ i.fmt \in {"R", "I", "shift", "S", "B"} =>
       rs1(w) = bits32(i.rs1) /\ funct3(w) = bits32(i.funct3)
  /\ i.fmt \in {"R", "S", "B"} => rs2(w) = bits32(i.rs2)
  /\ i.fmt \in {"R", "shift"} => funct7(w) = bits32(i.funct7)
  /\ i.fmt = "shift" => imm_gen(w) \cap (0 .. 4) = bits32(i.imm)
  /\ i.fmt \in {"I", "S", "B", "J"} => imm_gen(w) = bits32(i.imm)
  /\ i.fmt = "U" => imm_gen(w) = field(i.imm, 20, 12)
  /\ i.fmt = "I" => sign_extend_12(slice(w, 20, 31, 0)) = bits32(i.imm)
  /\ i.fmt = "S" => decode_S_imm(w) = bits32(i.imm)
  /\ i.fmt = "B" => decode_B_imm(w) = bits32(i.imm)
  /\ i.fmt = "J" => decode_J_imm(w) = bits32(i.imm)

LEMMA FitsTypes ==
  ASSUME NEW i, Fits(i)
  PROVE  FieldTypes(i)
BY SMT DEF Fits, FieldTypes

LEMMA RoundTrips ==
  ASSUME NEW i, Fits(i)
  PROVE  RoundTrip(i, encode(i))
<1>1. FieldTypes(i)
  BY FitsTypes
<1>2. /\ i.rd \in 0 .. 31 /\ i.rs1 \in 0 .. 31 /\ i.rs2 \in 0 .. 31
      /\ i.funct3 \in 0 .. 7 /\ i.funct7 \in 0 .. 127 /\ i.opcode \in 0 .. 127
      /\ i.rd \in Int /\ i.rs1 \in Int /\ i.rs2 \in Int
      /\ i.funct3 \in Int /\ i.funct7 \in Int /\ i.imm \in Int
  BY SMT DEF Fits
<1>3. CASE i.fmt = "R"
  <2> DEFINE w == enc_r(i)
  <2>1. encode(i) = w
    BY <1>3 DEF encode
  <2>2. /\ Holds(w, i.funct7, 0, 6, 25) /\ Holds(w, i.rs2, 0, 4, 20)
        /\ Holds(w, i.rs1, 0, 4, 15) /\ Holds(w, i.funct3, 0, 2, 12)
        /\ Holds(w, i.rd, 0, 4, 7)
    BY <1>1, EncodesR
  <2> HIDE DEF w
  <2>3. /\ rd(w) = bits32(i.rd) /\ rs1(w) = bits32(i.rs1) /\ rs2(w) = bits32(i.rs2)
        /\ funct3(w) = bits32(i.funct3) /\ funct7(w) = bits32(i.funct7)
    BY <1>2, <2>2, ReadsFields
  <2> QED
    BY <1>3, <2>1, <2>3 DEF RoundTrip
<1>4. CASE i.fmt = "I"
  <2> DEFINE w == enc_i(i)
  <2>1. encode(i) = w
    BY <1>4 DEF encode
  <2>2. /\ Holds(w, i.imm, 0, 11, 20) /\ Holds(w, i.rs1, 0, 4, 15)
        /\ Holds(w, i.funct3, 0, 2, 12) /\ Holds(w, i.rd, 0, 4, 7)
        /\ Holds(w, i.opcode, 0, 6, 0)
    BY <1>1, EncodesI
  <2> HIDE DEF w
  <2>3. /\ rd(w) = bits32(i.rd) /\ rs1(w) = bits32(i.rs1)
        /\ funct3(w) = bits32(i.funct3)
    BY <1>2, <2>2, ReadsFields
  <2>4. i.opcode \in {19, 3, 103} /\ Signed(i.imm, 2048)
    BY <1>4 DEF Fits
  <2>5. Extended(i.imm, 12)
    BY <1>2, <2>4, SignedBits
  <2>6. opcode(w) = bits32(i.opcode)
    BY <1>2, <2>2, ReadsOpcode
  <2>7. opcode(w) \in {bits32(19), bits32(3), bits32(103)}
    BY <2>4, <2>6
  <2>8. imm_gen(w) = bits32(i.imm) /\ sign_extend_12(slice(w, 20, 31, 0)) = bits32(i.imm)
    BY <1>2, <2>2, <2>5, <2>7, ReadsImmI, ImmGenByOpcode
  <2> QED
    BY <1>4, <2>1, <2>3, <2>8 DEF RoundTrip
<1>5. CASE i.fmt = "shift"
  <2> DEFINE w == enc_shift(i)
  <2>1. encode(i) = w
    BY <1>5 DEF encode
  <2>2. /\ Holds(w, i.funct7, 0, 6, 25) /\ Holds(w, i.imm, 0, 4, 20)
        /\ Holds(w, i.rs1, 0, 4, 15) /\ Holds(w, i.funct3, 0, 2, 12)
        /\ Holds(w, i.rd, 0, 4, 7) /\ Holds(w, i.opcode, 0, 6, 0)
    BY <1>1, EncodesShift
  <2> HIDE DEF w
  <2>3. /\ rd(w) = bits32(i.rd) /\ rs1(w) = bits32(i.rs1)
        /\ funct3(w) = bits32(i.funct3) /\ funct7(w) = bits32(i.funct7)
    BY <1>2, <2>2, ReadsFields
  <2>4. i.opcode = 19 /\ i.imm \in 0 .. 31
    BY <1>5 DEF Fits
  <2>5. opcode(w) = bits32(i.opcode)
    BY <1>2, <2>2, ReadsOpcode
  <2>6. imm_gen(w) = sext(w, 12) \cup slice(w, 20, 31, 0)
    BY <2>4, <2>5, ImmGenByOpcode
  <2>7. imm_gen(w) \cap (0 .. 4) = bits32(i.imm)
    BY <2>2, <2>4, <2>6, ReadsShamt
  <2> QED
    BY <1>5, <2>1, <2>3, <2>7 DEF RoundTrip
<1>6. CASE i.fmt = "S"
  <2> DEFINE w == enc_s(i)
  <2>1. encode(i) = w
    BY <1>6 DEF encode
  <2>2. /\ Holds(w, i.imm, 5, 11, 25) /\ Holds(w, i.imm, 0, 4, 7)
        /\ Holds(w, i.rs2, 0, 4, 20) /\ Holds(w, i.rs1, 0, 4, 15)
        /\ Holds(w, i.funct3, 0, 2, 12) /\ Holds(w, i.opcode, 0, 6, 0)
    BY <1>1, EncodesS
  <2> HIDE DEF w
  <2>3. /\ rs1(w) = bits32(i.rs1) /\ rs2(w) = bits32(i.rs2)
        /\ funct3(w) = bits32(i.funct3)
    BY <1>2, <2>2, ReadsFields
  <2>4. i.opcode = 35 /\ Signed(i.imm, 2048)
    BY <1>6 DEF Fits
  <2>5. Extended(i.imm, 12)
    BY <1>2, <2>4, SignedBits
  <2>6. opcode(w) = bits32(i.opcode)
    BY <1>2, <2>2, ReadsOpcode
  <2>7. opcode(w) = bits32(35)
    BY <2>4, <2>6, SMT
  <2>8. imm_gen(w) = sext(w, 12) \cup slice(w, 25, 31, 5) \cup slice(w, 7, 11, 0)
    BY <2>7, ImmGenByOpcode
  <2>9. sext(w, 12) \cup slice(w, 25, 31, 5) \cup slice(w, 7, 11, 0) = bits32(i.imm)
        /\ decode_S_imm(w) = bits32(i.imm)
    BY <1>2, <2>2, <2>5, ReadsImmS
  <2> QED
    BY <1>6, <2>1, <2>3, <2>8, <2>9 DEF RoundTrip
<1>7. CASE i.fmt = "B"
  <2> DEFINE w == enc_b(i)
  <2>1. encode(i) = w
    BY <1>7 DEF encode
  <2>2. /\ Holds(w, i.imm, 12, 12, 31) /\ Holds(w, i.imm, 5, 10, 25)
        /\ Holds(w, i.imm, 1, 4, 8) /\ Holds(w, i.imm, 11, 11, 7)
        /\ Holds(w, i.rs2, 0, 4, 20) /\ Holds(w, i.rs1, 0, 4, 15)
        /\ Holds(w, i.funct3, 0, 2, 12) /\ Holds(w, i.opcode, 0, 6, 0)
    BY <1>1, EncodesB
  <2> HIDE DEF w
  <2>3. /\ rs1(w) = bits32(i.rs1) /\ rs2(w) = bits32(i.rs2)
        /\ funct3(w) = bits32(i.funct3)
    BY <1>2, <2>2, ReadsFields
  <2>4. i.opcode = 99 /\ Signed(i.imm, 4096) /\ i.imm % 2 = 0
    BY <1>7 DEF Fits
  <2>5. Extended(i.imm, 13) /\ ~Bit(i.imm, 0)
    BY <1>2, <2>4, SignedBits, EvenBit
  <2>6. opcode(w) = bits32(i.opcode)
    BY <1>2, <2>2, ReadsOpcode
  <2>7. opcode(w) = bits32(99)
    BY <2>4, <2>6, SMT
  <2>8. imm_gen(w) = sext(w, 12) \cup slice(w, 7, 7, 11) \cup slice(w, 25, 30, 5)
                       \cup slice(w, 8, 11, 1)
    BY <2>7, ImmGenByOpcode
  <2>9. sext(w, 12) \cup slice(w, 7, 7, 11) \cup slice(w, 25, 30, 5)
          \cup slice(w, 8, 11, 1) = bits32(i.imm)
        /\ decode_B_imm(w) = bits32(i.imm)
    BY <1>2, <2>2, <2>5, ReadsImmB
  <2> QED
    BY <1>7, <2>1, <2>3, <2>8, <2>9 DEF RoundTrip
<1>8. CASE i.fmt = "U"
  <2> DEFINE w == enc_u(i)
  <2>1. encode(i) = w
    BY <1>8 DEF encode
  <2>2. /\ Holds(w, i.rd, 0, 4, 7) /\ Holds(w, i.opcode, 0, 6, 0)
    BY <1>1, EncodesU
  <2>3. rd(w) = bits32(i.rd)
    BY <1>2, <2>2, ReadsFields
  <2>4. i.opcode \in {55, 23}
    BY <1>8 DEF Fits
  <2>5. opcode(w) = bits32(i.opcode)
    BY <1>2, <2>2, ReadsOpcode
  <2>6. imm_gen(w) = w \cap (12 .. 31)
    BY <2>4, <2>5, ImmGenByOpcode
  <2>7. w \cap (12 .. 31) = field(i.imm, 20, 12)
    BY <1>1, UpperBits
  <2> QED
    BY <1>8, <2>1, <2>3, <2>6, <2>7 DEF RoundTrip
<1>9. CASE i.fmt = "J"
  <2> DEFINE w == enc_j(i)
  <2>1. encode(i) = w
    BY <1>9 DEF encode
  <2>2. /\ Holds(w, i.imm, 20, 20, 31) /\ Holds(w, i.imm, 12, 19, 12)
        /\ Holds(w, i.imm, 11, 11, 20) /\ Holds(w, i.imm, 1, 10, 21)
        /\ Holds(w, i.rd, 0, 4, 7) /\ Holds(w, i.opcode, 0, 6, 0)
    BY <1>1, EncodesJ
  <2> HIDE DEF w
  <2>3. rd(w) = bits32(i.rd)
    BY <1>2, <2>2, ReadsFields
  <2>4. i.opcode = 111 /\ Signed(i.imm, 1048576) /\ i.imm % 2 = 0
    BY <1>9 DEF Fits
  <2>5. Extended(i.imm, 21) /\ ~Bit(i.imm, 0)
    BY <1>2, <2>4, SignedBits, EvenBit
  <2>6. opcode(w) = bits32(i.opcode)
    BY <1>2, <2>2, ReadsOpcode
  <2>7. opcode(w) = bits32(111)
    BY <2>4, <2>6, SMT
  <2>8. imm_gen(w) = sext(w, 20) \cup slice(w, 12, 19, 12) \cup slice(w, 20, 20, 11)
                       \cup slice(w, 21, 30, 1)
    BY <2>7, ImmGenByOpcode
  <2>9. sext(w, 20) \cup slice(w, 12, 19, 12) \cup slice(w, 20, 20, 11)
          \cup slice(w, 21, 30, 1) = bits32(i.imm)
        /\ decode_J_imm(w) = bits32(i.imm)
    BY <1>2, <2>2, <2>5, ReadsImmJ
  <2> QED
    BY <1>9, <2>1, <2>3, <2>8, <2>9 DEF RoundTrip
<1> QED
  BY <1>3, <1>4, <1>5, <1>6, <1>7, <1>8, <1>9 DEF Fits

-----------------------------------------------------------------------------
(* From the generator to the core's instruction memory *)

Words == {encode(i) : i \in Instructions}

EmittedEncoded ==
  /\ emitted \in Seq(Instructions) /\ program \in Seq(Words)
  /\ Len(program) = Len(emitted) /\ Len(emitted) <= MAX_WORDS
  /\ \A k \in 1 .. Len(emitted) : program[k] = encode(emitted[k])

FilesInv ==
  /\ EmittedEncoded
  /\ step \in {"generate", "hex", "elf", "done"}
  /\ step # "generate" => hex = program
  /\ step = "done" => instruction_mem = readmemh(hex)

LEMMA FilesInit == Init => FilesInv
BY FilesAssumption, SMT DEF Init, FilesInv, EmittedEncoded

LEMMA FilesStep == FilesInv /\ [Next]_vars => FilesInv'
<1> SUFFICES ASSUME FilesInv, [Next]_vars PROVE FilesInv'
  OBVIOUS
<1>1. CASE Emit
  <2>1. PICK i \in Instructions :
          emitted' = Append(emitted, i) /\ program' = Append(program, encode(i))
    BY <1>1 DEF Emit
  <2>2. /\ step = "generate" /\ step' = step /\ Len(program) < MAX_WORDS
        /\ emitted \in Seq(Instructions) /\ program \in Seq(Words)
        /\ Len(program) = Len(emitted)
        /\ \A k \in 1 .. Len(emitted) : program[k] = encode(emitted[k])
    BY <1>1 DEF Emit, FilesInv, EmittedEncoded
  <2>3. encode(i) \in Words
    BY DEF Words
  <2>4. PICK e : e = encode(i)
    OBVIOUS
  <2>5. /\ emitted' \in Seq(Instructions) /\ program' \in Seq(Words)
        /\ Len(program') = Len(emitted') /\ Len(emitted') <= MAX_WORDS
        /\ Len(emitted') = Len(emitted) + 1
        /\ emitted'[Len(emitted) + 1] = i /\ program'[Len(emitted) + 1] = e
        /\ \A k \in 1 .. Len(emitted) : emitted'[k] = emitted[k] /\ program'[k] = program[k]
    BY <2>1, <2>2, <2>3, <2>4, FilesAssumption, SMT
  <2>6. ASSUME NEW k \in 1 .. Len(emitted') PROVE program'[k] = encode(emitted'[k])
    <3>1. CASE k = Len(emitted) + 1
      BY <3>1, <2>4, <2>5, Zenon
    <3>2. CASE k # Len(emitted) + 1
      <4>1. k \in 1 .. Len(emitted)
        BY <3>2, <2>2, <2>5, SMT
      <4> QED
        BY <4>1, <2>2, <2>5, Zenon
    <3> QED
      BY <3>1, <3>2
  <2>7. EmittedEncoded'
    BY <2>5, <2>6 DEF EmittedEncoded
  <2> QED
    BY <2>2, <2>7 DEF FilesInv
<1>2. CASE WriteHex
  <2>1. EmittedEncoded'
    BY <1>2 DEF WriteHex, FilesInv, EmittedEncoded
  <2> QED
    BY <1>2, <2>1 DEF WriteHex, FilesInv
<1>3. CASE WriteElf
  <2>1. EmittedEncoded'
    BY <1>3 DEF WriteElf, FilesInv, EmittedEncoded
  <2> QED
    BY <1>3, <2>1 DEF WriteElf, FilesInv
<1>4. CASE Load
  <2>1. EmittedEncoded'
    BY <1>4 DEF Load, FilesInv, EmittedEncoded
  <2>2. instruction_mem' = readmemh(hex) /\ hex' = hex /\ program' = program
        /\ step = "elf" /\ step' = "done"
    BY <1>4 DEF Load
  <2>3. instruction_mem' = readmemh(hex')
    BY <2>2, Zenon
  <2> QED
    BY <2>1, <2>2, <2>3 DEF FilesInv
<1>5. CASE Done \/ UNCHANGED vars
  <2>1. UNCHANGED vars
    BY <1>5 DEF Done
  <2>2. EmittedEncoded'
    BY <2>1 DEF vars, FilesInv, EmittedEncoded
  <2>3. readmemh(hex') = readmemh(hex)
    BY <2>1, Zenon DEF vars
  <2> QED
    BY <2>1, <2>2, <2>3 DEF vars, FilesInv
<1> QED
  BY <1>1, <1>2, <1>3, <1>4, <1>5 DEF Next

LEMMA FilesInvDecodes == FilesInv => DecodedAsEmitted
<1> SUFFICES ASSUME FilesInv, step = "done", NEW k \in DOMAIN emitted
             PROVE  RoundTrip(emitted[k], instruction_mem[k - 1])
  BY DEF DecodedAsEmitted, RoundTrip
<1>1. /\ emitted \in Seq(Instructions) /\ program \in Seq(Words)
      /\ Len(program) = Len(emitted) /\ Len(emitted) <= MAX_WORDS
      /\ \A n \in 1 .. Len(emitted) : program[n] = encode(emitted[n])
      /\ instruction_mem = readmemh(program)
  BY DEF FilesInv, EmittedEncoded
<1>2. /\ k \in 1 .. Len(emitted) /\ emitted[k] \in Instructions
      /\ k - 1 \in 0 .. MEM_WORDS - 1 /\ k - 1 < Len(program) /\ k - 1 + 1 = k
  BY <1>1, FilesAssumption, SMT
<1>3. instruction_mem[k - 1] = program[k]
  BY <1>1, <1>2, SMT DEF readmemh
<1>4. instruction_mem[k - 1] = encode(emitted[k])
  BY <1>1, <1>2, <1>3
<1>5. RoundTrip(emitted[k], encode(emitted[k]))
  BY <1>2, InstructionsAssumption, RoundTrips
<1> QED
  BY <1>4, <1>5, Zenon

(* What the generator encodes and writes to program.hex, the core and the  *)
(* C++ simulator decode back: every register, function code and immediate, *)
(* for every program of instructions that fit their fields.                *)
THEOREM FieldsSurvive == Spec => []DecodedAsEmitted
<1>1. Spec => []FilesInv
  BY FilesInit, FilesStep, PTL DEF Spec
<1> QED
  BY <1>1, FilesInvDecodes, PTL

-----------------------------------------------------------------------------
(* The bits of a number, byte by byte *)

Digit(v, b) == IF Bit(v, b) THEN 1 ELSE 0
Quotient(v, b) == v \div 2^b

LEMMA DigitInt == ASSUME NEW v, NEW b PROVE Digit(v, b) \in Int
BY DEF Digit

(* The value of the byte of v that starts at bit lo. *)
ByteOf(v, lo) ==
  Digit(v, lo) + 2 * Digit(v, lo + 1) + 4 * Digit(v, lo + 2) + 8 * Digit(v, lo + 3)
  + 16 * Digit(v, lo + 4) + 32 * Digit(v, lo + 5) + 64 * Digit(v, lo + 6) + 128 * Digit(v, lo + 7)

LEMMA ByteOfInt == ASSUME NEW v, NEW lo PROVE ByteOf(v, lo) \in Int
BY DEF ByteOf, Digit

(* Dividing by two takes off one bit. *)
Halves(v, b) ==
  /\ Quotient(v, b) = 2 * Quotient(v, b + 1) + Digit(v, b)
  /\ Quotient(v, b) \in Int /\ Quotient(v, b + 1) \in Int /\ Digit(v, b) \in Int

LEMMA EightHalves ==
  ASSUME NEW v, NEW lo \in Nat,
         Halves(v, lo), Halves(v, lo + 1), Halves(v, lo + 2), Halves(v, lo + 3),
         Halves(v, lo + 4), Halves(v, lo + 5), Halves(v, lo + 6), Halves(v, lo + 7)
  PROVE  Quotient(v, lo) = 256 * Quotient(v, lo + 8) + ByteOf(v, lo)
BY SMT DEF Halves, ByteOf

LEMMA BitSteps ==
  ASSUME NEW v \in Nat, v < 1073741824
  PROVE  /\ Halves(v, 0) /\ Halves(v, 1) /\ Halves(v, 2) /\ Halves(v, 3)
         /\ Halves(v, 4) /\ Halves(v, 5) /\ Halves(v, 6) /\ Halves(v, 7)
         /\ Halves(v, 8) /\ Halves(v, 9) /\ Halves(v, 10) /\ Halves(v, 11)
         /\ Halves(v, 12) /\ Halves(v, 13) /\ Halves(v, 14) /\ Halves(v, 15)
         /\ Halves(v, 16) /\ Halves(v, 17) /\ Halves(v, 18) /\ Halves(v, 19)
         /\ Halves(v, 20) /\ Halves(v, 21) /\ Halves(v, 22) /\ Halves(v, 23)
         /\ Halves(v, 24) /\ Halves(v, 25) /\ Halves(v, 26) /\ Halves(v, 27)
         /\ Halves(v, 28) /\ Halves(v, 29) /\ Halves(v, 30) /\ Halves(v, 31)
<1>3. /\ Quotient(v, 0) = 2 * Quotient(v, 1) + Digit(v, 0)
      /\ Quotient(v, 1) = 2 * Quotient(v, 2) + Digit(v, 1)
      /\ Quotient(v, 2) = 2 * Quotient(v, 3) + Digit(v, 2)
      /\ Quotient(v, 3) = 2 * Quotient(v, 4) + Digit(v, 3)
      /\ Quotient(v, 4) = 2 * Quotient(v, 5) + Digit(v, 4)
      /\ Quotient(v, 5) = 2 * Quotient(v, 6) + Digit(v, 5)
      /\ Quotient(v, 6) = 2 * Quotient(v, 7) + Digit(v, 6)
      /\ Quotient(v, 7) = 2 * Quotient(v, 8) + Digit(v, 7)
      /\ Quotient(v, 8) = 2 * Quotient(v, 9) + Digit(v, 8)
      /\ Quotient(v, 9) = 2 * Quotient(v, 10) + Digit(v, 9)
      /\ Quotient(v, 10) = 2 * Quotient(v, 11) + Digit(v, 10)
  BY SMT DEF Quotient, Digit, Bit
<1>4. /\ Quotient(v, 11) = 2 * Quotient(v, 12) + Digit(v, 11)
      /\ Quotient(v, 12) = 2 * Quotient(v, 13) + Digit(v, 12)
      /\ Quotient(v, 13) = 2 * Quotient(v, 14) + Digit(v, 13)
      /\ Quotient(v, 14) = 2 * Quotient(v, 15) + Digit(v, 14)
      /\ Quotient(v, 15) = 2 * Quotient(v, 16) + Digit(v, 15)
      /\ Quotient(v, 16) = 2 * Quotient(v, 17) + Digit(v, 16)
      /\ Quotient(v, 17) = 2 * Quotient(v, 18) + Digit(v, 17)
      /\ Quotient(v, 18) = 2 * Quotient(v, 19) + Digit(v, 18)
      /\ Quotient(v, 19) = 2 * Quotient(v, 20) + Digit(v, 19)
      /\ Quotient(v, 20) = 2 * Quotient(v, 21) + Digit(v, 20)
      /\ Quotient(v, 21) = 2 * Quotient(v, 22) + Digit(v, 21)
  BY SMT DEF Quotient, Digit, Bit
<1>5. /\ Quotient(v, 22) = 2 * Quotient(v, 23) + Digit(v, 22)
      /\ Quotient(v, 23) = 2 * Quotient(v, 24) + Digit(v, 23)
      /\ Quotient(v, 24) = 2 * Quotient(v, 25) + Digit(v, 24)
      /\ Quotient(v, 25) = 2 * Quotient(v, 26) + Digit(v, 25)
      /\ Quotient(v, 26) = 2 * Quotient(v, 27) + Digit(v, 26)
      /\ Quotient(v, 27) = 2 * Quotient(v, 28) + Digit(v, 27)
      /\ Quotient(v, 28) = 2 * Quotient(v, 29) + Digit(v, 28)
      /\ Quotient(v, 29) = 2 * Quotient(v, 30) + Digit(v, 29)
      /\ Quotient(v, 30) = 2 * Quotient(v, 31) + Digit(v, 30)
      /\ Quotient(v, 31) = 2 * Quotient(v, 32) + Digit(v, 31)
  BY SMT DEF Quotient, Digit, Bit
<1>6. /\ Quotient(v, 0) \in Int /\ Quotient(v, 1) \in Int /\ Quotient(v, 2) \in Int
      /\ Quotient(v, 3) \in Int /\ Quotient(v, 4) \in Int /\ Quotient(v, 5) \in Int
      /\ Quotient(v, 6) \in Int /\ Quotient(v, 7) \in Int /\ Quotient(v, 8) \in Int
      /\ Quotient(v, 9) \in Int /\ Quotient(v, 10) \in Int /\ Quotient(v, 11) \in Int
      /\ Quotient(v, 12) \in Int /\ Quotient(v, 13) \in Int /\ Quotient(v, 14) \in Int
      /\ Quotient(v, 15) \in Int /\ Quotient(v, 16) \in Int /\ Quotient(v, 17) \in Int
      /\ Quotient(v, 18) \in Int /\ Quotient(v, 19) \in Int /\ Quotient(v, 20) \in Int
      /\ Quotient(v, 21) \in Int /\ Quotient(v, 22) \in Int /\ Quotient(v, 23) \in Int
      /\ Quotient(v, 24) \in Int /\ Quotient(v, 25) \in Int /\ Quotient(v, 26) \in Int
      /\ Quotient(v, 27) \in Int /\ Quotient(v, 28) \in Int /\ Quotient(v, 29) \in Int
      /\ Quotient(v, 30) \in Int /\ Quotient(v, 31) \in Int /\ Quotient(v, 32) \in Int
  BY SMT DEF Quotient
<1>7. \A b : Digit(v, b) \in Int
  BY DigitInt
<1> QED
  BY <1>3, <1>4, <1>5, <1>6, <1>7, SMT DEF Halves

LEMMA BytesOf ==
  ASSUME NEW v \in Nat, v < 1073741824
  PROVE  v = ByteOf(v, 0) + 256 * ByteOf(v, 8) + 65536 * (ByteOf(v, 16) + 256 * ByteOf(v, 24))
<1>1. Quotient(v, 0) = v /\ Quotient(v, 32) = 0
      /\ Quotient(v, 8) \in Int /\ Quotient(v, 16) \in Int /\ Quotient(v, 24) \in Int
  BY SMT DEF Quotient
<1>2. \A lo \in {0, 8, 16, 24} : Quotient(v, lo) = 256 * Quotient(v, lo + 8) + ByteOf(v, lo)
  BY BitSteps, EightHalves, SMT
<1>3. ByteOf(v, 0) \in Int /\ ByteOf(v, 8) \in Int /\ ByteOf(v, 16) \in Int /\ ByteOf(v, 24) \in Int
  BY ByteOfInt
<1> QED
  BY <1>1, <1>2, <1>3, SMT

LEMMA ShortOf ==
  ASSUME NEW v \in Nat, v < 65536
  PROVE  v = ByteOf(v, 0) + 256 * ByteOf(v, 8)
<1>1. Quotient(v, 0) = v /\ Quotient(v, 16) = 0 /\ Quotient(v, 8) \in Int
  BY SMT DEF Quotient
<1>2. \A lo \in {0, 8} : Quotient(v, lo) = 256 * Quotient(v, lo + 8) + ByteOf(v, lo)
  BY BitSteps, EightHalves, SMT
<1>3. ByteOf(v, 0) \in Int /\ ByteOf(v, 8) \in Int
  BY ByteOfInt
<1> QED
  BY <1>1, <1>2, <1>3, SMT

-----------------------------------------------------------------------------
(* Numbers written to a file and read back *)

LEMMA PackedByte ==
  ASSUME NEW v \in Nat, v < 1073741824, NEW lo \in {0, 8, 16, 24}
  PROVE  byte_value(slice(bits32(v), lo, lo + 7, 0)) = ByteOf(v, lo)
<1> DEFINE S == slice(bits32(v), lo, lo + 7, 0)
<1>1. ~Bit(v, 30) /\ ~Bit(v, 31)
  BY SMT DEF Bit
<1>2. ASSUME NEW b \in Nat, b <= 7 PROVE b \in S <=> Bit(v, lo + b)
  <2>1. lo \in Nat /\ lo + 7 \in Nat /\ b \in Int /\ 0 \in Nat
    BY SMT
  <2>2. b \in S <=> 0 <= b /\ b <= 0 + (lo + 7) - lo /\ b - 0 + lo \in bits32(v)
    BY <2>1, WordSlice
  <2>3. b - 0 + lo = lo + b /\ b <= 0 + (lo + 7) - lo
    BY <1>2, SMT
  <2>4. lo + b \in bits32(v) <=> lo + b \in 0 .. 29 /\ Bit(v, lo + b)
    <3>1. v \in Int /\ ~(v < 0)
      BY SMT
    <3> QED
      BY <3>1, Bits32Member
  <2>5. lo + b \in 0 .. 29 \/ lo + b = 30 \/ lo + b = 31
    BY <1>2, SMT
  <2>6. Bit(v, lo + b) => lo + b \in 0 .. 29
    BY <2>5, <1>1, SMT
  <2> QED
    BY <2>2, <2>3, <2>4, <2>6, SMT
<1> HIDE DEF S
<1>3. /\ (0 \in S <=> Bit(v, lo)) /\ (1 \in S <=> Bit(v, lo + 1))
      /\ (2 \in S <=> Bit(v, lo + 2)) /\ (3 \in S <=> Bit(v, lo + 3))
      /\ (4 \in S <=> Bit(v, lo + 4)) /\ (5 \in S <=> Bit(v, lo + 5))
      /\ (6 \in S <=> Bit(v, lo + 6)) /\ (7 \in S <=> Bit(v, lo + 7))
  <2>1. lo + 0 = lo
    BY SMT
  <2> QED
    BY <1>2, <2>1, SMT
<1>4. byte_value(S) = ByteOf(v, lo)
  BY <1>3, SMT DEF byte_value, ByteOf, Digit
<1> QED
  BY <1>4 DEF S

Byte == SUBSET Int

LEMMA PackType ==
  ASSUME NEW S, NEW size \in Nat
  PROVE  /\ pack(S, size) \in Seq(Byte) /\ Len(pack(S, size)) = size
         /\ \A k \in 1 .. size : pack(S, size)[k] = slice(S, 8 * k - 8, 8 * k - 1, 0)
<1>1. ASSUME NEW k \in 1 .. size PROVE slice(S, 8 * k - 8, 8 * k - 1, 0) \in Byte
  <2>1. 8 * k - 8 \in Int /\ 8 * k - 1 \in Int /\ 0 \in Int
    BY SMT
  <2> QED
    BY <2>1, SliceInts DEF Byte
<1>2. pack(S, size) \in [1 .. size -> Byte]
  BY <1>1 DEF pack
<1>3. pack(S, size) \in Seq(Byte) /\ Len(pack(S, size)) = size
  BY <1>2
<1> QED
  BY <1>3 DEF pack

(* part lies in a file, behind its first at bytes. *)
Sits(file, at, part) == \A k \in 1 .. Len(part) : file[at + k] = part[k]

LEMMA ReadBytes ==
  ASSUME NEW v \in Nat, v < 1073741824, NEW file, NEW at \in Nat, NEW size \in {2, 4},
         Sits(file, at, pack(bits32(v), size))
  PROVE  /\ byte_value(file[at + 1]) = ByteOf(v, 0) /\ byte_value(file[at + 2]) = ByteOf(v, 8)
         /\ size = 4 => /\ byte_value(file[at + 3]) = ByteOf(v, 16)
                        /\ byte_value(file[at + 4]) = ByteOf(v, 24)
<1>1. ASSUME NEW k \in 1 .. 4, k <= size
      PROVE  byte_value(file[at + k]) = ByteOf(v, 8 * k - 8)
  <2>1. size \in Nat /\ k \in 1 .. size
    BY <1>1, SMT
  <2>2. Len(pack(bits32(v), size)) = size
        /\ pack(bits32(v), size)[k] = slice(bits32(v), 8 * k - 8, 8 * k - 1, 0)
    BY <2>1, PackType
  <2>3. file[at + k] = slice(bits32(v), 8 * k - 8, 8 * k - 1, 0)
    BY <2>1, <2>2 DEF Sits
  <2>4. 8 * k - 1 = 8 * k - 8 + 7 /\ 8 * k - 8 \in {0, 8, 16, 24}
    BY SMT
  <2>5. byte_value(slice(bits32(v), 8 * k - 8, 8 * k - 8 + 7, 0)) = ByteOf(v, 8 * k - 8)
    BY <2>4, PackedByte
  <2> QED
    BY <2>3, <2>4, <2>5
<1> QED
  BY <1>1, SMT

LEMMA ReadLong ==
  ASSUME NEW v \in Nat, v < 1073741824, NEW file, NEW at \in Nat,
         Sits(file, at, pack(bits32(v), 4))
  PROVE  long(file, at) = v
<1>1. /\ byte_value(file[at + 1]) = ByteOf(v, 0) /\ byte_value(file[at + 2]) = ByteOf(v, 8)
      /\ byte_value(file[at + 3]) = ByteOf(v, 16) /\ byte_value(file[at + 4]) = ByteOf(v, 24)
  BY ReadBytes, SMT
<1>2. at + 2 + 1 = at + 3 /\ at + 2 + 2 = at + 4
  BY SMT
<1>3. long(file, at) = ByteOf(v, 0) + 256 * ByteOf(v, 8)
                         + 65536 * (ByteOf(v, 16) + 256 * ByteOf(v, 24))
  BY <1>1, <1>2 DEF long, half
<1> QED
  BY <1>3, BytesOf

LEMMA ReadHalf ==
  ASSUME NEW v \in Nat, v < 65536, NEW file, NEW at \in Nat,
         Sits(file, at, pack(bits32(v), 2))
  PROVE  half(file, at) = v
<1>1. v < 1073741824
  BY SMT
<1>2. byte_value(file[at + 1]) = ByteOf(v, 0) /\ byte_value(file[at + 2]) = ByteOf(v, 8)
  BY <1>1, ReadBytes, SMT
<1> QED
  BY <1>2, ShortOf DEF half

-----------------------------------------------------------------------------
(* Parts of a file *)

LEMMA SitsRight ==
  ASSUME NEW s \in Seq(Byte), NEW t \in Seq(Byte)
  PROVE  Sits(s \o t, Len(s), t) /\ s \o t \in Seq(Byte) /\ Len(s \o t) = Len(s) + Len(t)
<1>1. Concatenated(s \o t, s, t, Byte)
  BY Concat
<1> QED
  BY <1>1, Zenon DEF Concatenated, Sits

LEMMA SitsLeft ==
  ASSUME NEW s \in Seq(Byte), NEW t \in Seq(Byte), NEW part \in Seq(Byte), NEW at \in Nat,
         Sits(s, at, part), at + Len(part) <= Len(s)
  PROVE  Sits(s \o t, at, part)
<1>1. \A k \in 1 .. Len(s) : (s \o t)[k] = s[k]
  BY Concat, Zenon DEF Concatenated
<1>2. \A k \in 1 .. Len(part) : at + k \in 1 .. Len(s)
  OBVIOUS
<1> QED
  BY <1>1, <1>2, Zenon DEF Sits

LEMMA SitsInside ==
  ASSUME NEW file, NEW mid \in Seq(Byte), NEW part \in Seq(Byte), NEW a \in Nat, NEW b \in Nat,
         Sits(file, a, mid), Sits(mid, b, part), b + Len(part) <= Len(mid)
  PROVE  Sits(file, a + b, part)
<1>1. ASSUME NEW k \in 1 .. Len(part) PROVE file[a + b + k] = part[k]
  <2>1. b + k \in 1 .. Len(mid) /\ a + b + k = a + (b + k)
    OBVIOUS
  <2>2. file[a + (b + k)] = mid[b + k] /\ mid[b + k] = part[k]
    BY <2>1 DEF Sits
  <2> QED
    BY <2>1, <2>2
<1> QED
  BY <1>1 DEF Sits

Chunk(s, n) == s \in Seq(Byte) /\ Len(s) = n

LEMMA ChunkJoin ==
  ASSUME NEW s, NEW t, NEW m, NEW n, NEW k, Chunk(s, m), Chunk(t, n), k = m + n
  PROVE  Chunk(s \o t, k) /\ Sits(s \o t, m, t)
BY SitsRight DEF Chunk

LEMMA ChunkLeft ==
  ASSUME NEW s, NEW t, NEW part, NEW m, NEW n, NEW k, NEW at \in Nat,
         Chunk(s, m), Chunk(t, n), Chunk(part, k), Sits(s, at, part), at + k <= m
  PROVE  Sits(s \o t, at, part)
BY SitsLeft DEF Chunk

LEMMA ChunkInside ==
  ASSUME NEW file, NEW mid, NEW part, NEW m, NEW k, NEW a \in Nat, NEW b \in Nat,
         Chunk(mid, m), Chunk(part, k), Sits(file, a, mid), Sits(mid, b, part), b + k <= m
  PROVE  Sits(file, a + b, part)
BY SitsInside DEF Chunk

LEMMA PackChunk ==
  ASSUME NEW S, NEW size \in Nat
  PROVE  Chunk(pack(S, size), size)
BY PackType DEF Chunk

(* The pieces of a join of packed words. *)
LEMMA PackedPieces ==
  ASSUME NEW words, Len(words) \in Nat, DOMAIN words = 1 .. Len(words), NEW size \in Nat
  PROVE  LET pieces == [k \in DOMAIN words |-> pack(words[k], size)]
         IN /\ Chunk(FlattenSeq(pieces), size * Len(words))
            /\ \A j \in 1 .. Len(words) :
                 Sits(FlattenSeq(pieces), size * (j - 1), pack(words[j], size))
<1> DEFINE pieces == [k \in DOMAIN words |-> pack(words[k], size)]
<1>1. \A k \in 1 .. Len(words) : /\ pieces[k] = pack(words[k], size)
                                 /\ pieces[k] \in Seq(Byte) /\ Len(pieces[k]) = size
  BY PackType
<1>2. pieces \in [1 .. Len(words) -> Seq(Byte)]
  BY PackType
<1>3. pieces \in Seq(Seq(Byte)) /\ Len(pieces) = Len(words)
  BY <1>2
<1>4. Len(pieces) = 0 => pieces = <<>>
  BY <1>3
<1> HIDE DEF pieces
<1>5. Joined(FlattenSeq(pieces), Byte, pieces, size, Len(pieces))
  <2>1. Len(pieces) \in Nat
    BY <1>3
  <2>2. \A j \in 1 .. Len(pieces) : pieces[j] \in Seq(Byte) /\ Len(pieces[j]) = size
    BY <1>1, <1>3, Zenon
  <2> QED
    BY <1>4, <2>1, <2>2, FlattenPieces, Zenon
<1>6. Chunk(FlattenSeq(pieces), size * Len(words))
  BY <1>3, <1>5, Zenon DEF Chunk, Joined
<1>7. ASSUME NEW j \in 1 .. Len(words)
      PROVE  Sits(FlattenSeq(pieces), size * (j - 1), pack(words[j], size))
  <2>1. \A k \in 1 .. size : FlattenSeq(pieces)[size * (j - 1) + k] = pieces[j][k]
    BY <1>3, <1>5, Zenon DEF Joined
  <2>2. Len(pack(words[j], size)) = size /\ pieces[j] = pack(words[j], size)
    BY <1>1, PackType, Zenon
  <2> QED
    BY <2>1, <2>2, Zenon DEF Sits
<1> QED
  BY <1>6, <1>7, Zenon DEF pieces

LEMMA PackAll ==
  ASSUME NEW numbers, Len(numbers) \in Nat, DOMAIN numbers = 1 .. Len(numbers), NEW size \in Nat
  PROVE  /\ Chunk(pack_all(numbers, size), size * Len(numbers))
         /\ \A j \in 1 .. Len(numbers) :
              Sits(pack_all(numbers, size), size * (j - 1), pack(bits32(numbers[j]), size))
<1> DEFINE words == [k \in DOMAIN numbers |-> bits32(numbers[k])]
           pieces == [k \in DOMAIN words |-> pack(words[k], size)]
           packed == [k \in DOMAIN numbers |-> pack(bits32(numbers[k]), size)]
<1>1. words \in Seq({bits32(numbers[k]) : k \in DOMAIN numbers}) /\ Len(words) = Len(numbers)
      /\ DOMAIN words = 1 .. Len(words) /\ \A k \in 1 .. Len(numbers) : words[k] = bits32(numbers[k])
  OBVIOUS
<1>2. pieces = packed
  BY Zenon
<1>3. pack_all(numbers, size) = FlattenSeq(packed)
  BY Zenon DEF pack_all
<1> HIDE DEF words, packed
<1>4. /\ Chunk(FlattenSeq(pieces), size * Len(words))
      /\ \A j \in 1 .. Len(words) : Sits(FlattenSeq(pieces), size * (j - 1), pack(words[j], size))
  BY <1>1, PackedPieces, Zenon
<1> HIDE DEF pieces
<1> QED
  BY <1>1, <1>2, <1>3, <1>4, Zenon

-----------------------------------------------------------------------------
(* The layout build_elf32 gives its file *)

Packed(numbers, size, n) ==
  /\ Chunk(pack_all(numbers, size), size * n)
  /\ \A j \in 1 .. n :
       Sits(pack_all(numbers, size), size * (j - 1), pack(bits32(numbers[j]), size))

Numbers(s, n) == Len(s) = n /\ DOMAIN s = 1 .. n

LEMMA PackTuple ==
  ASSUME NEW numbers, NEW n \in Nat, Numbers(numbers, n), NEW size \in Nat
  PROVE  Packed(numbers, size, n)
<1>1. Len(numbers) \in Nat /\ DOMAIN numbers = 1 .. Len(numbers) /\ Len(numbers) = n
  BY DEF Numbers
<1> QED
  BY <1>1, PackAll DEF Packed

LEMMA EhdrLayout ==
  ASSUME NEW code
  PROVE  /\ Chunk(ehdr(code), 52)
         /\ Sits(ehdr(code), 28, pack(bits32(52), 4))
         /\ Sits(ehdr(code), 32, pack(bits32(shoff(code)), 4))
         /\ Sits(ehdr(code), 48, pack(bits32(2), 2))
         /\ Sits(ehdr(code), 50, pack(bits32(1), 2))
<1> DEFINE n1 == <<127, 69, 76, 70>>
           n2 == <<1, 1, 1, 0>>
           n4 == <<2, 243>>
           n5 == <<1>>
           n7 == <<EHDR_SIZE, shoff(code), 0>>
           n8 == <<EHDR_SIZE, PHDR_SIZE, 1, SHDR_SIZE, 2, 1>>
           p1 == pack_all(n1, 1)
           p2 == pack_all(n2, 1)
           p3 == pack({}, 8)
           p4 == pack_all(n4, 2)
           p5 == pack_all(n5, 4)
           p6 == pack(ENTRY_ADDR, 4)
           p7 == pack_all(n7, 4)
           p8 == pack_all(n8, 2)
           before == p1 \o p2 \o p3 \o p4 \o p5 \o p6
<1>1. ehdr(code) = before \o p7 \o p8
  BY Zenon DEF ehdr, ELF_MAGIC
<1>2. /\ Numbers(n1, 4) /\ Numbers(n2, 4) /\ Numbers(n4, 2) /\ Numbers(n5, 1)
      /\ Numbers(n7, 3) /\ Numbers(n8, 6)
      /\ n7[1] = 52 /\ n7[2] = shoff(code) /\ n8[5] = 2 /\ n8[6] = 1
  BY SMT DEF Numbers, EHDR_SIZE
<1> HIDE DEF n1, n2, n4, n5, n7, n8
<1>3. /\ Packed(n1, 1, 4) /\ Packed(n2, 1, 4) /\ Packed(n4, 2, 2) /\ Packed(n5, 4, 1)
      /\ Packed(n7, 4, 3) /\ Packed(n8, 2, 6)
  BY <1>2, PackTuple
<1>4. /\ Chunk(p1, 4) /\ Chunk(p2, 4) /\ Chunk(p3, 8) /\ Chunk(p4, 4) /\ Chunk(p5, 4)
      /\ Chunk(p6, 4)
  BY <1>3, PackChunk, SMT DEF Packed
<1>6. Chunk(p7, 12) /\ Chunk(p8, 12)
      /\ Sits(p7, 0, pack(bits32(52), 4)) /\ Sits(p7, 4, pack(bits32(shoff(code)), 4))
      /\ Sits(p8, 8, pack(bits32(2), 2)) /\ Sits(p8, 10, pack(bits32(1), 2))
  BY <1>2, <1>3, SMT DEF Packed
<1> HIDE DEF p1, p2, p3, p4, p5, p6, p7, p8
<1>5. Chunk(before, 28)
  <2> DEFINE j2 == p1 \o p2
             j3 == j2 \o p3
             j4 == j3 \o p4
             j5 == j4 \o p5
  <2>1. 8 = 4 + 4 /\ 16 = 8 + 8 /\ 20 = 16 + 4 /\ 24 = 20 + 4 /\ 28 = 24 + 4
    BY SMT
  <2>2. Chunk(j2, 8)
    BY <1>4, <2>1, ChunkJoin, Zenon
  <2> HIDE DEF j2
  <2>3. Chunk(j3, 16)
    BY <1>4, <2>1, <2>2, ChunkJoin, Zenon
  <2> HIDE DEF j3
  <2>4. Chunk(j4, 20)
    BY <1>4, <2>1, <2>3, ChunkJoin, Zenon
  <2> HIDE DEF j4
  <2>5. Chunk(j5, 24)
    BY <1>4, <2>1, <2>4, ChunkJoin, Zenon
  <2> HIDE DEF j5
  <2>6. Chunk(j5 \o p6, 28)
    BY <1>4, <2>1, <2>5, ChunkJoin, Zenon
  <2> QED
    BY <2>6 DEF j2, j3, j4, j5
<1> HIDE DEF before
<1>7. /\ Chunk(pack(bits32(52), 4), 4) /\ Chunk(pack(bits32(shoff(code)), 4), 4)
      /\ Chunk(pack(bits32(2), 2), 2) /\ Chunk(pack(bits32(1), 2), 2)
  BY PackChunk, SMT
<1>8. Chunk(before \o p7, 40) /\ Sits(before \o p7, 28, p7)
  BY <1>5, <1>6, ChunkJoin, SMT
<1>9. Chunk(before \o p7 \o p8, 52) /\ Sits(before \o p7 \o p8, 40, p8)
  BY <1>6, <1>8, ChunkJoin, SMT
<1>10. Sits(before \o p7, 28, pack(bits32(52), 4))
       /\ Sits(before \o p7, 32, pack(bits32(shoff(code)), 4))
  BY <1>6, <1>7, <1>8, ChunkInside, SMT
<1>11. Sits(before \o p7 \o p8, 28, pack(bits32(52), 4))
       /\ Sits(before \o p7 \o p8, 32, pack(bits32(shoff(code)), 4))
  BY <1>6, <1>7, <1>8, <1>10, ChunkLeft, SMT
<1>12. Sits(before \o p7 \o p8, 48, pack(bits32(2), 2))
       /\ Sits(before \o p7 \o p8, 50, pack(bits32(1), 2))
  BY <1>6, <1>7, <1>9, ChunkInside, SMT
<1> QED
  BY <1>1, <1>9, <1>11, <1>12, Zenon

LEMMA PhdrLayout ==
  ASSUME NEW code
  PROVE  /\ Chunk(phdr(code), 32)
         /\ Sits(phdr(code), 4, pack(bits32(84), 4))
         /\ Sits(phdr(code), 16, pack(bits32(Len(code)), 4))
<1> DEFINE n1 == <<1, code_offset>>
           n4 == <<Len(code), Len(code), 5, 4096>>
           p1 == pack_all(n1, 4)
           p2 == pack(ENTRY_ADDR, 4)
           p4 == pack_all(n4, 4)
           before == p1 \o p2 \o p2
<1>1. phdr(code) = before \o p4
  BY Zenon DEF phdr
<1>2. /\ Numbers(n1, 2) /\ Numbers(n4, 4) /\ n1[2] = 84 /\ n4[1] = Len(code)
  BY SMT DEF Numbers, code_offset, EHDR_SIZE, PHDR_SIZE
<1> HIDE DEF n1, n4
<1>3. Packed(n1, 4, 2) /\ Packed(n4, 4, 4)
  BY <1>2, PackTuple
<1>4. /\ Chunk(p1, 8) /\ Chunk(p2, 4) /\ Chunk(p4, 16)
      /\ Sits(p1, 4, pack(bits32(84), 4)) /\ Sits(p4, 0, pack(bits32(Len(code)), 4))
  BY <1>2, <1>3, PackChunk, SMT DEF Packed
<1>5. Chunk(pack(bits32(84), 4), 4) /\ Chunk(pack(bits32(Len(code)), 4), 4)
  BY PackChunk, SMT
<1>6. /\ 12 = 8 + 4 /\ 16 = 12 + 4 /\ 32 = 16 + 16 /\ 4 + 4 <= 8 /\ 4 + 4 <= 12 /\ 4 + 4 <= 16
      /\ 0 + 4 <= 16 /\ 16 + 0 = 16 /\ 0 \in Nat /\ 4 \in Nat /\ 16 \in Nat
  BY SMT
<1> HIDE DEF p1, p2, p4
<1>7. Chunk(p1 \o p2, 12) /\ Sits(p1 \o p2, 4, pack(bits32(84), 4))
  BY <1>4, <1>5, <1>6, ChunkJoin, ChunkLeft, Zenon
<1>8. Chunk(before, 16) /\ Sits(before, 4, pack(bits32(84), 4))
  <2> DEFINE j2 == p1 \o p2
  <2> HIDE DEF j2
  <2>1. Chunk(j2, 12) /\ Sits(j2, 4, pack(bits32(84), 4))
    BY <1>7 DEF j2
  <2>2. Chunk(j2 \o p2, 16) /\ Sits(j2 \o p2, 4, pack(bits32(84), 4))
    BY <1>4, <1>5, <1>6, <2>1, ChunkJoin, ChunkLeft, Zenon
  <2> QED
    BY <2>2 DEF j2
<1> HIDE DEF before
<1>9. Chunk(before \o p4, 32) /\ Sits(before \o p4, 16, p4)
      /\ Sits(before \o p4, 4, pack(bits32(84), 4))
  BY <1>4, <1>5, <1>6, <1>8, ChunkJoin, ChunkLeft, Zenon
<1>10. Sits(before \o p4, 16 + 0, pack(bits32(Len(code)), 4))
  BY <1>4, <1>5, <1>6, <1>9, ChunkInside, Zenon
<1> QED
  BY <1>1, <1>6, <1>9, <1>10, Zenon

LEMMA ShdrLayout ==
  ASSUME NEW code
  PROVE  /\ Chunk(shdr_null, 40) /\ Chunk(shdr_shstrtab(code), 40)
         /\ Chunk(shstrtab_content, 11)
         /\ Sits(shdr_shstrtab(code), 16, pack(bits32(shstrtab_offset(code)), 4))
         /\ Sits(shdr_shstrtab(code), 20, pack(bits32(11), 4))
<1> DEFINE n == <<1, 3, 0, 0, shstrtab_offset(code), Len(shstrtab_content), 0, 0, 1, 0>>
<1>1. shdr_shstrtab(code) = pack_all(n, 4)
  BY Zenon DEF shdr_shstrtab
<1>2. shstrtab_content \in Seq(Byte) /\ Len(shstrtab_content) = 11
  BY SMT DEF shstrtab_content, Byte
<1>3. Numbers(n, 10) /\ n[5] = shstrtab_offset(code) /\ n[6] = 11
  BY <1>2, SMT DEF Numbers
<1> HIDE DEF n
<1>4. Packed(n, 4, 10)
  BY <1>3, PackTuple
<1>5. /\ Chunk(pack_all(n, 4), 40)
      /\ Sits(pack_all(n, 4), 16, pack(bits32(shstrtab_offset(code)), 4))
      /\ Sits(pack_all(n, 4), 20, pack(bits32(11), 4))
  BY <1>3, <1>4, SMT DEF Packed
<1>6. Chunk(shdr_null, 40)
  BY PackChunk, SMT DEF shdr_null, SHDR_SIZE
<1> QED
  BY <1>1, <1>2, <1>5, <1>6, Zenon DEF Chunk

(* What a reader of the file finds: the header fields, and the words. *)
ElfShape(file, words, n) ==
  /\ file \in Seq(Byte) /\ Len(file) = 4 * n + 175
  /\ e_phoff(file) = 52 /\ e_shoff(file) = 4 * n + 95
  /\ e_shnum(file) = 2 /\ e_shstrndx(file) = 1
  /\ long(file, 56) = 84 /\ long(file, 68) = 4 * n
  /\ long(file, 4 * n + 151) = 4 * n + 84 /\ long(file, 4 * n + 155) = 11
  /\ \A j \in 1 .. n : Sits(file, 84 + 4 * (j - 1), pack(words[j], 4))

FitsElf(n) == 4 * n < 1073741000

LEMMA ElfLayout ==
  ASSUME NEW words, NEW n \in Nat, Numbers(words, n), FitsElf(n)
  PROVE  ElfShape(build_elf32(words), words, n)
<1> DEFINE code == FlattenSeq([k \in DOMAIN words |-> pack(words[k], 4)])
           c == 4 * n
           j2 == ehdr(code) \o phdr(code)
           j3 == j2 \o code
           j4 == j3 \o shstrtab_content
           j5 == j4 \o shdr_null
           file == j5 \o shdr_shstrtab(code)
<1>1. Chunk(code, c)
      /\ \A j \in 1 .. n : Sits(code, 4 * (j - 1), pack(words[j], 4))
  <2>1. Len(words) \in Nat /\ DOMAIN words = 1 .. Len(words) /\ Len(words) = n /\ 4 \in Nat
    BY DEF Numbers
  <2> QED
    BY <2>1, PackedPieces, Zenon
<1>2. build_elf32(words) = file
  BY Zenon DEF build_elf32
<1> HIDE DEF code
<1>3. Len(code) = c /\ c \in Nat
  BY <1>1, SMT DEF Chunk
<1>4. /\ Chunk(ehdr(code), 52) /\ Chunk(phdr(code), 32) /\ Chunk(shstrtab_content, 11)
      /\ Chunk(shdr_null, 40) /\ Chunk(shdr_shstrtab(code), 40)
  BY EhdrLayout, PhdrLayout, ShdrLayout
<1>5. c < 1073741000
  BY SMT DEF FitsElf
<1>6. shstrtab_offset(code) = c + 84 /\ shoff(code) = c + 95
  <2>1. Len(shstrtab_content) = 11
    BY <1>4 DEF Chunk
  <2> QED
    BY <1>3, <2>1, SMT DEF shstrtab_offset, shoff, code_offset, EHDR_SIZE, PHDR_SIZE
<1> HIDE DEF c
<1>7. PICK l3 \in Nat : l3 = 84 + c
  BY <1>3, SMT
<1>8. PICK l4 \in Nat : l4 = l3 + 11
  BY SMT
<1>9. PICK l5 \in Nat : l5 = l4 + 40
  BY SMT
<1>10. PICK l6 \in Nat : l6 = l5 + 40
  BY SMT
<1>11. 84 = 52 + 32 /\ 0 \in Nat /\ 52 \in Nat /\ 84 \in Nat
  BY SMT
<1>12. l4 = c + 95 /\ l5 = c + 135 /\ l6 = c + 175
  BY <1>3, <1>7, <1>8, <1>9, <1>10, SMT
<1>13. /\ 0 + 52 <= l3 /\ 52 + 32 <= l3 /\ 84 + c <= l3
       /\ 0 + 52 <= l4 /\ 52 + 32 <= l4 /\ 84 + c <= l4
       /\ 0 + 52 <= l5 /\ 52 + 32 <= l5 /\ 84 + c <= l5
  BY <1>3, <1>7, <1>12, SMT
<1>14. Chunk(j2, 84) /\ Sits(j2, 52, phdr(code))
  BY <1>4, <1>11, ChunkJoin, Zenon
<1>15. Sits(j2, 0, ehdr(code))
  <2>1. Sits(ehdr(code), 0, ehdr(code))
    BY <1>4, SMT DEF Sits, Chunk
  <2>2. 0 + 52 <= 52
    BY SMT
  <2> QED
    BY <1>4, <1>11, <2>1, <2>2, ChunkLeft, Zenon
<1> HIDE DEF j2
<1>16. Chunk(j3, l3) /\ Sits(j3, 84, code)
  BY <1>1, <1>14, <1>7, ChunkJoin, Zenon
<1>17. Sits(j3, 0, ehdr(code)) /\ Sits(j3, 52, phdr(code))
  <2>1. 0 + 52 <= 84 /\ 52 + 32 <= 84
    BY SMT
  <2> QED
    BY <1>1, <1>4, <1>11, <1>14, <1>15, <2>1, ChunkLeft, Zenon
<1> HIDE DEF j3
<1>18. Chunk(j4, l4)
  BY <1>4, <1>16, <1>8, ChunkJoin, Zenon
<1>19. Sits(j4, 0, ehdr(code)) /\ Sits(j4, 52, phdr(code)) /\ Sits(j4, 84, code)
  BY <1>1, <1>4, <1>11, <1>16, <1>17, <1>13, ChunkLeft, Zenon
<1> HIDE DEF j4
<1>20. Chunk(j5, l5)
  BY <1>4, <1>18, <1>9, ChunkJoin, Zenon
<1>21. Sits(j5, 0, ehdr(code)) /\ Sits(j5, 52, phdr(code)) /\ Sits(j5, 84, code)
  BY <1>1, <1>4, <1>11, <1>18, <1>19, <1>13, ChunkLeft, Zenon
<1> HIDE DEF j5
<1>22. Chunk(file, l6) /\ Sits(file, l5, shdr_shstrtab(code))
  BY <1>4, <1>20, <1>10, ChunkJoin, Zenon
<1>23. Sits(file, 0, ehdr(code)) /\ Sits(file, 52, phdr(code)) /\ Sits(file, 84, code)
  BY <1>1, <1>4, <1>11, <1>20, <1>21, <1>13, ChunkLeft, Zenon
<1> HIDE DEF file
<1>24. /\ Sits(file, 28, pack(bits32(52), 4)) /\ Sits(file, 32, pack(bits32(c + 95), 4))
       /\ Sits(file, 48, pack(bits32(2), 2)) /\ Sits(file, 50, pack(bits32(1), 2))
       /\ Sits(file, 56, pack(bits32(84), 4)) /\ Sits(file, 68, pack(bits32(c), 4))
       /\ Sits(file, c + 151, pack(bits32(c + 84), 4)) /\ Sits(file, c + 155, pack(bits32(11), 4))
  <2>1. \A S : Chunk(pack(S, 4), 4) /\ Chunk(pack(S, 2), 2)
    BY PackChunk, SMT
  <2>2. /\ Sits(ehdr(code), 28, pack(bits32(52), 4))
        /\ Sits(ehdr(code), 32, pack(bits32(c + 95), 4))
        /\ Sits(ehdr(code), 48, pack(bits32(2), 2))
        /\ Sits(ehdr(code), 50, pack(bits32(1), 2))
    BY <1>6, EhdrLayout
  <2>3. /\ Sits(phdr(code), 4, pack(bits32(84), 4)) /\ Sits(phdr(code), 16, pack(bits32(c), 4))
    BY <1>3, PhdrLayout
  <2>4. /\ Sits(shdr_shstrtab(code), 16, pack(bits32(c + 84), 4))
        /\ Sits(shdr_shstrtab(code), 20, pack(bits32(11), 4))
    BY <1>6, ShdrLayout
  <2>5. Sits(file, 28, pack(bits32(52), 4)) /\ Sits(file, 32, pack(bits32(c + 95), 4))
    BY <1>4, <1>23, <2>1, <2>2, ChunkInside, SMT
  <2>6. Sits(file, 48, pack(bits32(2), 2)) /\ Sits(file, 50, pack(bits32(1), 2))
    BY <1>4, <1>23, <2>1, <2>2, ChunkInside, SMT
  <2>7. Sits(file, 56, pack(bits32(84), 4)) /\ Sits(file, 68, pack(bits32(c), 4))
    BY <1>4, <1>23, <2>1, <2>3, ChunkInside, SMT
  <2>8. Sits(file, l5 + 16, pack(bits32(c + 84), 4))
        /\ Sits(file, l5 + 20, pack(bits32(11), 4))
    BY <1>4, <1>22, <2>1, <2>4, ChunkInside, SMT
  <2>9. l5 + 16 = c + 151 /\ l5 + 20 = c + 155
    BY <1>3, <1>12, SMT
  <2> QED
    BY <2>5, <2>6, <2>7, <2>8, <2>9, SMT
<1>25. /\ long(file, 28) = 52 /\ long(file, 32) = c + 95 /\ long(file, 56) = 84
       /\ long(file, 68) = c /\ long(file, c + 151) = c + 84 /\ long(file, c + 155) = 11
  BY <1>5, <1>3, <1>24, ReadLong, SMT
<1>26. half(file, 48) = 2 /\ half(file, 50) = 1
  BY <1>24, ReadHalf, SMT
<1>27. ASSUME NEW j \in 1 .. n PROVE Sits(file, 84 + 4 * (j - 1), pack(words[j], 4))
  <2>1. Sits(code, 4 * (j - 1), pack(words[j], 4)) /\ Chunk(pack(words[j], 4), 4)
    BY <1>1, PackChunk, SMT
  <2>2. 4 * (j - 1) \in Nat /\ 4 * (j - 1) + 4 <= c
    BY SMT DEF c
  <2> QED
    BY <1>1, <1>23, <2>1, <2>2, ChunkInside, SMT
<1>28. file \in Seq(Byte) /\ Len(file) = c + 175
  BY <1>22, <1>12 DEF Chunk
<1>29. ElfShape(file, words, n)
  BY <1>25, <1>26, <1>27, <1>28, SMT
     DEF ElfShape, c, e_phoff, e_shoff, e_shnum, e_shstrndx
<1> QED
  BY <1>2, <1>29, Zenon

-----------------------------------------------------------------------------
(* Words written byte by byte and put together again *)

LEMMA SliceRange ==
  ASSUME NEW S, NEW lo \in Nat, NEW hi \in Nat, NEW at \in Nat, at + hi - lo <= 31
  PROVE  slice(S, lo, hi, at) \subseteq 0 .. 31
<1>1. ASSUME NEW b \in slice(S, lo, hi, at) PROVE b \in 0 .. 31
  <2>1. b \in Int
    BY WordSliceInts
  <2>2. at <= b /\ b <= at + hi - lo
    BY <2>1, WordSlice
  <2> QED
    BY <2>1, <2>2, SMT
<1> QED
  BY <1>1

LEMMA FieldRange ==
  ASSUME NEW v, NEW w \in Nat, NEW at \in Nat, w > 0, at + w <= 32
  PROVE  field(v, w, at) \subseteq 0 .. 31
<1>1. w - 1 \in Nat /\ 0 \in Nat /\ at + (w - 1) - 0 <= 31
  BY SMT
<1> QED
  BY <1>1, SliceRange DEF field

LEMMA WordRange ==
  ASSUME NEW i, Fits(i)
  PROVE  encode(i) \subseteq 0 .. 31
<1> DEFINE W == 0 .. 31
<1>1. \A v : /\ field(v, 7, 25) \subseteq W /\ field(v, 5, 20) \subseteq W
             /\ field(v, 5, 15) \subseteq W /\ field(v, 3, 12) \subseteq W
             /\ field(v, 5, 7) \subseteq W /\ field(v, 7, 0) \subseteq W
             /\ field(v, 12, 20) \subseteq W /\ field(v, 20, 12) \subseteq W
  BY FieldRange, SMT
<1>2. \A S : /\ slice(S, 5, 11, 25) \subseteq W /\ slice(S, 0, 4, 7) \subseteq W
             /\ slice(S, 12, 12, 31) \subseteq W /\ slice(S, 5, 10, 25) \subseteq W
             /\ slice(S, 1, 4, 8) \subseteq W /\ slice(S, 11, 11, 7) \subseteq W
             /\ slice(S, 20, 20, 31) \subseteq W /\ slice(S, 12, 19, 12) \subseteq W
             /\ slice(S, 11, 11, 20) \subseteq W /\ slice(S, 1, 10, 21) \subseteq W
  BY SliceRange, SMT
<1> HIDE DEF W
<1>3. enc_r(i) \subseteq W /\ enc_i(i) \subseteq W /\ enc_shift(i) \subseteq W
  BY <1>1, SMT DEF enc_r, enc_i, enc_shift
<1>4. enc_s(i) \subseteq W /\ enc_u(i) \subseteq W
  BY <1>1, <1>2, SMT DEF enc_s, enc_u
<1>5. enc_b(i) \subseteq W /\ enc_j(i) \subseteq W
  BY <1>1, <1>2, SMT DEF enc_b, enc_j
<1>6. i.fmt \in {"R", "I", "shift", "S", "B", "U", "J"}
  BY DEF Fits
<1>7. encode(i) \subseteq W
  BY <1>3, <1>4, <1>5, <1>6 DEF encode
<1> QED
  BY <1>7 DEF W

BytesOfWord(byte, w) == \A k \in 1 .. 4 : byte[k] = slice(w, 8 * k - 8, 8 * k - 1, 0)
Assembled(byte) == UNION {slice(byte[k], 0, 7, 8 * k - 8) : k \in 1 .. 4}

LEMMA PutTogether ==
  ASSUME NEW w, w \subseteq 0 .. 31, NEW byte, BytesOfWord(byte, w)
  PROVE  Assembled(byte) = w
<1> DEFINE part(k) == slice(byte[k], 0, 7, 8 * k - 8)
<1>1. ASSUME NEW k \in 1 .. 4, NEW b \in Int
      PROVE  b \in part(k) <=> 8 * k - 8 <= b /\ b <= 8 * k - 1 /\ b \in w
  <2>1. 8 * k - 8 \in Nat /\ 8 * k - 1 \in Nat /\ 0 \in Nat /\ 7 \in Nat
        /\ b - (8 * k - 8) + 0 \in Int /\ b - (8 * k - 8) + 0 - 0 + (8 * k - 8) = b
    BY SMT
  <2>2. b \in part(k) <=> /\ 8 * k - 8 <= b /\ b <= 8 * k - 8 + 7 - 0
                          /\ b - (8 * k - 8) + 0 \in byte[k]
    BY <2>1, WordSlice
  <2>3. b - (8 * k - 8) + 0 \in slice(w, 8 * k - 8, 8 * k - 1, 0) <=>
          /\ 0 <= b - (8 * k - 8) + 0 /\ b - (8 * k - 8) + 0 <= 0 + (8 * k - 1) - (8 * k - 8)
          /\ b - (8 * k - 8) + 0 - 0 + (8 * k - 8) \in w
    BY <2>1, WordSlice
  <2>4. byte[k] = slice(w, 8 * k - 8, 8 * k - 1, 0)
    BY DEF BytesOfWord
  <2> HIDE DEF part
  <2> QED
    BY <2>1, <2>2, <2>3, <2>4, SMT
<1>2. ASSUME NEW k \in 1 .. 4 PROVE part(k) \subseteq Int
  <2>1. 8 * k - 8 \in Nat /\ 0 \in Nat /\ 7 \in Nat
    BY SMT
  <2> QED
    BY <2>1, WordSliceInts
<1>3. ASSUME NEW b \in w PROVE \E k \in 1 .. 4 : b \in part(k)
  <2>1. b \in Int /\ 0 <= b /\ b <= 31
    BY SMT
  <2> HIDE DEF part
  <2>2. CASE b <= 7
    BY <1>1, <2>1, <2>2, SMT
  <2>3. CASE 8 <= b /\ b <= 15
    BY <1>1, <2>1, <2>3, SMT
  <2>4. CASE 16 <= b /\ b <= 23
    BY <1>1, <2>1, <2>4, SMT
  <2>5. CASE 24 <= b
    BY <1>1, <2>1, <2>5, SMT
  <2> QED
    BY <2>1, <2>2, <2>3, <2>4, <2>5, SMT
<1> HIDE DEF part
<1>4. ASSUME NEW b PROVE b \in UNION {part(k) : k \in 1 .. 4} <=> b \in w
  BY <1>1, <1>2, <1>3
<1>5. UNION {part(k) : k \in 1 .. 4} = w
  BY <1>4
<1> QED
  BY <1>5, Zenon DEF part, Assembled

-----------------------------------------------------------------------------
(* From program.elf to Spike's memory, from program.hex to the C++ one *)

ElfInv ==
  /\ step \in {"elf", "done"} => elf = build_elf32(program)
  /\ step = "done" => memory = load_from_file(program) /\ spike_memory = elf_segment(elf)

LEMMA ElfInvStep == FilesInv /\ ElfInv /\ [Next]_vars => ElfInv'
<1> SUFFICES ASSUME FilesInv, ElfInv, [Next]_vars PROVE ElfInv'
  OBVIOUS
<1>1. CASE Emit \/ WriteHex
  BY <1>1 DEF Emit, WriteHex, ElfInv
<1>2. CASE WriteElf
  BY <1>2 DEF WriteElf, ElfInv
<1>3. CASE Load
  <2>1. /\ step = "elf" /\ step' = "done" /\ hex = program /\ elf = build_elf32(program)
        /\ memory' = load_from_file(hex) /\ spike_memory' = elf_segment(elf)
        /\ program' = program /\ elf' = elf
    BY <1>3 DEF Load, FilesInv, ElfInv
  <2> QED
    BY <2>1, Zenon DEF ElfInv
<1>4. CASE Done \/ UNCHANGED vars
  <2>1. UNCHANGED vars
    BY <1>4 DEF Done
  <2>2. /\ step' = step /\ program' = program /\ elf' = elf /\ memory' = memory
        /\ spike_memory' = spike_memory
    BY <2>1 DEF vars
  <2> QED
    BY <2>2, Zenon DEF ElfInv
<1> QED
  BY <1>1, <1>2, <1>3, <1>4 DEF Next

LEMMA ProgramFacts ==
  ASSUME FilesInv
  PROVE  /\ Numbers(program, Len(program)) /\ Len(program) \in Nat
         /\ Len(program) <= MEM_WORDS /\ FitsElf(Len(program))
         /\ \A k \in 1 .. Len(program) : program[k] \subseteq 0 .. 31
<1>1. /\ emitted \in Seq(Instructions) /\ program \in Seq(Words)
      /\ Len(program) = Len(emitted) /\ Len(emitted) <= MAX_WORDS
      /\ \A k \in 1 .. Len(emitted) : program[k] = encode(emitted[k])
  BY DEF FilesInv, EmittedEncoded
<1>2. Numbers(program, Len(program)) /\ Len(program) \in Nat
  BY <1>1 DEF Numbers
<1>3. Len(program) <= MEM_WORDS /\ FitsElf(Len(program))
  BY <1>1, <1>2, FilesAssumption, SMT DEF FitsElf
<1>4. ASSUME NEW k \in 1 .. Len(program) PROVE program[k] \subseteq 0 .. 31
  <2>1. emitted[k] \in Instructions /\ program[k] = encode(emitted[k])
    BY <1>1
  <2>2. Fits(emitted[k])
    BY <2>1, InstructionsAssumption
  <2> QED
    BY <2>1, <2>2, WordRange, Zenon
<1> QED
  BY <1>2, <1>3, <1>4

LEMMA ElfInvSections == FilesInv /\ ElfInv => SectionsInsideFile
<1> SUFFICES ASSUME FilesInv, ElfInv, step \in {"elf", "done"}
             PROVE  LET table == e_shoff(elf)
                        names == table + SHDR_SIZE * e_shstrndx(elf)
                    IN /\ e_shstrndx(elf) < e_shnum(elf)
                       /\ table + SHDR_SIZE * e_shnum(elf) = Len(elf)
                       /\ long(elf, names + 16) >=
                            long(elf, e_phoff(elf) + 4) + long(elf, e_phoff(elf) + 16)
                       /\ long(elf, names + 16) + long(elf, names + 20) <= table
  BY DEF SectionsInsideFile
<1>1. PICK n \in Nat : n = Len(program) /\ ElfShape(elf, program, n)
  BY ProgramFacts, ElfLayout DEF ElfInv
<1>2. /\ Len(elf) = 4 * n + 175 /\ e_phoff(elf) = 52 /\ e_shoff(elf) = 4 * n + 95
      /\ e_shnum(elf) = 2 /\ e_shstrndx(elf) = 1
      /\ long(elf, 56) = 84 /\ long(elf, 68) = 4 * n
      /\ long(elf, 4 * n + 151) = 4 * n + 84 /\ long(elf, 4 * n + 155) = 11
  BY <1>1 DEF ElfShape
<1>3. /\ e_phoff(elf) + 4 = 56 /\ e_phoff(elf) + 16 = 68
      /\ e_shoff(elf) + SHDR_SIZE * e_shstrndx(elf) + 16 = 4 * n + 151
      /\ e_shoff(elf) + SHDR_SIZE * e_shstrndx(elf) + 20 = 4 * n + 155
  BY <1>2, SMT DEF SHDR_SIZE
<1> QED
  BY <1>2, <1>3, SMT DEF SHDR_SIZE

LEMMA ElfInvSame == FilesInv /\ ElfInv => SameProgram
<1> SUFFICES ASSUME FilesInv, ElfInv, step = "done"
             PROVE  /\ Len(spike_memory) = 4 * Len(program)
                    /\ \A k \in 0 .. Len(program) - 1 :
                         /\ instruction_mem[k] = unpack(spike_memory, 4 * k, 4)
                         /\ instruction_mem[k] = fetch_instruction(4 * k)
  BY DEF SameProgram
<1>1. PICK n \in Nat : n = Len(program) /\ ElfShape(elf, program, n)
  BY ProgramFacts, ElfLayout DEF ElfInv
<1>2. /\ Len(elf) = 4 * n + 175 /\ e_phoff(elf) = 52
      /\ long(elf, 56) = 84 /\ long(elf, 68) = 4 * n
      /\ \A j \in 1 .. n : Sits(elf, 84 + 4 * (j - 1), pack(program[j], 4))
  BY <1>1 DEF ElfShape
<1>3. spike_memory = SubSeq(elf, 84 + 1, 84 + 4 * n)
  <2>1. e_phoff(elf) + 4 = 56 /\ e_phoff(elf) + 16 = 68
    BY <1>2, SMT
  <2> QED
    BY <1>2, <2>1 DEF ElfInv, elf_segment
<1>4. elf \in Seq(Byte)
  BY <1>1 DEF ElfShape
<1>5. Len(spike_memory) = 4 * n /\ \A a \in 1 .. 4 * n : spike_memory[a] = elf[84 + a]
  BY <1>2, <1>3, <1>4, SMT
<1>6. ASSUME NEW k \in 0 .. n - 1
      PROVE  /\ instruction_mem[k] = unpack(spike_memory, 4 * k, 4)
             /\ instruction_mem[k] = fetch_instruction(4 * k)
  <2> DEFINE w == program[k + 1]
  <2>1. w \subseteq 0 .. 31 /\ n <= MEM_WORDS
    <3>1. k + 1 \in 1 .. n
      BY SMT
    <3> QED
      BY <1>1, <3>1, ProgramFacts
  <2>2. instruction_mem[k] = w
    <3>1. instruction_mem = readmemh(program)
      BY DEF FilesInv
    <3>2. k \in 0 .. MEM_WORDS - 1 /\ k < Len(program)
      BY <1>1, <2>1, FilesAssumption, SMT
    <3> QED
      BY <3>1, <3>2 DEF readmemh
  <2>3. /\ Len(pack(w, 4)) = 4
        /\ \A b \in 1 .. 4 : pack(w, 4)[b] = slice(w, 8 * b - 8, 8 * b - 1, 0)
    <3> HIDE DEF w
    <3>1. 4 \in Nat
      BY SMT
    <3> QED
      BY <3>1, PackType
  <2> HIDE DEF w
  <2>4. UNION {slice(spike_memory[4 * k + b], 0, 7, 8 * b - 8) : b \in 1 .. 4} = w
    <3> DEFINE byte == [b \in 1 .. 4 |-> spike_memory[4 * k + b]]
    <3>1. ASSUME NEW b \in 1 .. 4
          PROVE  byte[b] = slice(w, 8 * b - 8, 8 * b - 1, 0)
      <4>1. 4 * k + b \in 1 .. 4 * n /\ k + 1 \in 1 .. n /\ 84 + (4 * k + b) = 84 + 4 * (k + 1 - 1) + b
        BY SMT
      <4>2. spike_memory[4 * k + b] = elf[84 + 4 * (k + 1 - 1) + b]
        BY <1>5, <4>1
      <4>3. Sits(elf, 84 + 4 * (k + 1 - 1), pack(w, 4))
        BY <1>2, <4>1 DEF w
      <4> QED
        BY <2>3, <4>2, <4>3 DEF Sits
    <3>2. UNION {slice(spike_memory[4 * k + b], 0, 7, 8 * b - 8) : b \in 1 .. 4} = Assembled(byte)
      BY Zenon DEF Assembled
    <3> HIDE DEF byte
    <3>3. BytesOfWord(byte, w)
      BY <3>1, Zenon DEF BytesOfWord
    <3>4. Assembled(byte) = w
      BY <2>1, <3>3, PutTogether, Zenon
    <3> QED
      BY <3>2, <3>4
  <2>5. UNION {slice(memory[4 * k + b - 1], 0, 7, 8 * b - 8) : b \in 1 .. 4} = w
    <3> DEFINE byte == [b \in 1 .. 4 |-> memory[4 * k + b - 1]]
    <3>1. ASSUME NEW b \in 1 .. 4
          PROVE  byte[b] = slice(w, 8 * b - 8, 8 * b - 1, 0)
      <4>1. memory = load_from_file(program)
        BY DEF ElfInv
      <4>2. /\ 4 * k + b - 1 \in 0 .. 4 * MEM_WORDS - 1
            /\ (4 * k + b - 1) \div 4 = k /\ (4 * k + b - 1) % 4 = b - 1
        BY <2>1, FilesAssumption, SMT
      <4>3. k < Len(program) /\ b - 1 + 1 = b
        BY <1>1, SMT
      <4>4. memory[4 * k + b - 1] = pack(w, 4)[b]
        BY <4>1, <4>2, <4>3 DEF load_from_file, w
      <4> QED
        BY <2>3, <4>4
    <3>2. UNION {slice(memory[4 * k + b - 1], 0, 7, 8 * b - 8) : b \in 1 .. 4} = Assembled(byte)
      BY Zenon DEF Assembled
    <3> HIDE DEF byte
    <3>3. BytesOfWord(byte, w)
      BY <3>1, Zenon DEF BytesOfWord
    <3>4. Assembled(byte) = w
      BY <2>1, <3>3, PutTogether, Zenon
    <3> QED
      BY <3>2, <3>4
  <2>6. unpack(spike_memory, 4 * k, 4) = w
    BY <2>4, Zenon DEF unpack
  <2>7. fetch_instruction(4 * k) = w
    BY <2>5, Zenon DEF fetch_instruction
  <2> QED
    BY <2>2, <2>6, <2>7, Zenon
<1> QED
  BY <1>1, <1>5, <1>6

LEMMA ElfInvInit == Init => ElfInv
BY DEF Init, ElfInv

LEMMA FilesInvariants == Spec => [](FilesInv /\ ElfInv)
<1>1. Init => FilesInv /\ ElfInv
  BY FilesInit, ElfInvInit
<1>2. (FilesInv /\ ElfInv) /\ [Next]_vars => (FilesInv /\ ElfInv)'
  BY FilesStep, ElfInvStep
<1> QED
  BY <1>1, <1>2, PTL DEF Spec

(* The three simulators start from the same program: at every distance     *)
(* from the entry, the word $readmemh puts in instruction_mem, the bytes   *)
(* load_from_file stores and the segment Spike copies out of build_elf32's *)
(* file are the same, whatever the program and its length.                 *)
THEOREM OneProgram == Spec => []SameProgram
<1>1. Spec => [](FilesInv /\ ElfInv)
  BY FilesInvariants
<1> QED
  BY <1>1, ElfInvSame, PTL

(* Every offset build_elf32 writes in the ELF header points inside the     *)
(* file: the section table ends it, the section names lie between the      *)
(* code and the table.                                                     *)
THEOREM SectionTable == Spec => []SectionsInsideFile
<1>1. Spec => [](FilesInv /\ ElfInv)
  BY FilesInvariants
<1> QED
  BY <1>1, ElfInvSections, PTL
=============================================================================
