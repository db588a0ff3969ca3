-------------------------------- MODULE MCSim --------------------------------
(***************************************************************************)
(* Sim with bytes of 4 values, words of 256 and a memory of 32 bytes: up   *)
(* to five words of program, the rest for data.                            *)
(***************************************************************************)
EXTENDS Sim

Asm(op, f3, f7, d, s1, s2, imm) ==
  [opcode |-> op, funct3 |-> f3, funct7 |-> f7,
   rd |-> d, rs1 |-> s1, rs2 |-> s2, imm |-> Wrap(imm)]

(* Each size of store, then each of load, at four consecutive addresses. *)
Accesses ==
  [k \in 1 .. 32 |->
     LET at == 24 + ((k - 1) % 4)
         size == <<0, 1, 2, 0, 1, 2, 4, 5>>[1 + ((k - 1) \div 4)]
     IN IF k <= 12 THEN Asm("STORE", size, 0, 0, 0, 1, at)
                   ELSE Asm("LOAD", size, 0, 2, 0, 0, at)]

MCCode ==
  << (* 1 - 4: a first value for x1 *)
     Asm("OP_IMM", 0, 0, 1, 0, 0, 20), Asm("OP_IMM", 0, 0, 1, 0, 0, -6),
     Asm("AUIPC", 0, 0, 1, 0, 0, 24), Asm("LUI", 0, 0, 1, 0, 0, 192),
     (* 5 - 16: arithmetic *)
     Asm("OP", 0, 32, 2, 0, 1, 0), Asm("OP", 1, 0, 2, 1, 1, 0),
     Asm("OP", 2, 0, 2, 1, 0, 0), Asm("OP", 3, 0, 2, 0, 1, 0),
     Asm("OP", 5, 32, 2, 1, 1, 0), Asm("OP", 5, 0, 2, 1, 1, 0),
     Asm("OP_IMM", 1, 0, 2, 1, 3, 3), Asm("OP_IMM", 5, 32, 2, 1, 2, 2),
     Asm("OP_IMM", 2, 0, 2, 1, 0, -1), Asm("OP_IMM", 4, 0, 2, 1, 0, 15),
     Asm("OP", 6, 0, 2, 1, 2, 0), Asm("OP_IMM", 7, 0, 0, 1, 0, 5),
     (* 17 - 22: words in memory *)
     Asm("STORE", 2, 0, 0, 0, 1, 24), Asm("STORE", 2, 0, 0, 0, 2, 28),
     Asm("LOAD", 2, 0, 2, 0, 0, 24), Asm("LOAD", 2, 0, 1, 0, 0, 0),
     Asm("LOAD", 2, 0, 2, 0, 0, 64), Asm("STORE", 2, 0, 0, 0, 1, 32),
     (* 23 - 33: control flow *)
     Asm("BRANCH", 0, 0, 0, 1, 2, 8), Asm("BRANCH", 1, 0, 0, 1, 0, -4),
     Asm("BRANCH", 4, 0, 0, 1, 0, 8), Asm("BRANCH", 5, 0, 0, 1, 2, 8),
     Asm("BRANCH", 6, 0, 0, 2, 1, -8), Asm("BRANCH", 7, 0, 0, 1, 2, 8),
     Asm("JAL", 0, 0, 1, 0, 0, 8), Asm("JAL", 0, 0, 2, 0, 0, -8),
     Asm("JALR", 0, 0, 1, 1, 0, -7), Asm("BRANCH", 2, 0, 0, 1, 1, 8),
     Asm("FENCE", 0, 0, 0, 0, 0, 0),
     (* 34 - 44: bytes and halfwords, words that are not aligned *)
     Asm("STORE", 0, 0, 0, 0, 1, 31), Asm("STORE", 1, 0, 0, 0, 1, 25),
     Asm("STORE", 2, 0, 0, 0, 1, 22), Asm("LOAD", 0, 0, 2, 0, 0, 24),
     Asm("LOAD", 1, 0, 2, 0, 0, 25), Asm("LOAD", 4, 0, 2, 0, 0, 26),
     Asm("LOAD", 5, 0, 2, 0, 0, 23), Asm("LOAD", 2, 0, 3, 0, 0, 22),
     Asm("LOAD", 3, 0, 2, 0, 0, 24), Asm("STORE", 1, 0, 0, 1, 2, 5),
     Asm("STORE", 3, 0, 0, 0, 1, 24),
     (* 45 - 48: the exit call, loads at the ends of the address space and memory *)
     Asm("OP_IMM", 0, 0, 3, 0, 0, 10), Asm("SYSTEM", 0, 0, 0, 0, 0, 0),
     Asm("LOAD", 0, 0, 2, 0, 0, -1), Asm("LOAD", 4, 0, 2, 0, 0, 31),
     (* 49: a jump to a halfword near the end of memory *)
     Asm("JALR", 0, 0, 0, 0, 0, 30),
     (* 50: a branch to itself *)
     Asm("BRANCH", 0, 0, 0, 0, 0, 0),
     (* 51: a word that begins inside memory and ends outside *)
     Asm("LOAD", 2, 0, 2, 0, 0, 30) >>
  \o Accesses   \* 52 - 83

UnknownWord == 200

(* Words and jumps: what the pipelined core can do as well. *)
WordFiles ==
  {<<a, b, c, d, e>> : a \in 1 .. 4, b \in 5 .. 33, c \in 17 .. 33,
                       d \in {16, 19, 27, 30, 31}, e \in {0, 18, 24, UnknownWord}}

(* Every size of access at every alignment, then the exit call: a store    *)
(* over a store, and a load of what was stored.                            *)
AlignmentFiles ==
  {<<a, b, c, 45, 46, 50>> : a \in 1 .. 4, b \in 52 .. 63, c \in 52 .. 83}

(* The same through registers, at the ends of memory and with sizes that   *)
(* do not exist.                                                           *)
NarrowFiles ==
  {<<a, b, c, 45, 46, 50>> : a \in 1 .. 4, b \in 34 .. 44, c \in 34 .. 44}
  \cup {<<a, 46, b, c>> : a \in 1 .. 4, b \in 34 .. 44, c \in {0, UnknownWord, 33, 47, 48, 49, 51}}

MCHexFiles == WordFiles \cup AlignmentFiles \cup NarrowFiles

WrappedLoad == {<<1, 47, 45, 46>>}
LastByteLoad == {<<1, 34, 48, 45, 46>>}
=============================================================================
