----------------------------- MODULE ProgramFiles -----------------------------
(***************************************************************************)
(* From instructions to the memories of the three simulators: main,        *)
(* build_elf32 and self_check_elf of shared/spike/gen_program.py, the      *)
(* program loaders of rtl/tb_commit_log.sv and src/main.cpp, and the ELF   *)
(* loader Spike uses (external).                                           *)
(*                                                                         *)
(* A byte is a subset of 0 .. 7, as a word is one of 0 .. 31.  A file is   *)
(* a sequence of bytes; program.hex, one word per line, one of words.      *)
(***************************************************************************)
EXTENDS Encoding, SequencesExt

CONSTANTS
  Instructions,   \* the instructions the generator may emit
  MAX_WORDS,      \* longest program
  MEM_WORDS       \* size of the core's and the C++ simulator's memory (1024)

(* The program fits the memories, and an ELF file of it the 30 bits of     *)
(* offset that bits32 takes.                                               *)
ASSUME FilesAssumption ==
  /\ MAX_WORDS \in Nat /\ MEM_WORDS \in Nat /\ MAX_WORDS <= MEM_WORDS
  /\ 4 * MAX_WORDS < 1073741000

(* The registers, function codes and immediates the generator draws fit    *)
(* their fields; branch and jump offsets are even.                         *)
Signed(v, half_range) == -half_range <= v /\ v < half_range

Fits(i) ==
  /\ i.rd \in 0 .. 31 /\ i.rs1 \in 0 .. 31 /\ i.rs2 \in 0 .. 31
  /\ i.funct3 \in 0 .. 7 /\ i.funct7 \in 0 .. 127 /\ i.opcode \in 0 .. 127
  /\ i.imm \in Int
  /\ \/ i.fmt = "R"
     \/ i.fmt = "I" /\ i.opcode \in {19, 3, 103} /\ Signed(i.imm, 2048)
     \/ i.fmt = "shift" /\ i.opcode = 19 /\ i.imm \in 0 .. 31
     \/ i.fmt = "S" /\ i.opcode = 35 /\ Signed(i.imm, 2048)
     \/ i.fmt = "B" /\ i.opcode = 99 /\ Signed(i.imm, 4096) /\ i.imm % 2 = 0
     \/ i.fmt = "U" /\ i.opcode \in {55, 23}
     \/ i.fmt = "J" /\ i.opcode = 111 /\ Signed(i.imm, 1048576) /\ i.imm % 2 = 0

ASSUME InstructionsAssumption == \A i \in Instructions : Fits(i)

VARIABLES
  step,            \* "generate", "hex", "elf", "done"
  emitted,         \* the instructions asked for
  program,         \* their words
  hex, elf,        \* the files
  instruction_mem, \* the core's, by word
  memory,          \* the C++ simulator's, by byte
  spike_memory     \* Spike's, by byte behind the entry address

vars == <<step, emitted, program, hex, elf, instruction_mem, memory, spike_memory>>

-----------------------------------------------------------------------------
encode(i) ==
  CASE i.fmt = "R" -> enc_r(i)         [] i.fmt = "I" -> enc_i(i)
    [] i.fmt = "shift" -> enc_shift(i) [] i.fmt = "S" -> enc_s(i)
    [] i.fmt = "B" -> enc_b(i)         [] i.fmt = "U" -> enc_u(i)
    [] i.fmt = "J" -> enc_j(i)

(* struct.pack and unpack, little-endian.  Offsets count from 0. *)
pack(S, size) == [k \in 1 .. size |-> slice(S, 8 * k - 8, 8 * k - 1, 0)]
unpack(bytes, at, size) == UNION {slice(bytes[at + k], 0, 7, 8 * k - 8) : k \in 1 .. size}
pack_all(numbers, size) == FlattenSeq([k \in DOMAIN numbers |-> pack(bits32(numbers[k]), size)])

ENTRY_ADDR == {31}        \* 0x80000000
EHDR_SIZE == 52
PHDR_SIZE == 32
SHDR_SIZE == 40
ELF_MAGIC == pack_all(<<127, 69, 76, 70>>, 1)
shstrtab_content == [k \in 1 .. 11 |-> {}]     \* its characters do not matter

(* Mutant: the program header is not counted. *)
code_offset_without_phdr == EHDR_SIZE

code_offset == EHDR_SIZE + PHDR_SIZE
shstrtab_offset(code) == code_offset + Len(code)
shoff(code) == shstrtab_offset(code) + Len(shstrtab_content)

ehdr(code) ==
  ELF_MAGIC \o pack_all(<<1, 1, 1, 0>>, 1) \o pack({}, 8)
  \o pack_all(<<2, 243>>, 2) \o pack_all(<<1>>, 4) \o pack(ENTRY_ADDR, 4)
  \o pack_all(<<EHDR_SIZE, shoff(code), 0>>, 4)
  \o pack_all(<<EHDR_SIZE, PHDR_SIZE, 1, SHDR_SIZE, 2, 1>>, 2)

phdr(code) ==
  pack_all(<<1, code_offset>>, 4) \o pack(ENTRY_ADDR, 4) \o pack(ENTRY_ADDR, 4)
  \o pack_all(<<Len(code), Len(code), 5, 4096>>, 4)

shdr_null == pack({}, SHDR_SIZE)
shdr_shstrtab(code) ==
  pack_all(<<1, 3, 0, 0, shstrtab_offset(code), Len(shstrtab_content), 0, 0, 1, 0>>, 4)

build_elf32(words) ==
  LET code == FlattenSeq([k \in DOMAIN words |-> pack(words[k], 4)])
  IN ehdr(code) \o phdr(code) \o code \o shstrtab_content \o shdr_null \o shdr_shstrtab(code)

(* The header fields read back from the file. *)
byte_value(S) ==
  LET bit(b) == IF b \in S THEN 2^b ELSE 0
  IN bit(0) + bit(1) + bit(2) + bit(3) + bit(4) + bit(5) + bit(6) + bit(7)
half(file, at) == byte_value(file[at + 1]) + 256 * byte_value(file[at + 2])
long(file, at) == half(file, at) + 65536 * half(file, at + 2)
e_phoff(file) == long(file, 28)
e_shoff(file) == long(file, 32)
e_shnum(file) == half(file, 48)
e_shstrndx(file) == half(file, 50)

self_check_elf(file) ==
  /\ SubSeq(file, 1, 4) = ELF_MAGIC
  /\ half(file, 16) = 2 /\ half(file, 18) = 243
  /\ long(file, e_phoff(file)) = 1
  /\ unpack(file, e_phoff(file) + 8, 4) = ENTRY_ADDR
  /\ e_shstrndx(file) < e_shnum(file)

-----------------------------------------------------------------------------
Init ==
  /\ step = "generate" /\ emitted = <<>> /\ program = <<>> /\ hex = <<>> /\ elf = <<>>
  /\ instruction_mem = <<>> /\ memory = <<>> /\ spike_memory = <<>>

Emit ==
  /\ step = "generate" /\ Len(program) < MAX_WORDS
  /\ \E i \in Instructions :
       emitted' = Append(emitted, i) /\ program' = Append(program, encode(i))
  /\ UNCHANGED <<step, hex, elf, instruction_mem, memory, spike_memory>>

(* main writes program.hex, then program.elf once its self check passed. *)
WriteHex ==
  /\ step = "generate" /\ program # <<>>
  /\ step' = "hex" /\ hex' = program
  /\ UNCHANGED <<emitted, program, elf, instruction_mem, memory, spike_memory>>

WriteElf ==
  /\ step = "hex" /\ step' = "elf"
  /\ elf' = build_elf32(program) /\ self_check_elf(elf')
  /\ UNCHANGED <<emitted, program, hex, instruction_mem, memory, spike_memory>>

(* The testbench fills instruction_mem with NOPs, then reads program.hex; *)
(* load_from_file stores the same words byte by byte; Spike's loader      *)
(* copies the segment its program header describes.                       *)
NOP == bits32(19)
readmemh(words) ==
  [k \in 0 .. MEM_WORDS - 1 |-> IF k < Len(words) THEN words[k + 1] ELSE NOP]

(* Mutant: the most significant byte comes first. *)
load_from_file_big_endian(words) ==
  [a \in 0 .. 4 * MEM_WORDS - 1 |->
     IF a \div 4 < Len(words) THEN pack(words[(a \div 4) + 1], 4)[4 - (a % 4)] ELSE {}]

(* store_word drops a word that does not fit. *)
load_from_file(words) ==
  [a \in 0 .. 4 * MEM_WORDS - 1 |->
     IF a \div 4 < Len(words) THEN pack(words[(a \div 4) + 1], 4)[(a % 4) + 1] ELSE {}]

elf_segment(file) ==
  LET offset == long(file, e_phoff(file) + 4)
  IN SubSeq(file, offset + 1, offset + long(file, e_phoff(file) + 16))

Load ==
  /\ step = "elf" /\ step' = "done"
  /\ instruction_mem' = readmemh(hex)
  /\ memory' = load_from_file(hex)
  /\ spike_memory' = elf_segment(elf)
  /\ UNCHANGED <<emitted, program, hex, elf>>

(* The only way to stop: a self check that refused would be a deadlock. *)
Done == step = "done" /\ UNCHANGED vars

Next == Emit \/ WriteHex \/ WriteElf \/ Load \/ Done

Spec == Init /\ [][Next]_vars

-----------------------------------------------------------------------------
fetch_instruction(address) ==
  UNION {slice(memory[address + k - 1], 0, 7, 8 * k - 8) : k \in 1 .. 4}

(* gen_program.py, "both forms needed for this comparison": whatever the   *)
(* program, all three simulators fetch the same word at the same distance  *)
(* from their entry.                                                       *)
SameProgram ==
  step = "done" =>
    /\ Len(spike_memory) = 4 * Len(program)
    /\ \A k \in 0 .. Len(program) - 1 :
         /\ instruction_mem[k] = unpack(spike_memory, 4 * k, 4)
         /\ instruction_mem[k] = fetch_instruction(4 * k)

(* What the core and the C++ simulator decode is what the generator meant, *)
(* at the ends of every immediate's range and in every bit.                *)
DecodedAsEmitted ==
  step = "done" => \A k \in DOMAIN emitted :
    LET i == emitted[k]
        w == instruction_mem[k - 1]
    IN /\ i.fmt \in {"R", "I", "shift", "U", "J"} => rd(w) = bits32(i.rd)
       /\ i.fmt \in {"R", "I", "shift", "S", "B"} =>
            rs1(w) = bits32(i.rs1) /\ funct3(w) = bits32(i.funct3)
       /\ i.fmt \in {"R", "S", "B"} => rs2(w) = bits32(i.rs2)
       /\ i.fmt \in {"R", "shift"} => funct7(w) = bits32(i.funct7)
       /\ i.fmt = "shift" => imm_gen(w) \cap (0 .. 4) = bits32(i.imm)
       /\ i.fmt \in {"I", "S", "B", "J"} => imm_gen(w) = bits32(i.imm)
       /\ i.fmt = "U" => imm_gen(w) = field(i.imm, 20, 12)
       /\ i.fmt = "I" => sign_extend_12(slice(w, 20, 31, 0)) = bits32(i.imm)
       /\ i.fmt = "S" => decode_S_imm(w) = bits32(i.imm)
       /\ i.fmt = "B" => decode_B_imm(w) = bits32(i.imm)
       /\ i.fmt = "J" => decode_J_imm(w) = bits32(i.imm)

(* build_elf32, on Spike's assertion: the section table and the names it   *)
(* points to lie inside the file, behind the code.                         *)
SectionsInsideFile ==
  step \in {"elf", "done"} =>
    LET table == e_shoff(elf)
        names == table + SHDR_SIZE * e_shstrndx(elf)
    IN /\ e_shstrndx(elf) < e_shnum(elf)
       /\ table + SHDR_SIZE * e_shnum(elf) = Len(elf)
       /\ long(elf, names + 16) >= long(elf, e_phoff(elf) + 4) + long(elf, e_phoff(elf) + 16)
       /\ long(elf, names + 16) + long(elf, names + 20) <= table
=============================================================================
