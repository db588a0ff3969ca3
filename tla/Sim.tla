--------------------------------- MODULE Sim ---------------------------------
(***************************************************************************)
(* src/main.cpp: the C++ simulator as a program, with its loader, its one  *)
(* byte array for instructions and data, and its run loop.  ISA takes the  *)
(* meaning of instructions from decode_and_execute; here that function is  *)
(* modelled with its memory and its pc bookkeeping, and shown to implement *)
(* ISA.                                                                    *)
(*                                                                         *)
(* A word is four bytes of BYTE values.  The bit layout of instructions is *)
(* the subject of Encoding: here a word in memory is the number of an      *)
(* instruction in Code, 0 is the zero word, and any other number is a word *)
(* with an unknown opcode.                                                 *)
(***************************************************************************)
EXTENDS AluUnit, Sequences

CONSTANTS
  BYTE,         \* values of a byte                                    (256)
  Code,         \* the instructions that words stand for
  HexFiles,     \* the files program.hex may be, sequences of words
  A7,           \* the register of the system call number               (17)
  EXIT_CALL     \* the number of the call that exits                    (10)

MEM == 4 * DMEM_WORDS          \* bytes of memory                     (4096)

ASSUME ByteAssumption == BYTE % 2 = 0 /\ BYTE * BYTE * BYTE * BYTE = Modulus
ASSUME SimAssumption ==
  /\ IMEM_WORDS = DMEM_WORDS /\ MEM + 4 < Modulus /\ A7 \in Regs
  /\ Code \in Seq([opcode : Opcodes \cup {"SYSTEM", "FENCE"}, funct3 : 0 .. 7,
                   funct7 : 0 .. 127, rd : Regs, rs1 : Regs, rs2 : Regs, imm : Word])
  /\ HexFiles \subseteq Seq(Word)

VARIABLES
  status,      \* "running", "stopped", or "undefined" after an access
               \* outside the arrays, from which on nothing is known
  pc, registers, memory,
  loaded       \* the words of program.hex; no step changes or uses it

state == <<status, pc, registers, memory>>
vars == <<state, loaded>>

-----------------------------------------------------------------------------
(* memory, byte by byte *)

byte(value, k) == (value \div BYTE ^ k) % BYTE
Inside(address, size) == address + size - 1 < MEM

(* size bytes, least significant first *)
number(mem, at, size) ==
  mem[at] + (IF size > 1 THEN BYTE * mem[at + 1] ELSE 0)
          + (IF size = 4 THEN BYTE ^ 2 * mem[at + 2] + BYTE ^ 3 * mem[at + 3] ELSE 0)

(* A cast to int8_t or int16_t, and back to a word. *)
sign_extended(v, size) == IF 2 * v >= BYTE ^ size THEN Wrap(v - BYTE ^ size) ELSE v

(* Mutant: a halfword's second byte goes two bytes further. *)
stored_halfword_gap(mem, address, size, value) ==
  [a \in DOMAIN mem |->
     IF a = address THEN byte(value, 0)
     ELSE IF size > 1 /\ a = address + 2 THEN byte(value, 1)
     ELSE IF size = 4 /\ address < a /\ a < address + size THEN byte(value, a - address)
     ELSE mem[a]]

stored(mem, address, size, value) ==
  [a \in DOMAIN mem |->
     IF address <= a /\ a < address + size THEN byte(value, a - address) ELSE mem[a]]

fetch_instruction(mem, address) == number(mem, address, 4)

(* Each line is a word, stored at the next address unless memory is full. *)
store_word(mem, address, value) ==
  IF Wrap(address + 3) >= MEM THEN mem ELSE stored(mem, address, 4, value)

load_from_file(words) ==
  LET after[k \in 0 .. Len(words)] ==
        IF k = 0 THEN [a \in 0 .. MEM - 1 |-> 0]
        ELSE store_word(after[k - 1], Wrap(4 * (k - 1)), words[k])
  IN after[Len(words)]

-----------------------------------------------------------------------------
UnknownOpcode == NoInstr
Decode == [word \in Word |-> IF word \in DOMAIN Code THEN Code[word] ELSE UnknownOpcode]

execute_alu(op1, op2, operation) ==
  LET signed(w) == IF Msb(w) THEN w - Modulus ELSE w
  IN CASE operation = "ADD" -> Wrap(op1 + op2)
       [] operation = "SUB" -> Wrap(op1 - op2)
       [] operation = "AND" -> op1 & op2
       [] operation = "OR" -> op1 | op2
       [] operation = "XOR" -> op1 ^^ op2
       [] operation = "SLT" -> IF signed(op1) < signed(op2) THEN 1 ELSE 0
       [] operation = "SLTU" -> IF op1 < op2 THEN 1 ELSE 0
       [] operation = "SLL" -> Wrap(op1 * 2 ^ op2)
       [] operation = "SRL" -> op1 \div 2 ^ op2
       [] operation = "SRA" -> Wrap(signed(op1) \div 2 ^ op2)

instr == Decode[fetch_instruction(memory, pc)]
reg1 == registers[instr.rs1]
reg2 == registers[instr.rs2]
address == Wrap(reg1 + instr.imm)

write_reg(rd, value) ==
  registers' = IF rd = 0 THEN registers ELSE [registers EXCEPT ![rd] = value]

(* What the instruction leaves in pc, and the loop's pc += 4. *)
Then(p) == pc' = Wrap(p + 4)

(* run_sim *)
Fetched ==
  /\ status = "running" /\ pc < MEM
  /\ Inside(pc, 4) /\ fetch_instruction(memory, pc) # 0
Executes(opcode) == Fetched /\ instr.opcode = opcode /\ UNCHANGED status

Stop ==
  /\ status = "running"
  /\ pc >= MEM \/ (Inside(pc, 4) /\ fetch_instruction(memory, pc) = 0)
  /\ status' = "stopped" /\ UNCHANGED <<pc, registers, memory>>

FetchOutside ==
  /\ status = "running" /\ pc < MEM /\ ~Inside(pc, 4)
  /\ status' = "undefined" /\ UNCHANGED <<pc, registers, memory>>

-----------------------------------------------------------------------------
(* decode_and_execute, by opcode *)

OpImm ==
  /\ Executes("OP_IMM")
  /\ LET operation == <<"ADD", "SLL", "SLT", "SLTU", "XOR",
                        IF (instr.funct7 \div 32) % 2 = 1 THEN "SRA" ELSE "SRL",
                        "OR", "AND">>[instr.funct3 + 1]
         op2 == IF instr.funct3 \in {1, 5} THEN instr.rs2 ELSE instr.imm
     IN write_reg(instr.rd, execute_alu(reg1, op2, operation))
  /\ Then(pc) /\ UNCHANGED memory

Op ==
  /\ Executes("OP")
  /\ LET alternative == instr.funct7 = 32
         operation == <<IF alternative THEN "SUB" ELSE "ADD", "SLL", "SLT", "SLTU", "XOR",
                        IF alternative THEN "SRA" ELSE "SRL", "OR", "AND">>[instr.funct3 + 1]
         op2 == IF instr.funct3 \in {1, 5} THEN reg2 % SHIFTS ELSE reg2
     IN write_reg(instr.rd, execute_alu(reg1, op2, operation))
  /\ Then(pc) /\ UNCHANGED memory

store_size == [f \in 0 .. 2 |-> 2 ^ f]

StoreBytes ==
  /\ Executes("STORE") /\ instr.funct3 \in 0 .. 2
  /\ Inside(address, store_size[instr.funct3])
  /\ memory' = stored(memory, address, store_size[instr.funct3], reg2)
  /\ Then(pc) /\ UNCHANGED registers

StoreOutside ==
  /\ Fetched /\ instr.opcode = "STORE" /\ instr.funct3 \in 0 .. 2
  /\ ~Inside(address, store_size[instr.funct3])
  /\ status' = "undefined" /\ UNCHANGED <<pc, registers, memory>>

take_branch ==
  \/ instr.funct3 = 0 /\ reg1 = reg2
  \/ instr.funct3 = 1 /\ reg1 # reg2
  \/ instr.funct3 = 4 /\ execute_alu(reg1, reg2, "SLT") = 1
  \/ instr.funct3 = 5 /\ execute_alu(reg1, reg2, "SLT") = 0
  \/ instr.funct3 = 6 /\ reg1 < reg2
  \/ instr.funct3 = 7 /\ reg1 >= reg2

Branch ==
  /\ Executes("BRANCH")
  /\ Then(IF take_branch THEN Wrap(pc + instr.imm - 4) ELSE pc)
  /\ UNCHANGED <<registers, memory>>

load_size == [f \in {0, 1, 2, 4, 5} |-> 2 ^ (f % 4)]

load_value(mem, at, f) ==
  LET v == number(mem, at, load_size[f])
  IN IF f \in {0, 1} THEN sign_extended(v, load_size[f]) ELSE v

(* Mutant: room for two bytes is asked for. *)
refused_halfword == Wrap(address + 1) >= MEM

refused == Wrap(address + 3) >= MEM

LoadRefused ==
  /\ Executes("LOAD") /\ refused
  /\ Then(pc) /\ UNCHANGED <<registers, memory>>

LoadBytes ==
  /\ Executes("LOAD") /\ ~refused /\ instr.funct3 \in DOMAIN load_size
  /\ Inside(address, load_size[instr.funct3])
  /\ write_reg(instr.rd, load_value(memory, address, instr.funct3))
  /\ Then(pc) /\ UNCHANGED memory

LoadOutside ==
  /\ Fetched /\ instr.opcode = "LOAD" /\ ~refused /\ instr.funct3 \in DOMAIN load_size
  /\ ~Inside(address, load_size[instr.funct3])
  /\ status' = "undefined" /\ UNCHANGED <<pc, registers, memory>>

(* Mutant: the link is written before the target is read. *)
Jalr_link_first ==
  /\ Executes("JALR")
  /\ write_reg(instr.rd, Wrap(pc + 4))
  /\ LET target == Wrap(registers'[instr.rs1] + instr.imm)
     IN Then(Wrap(target - (target % 2) - 4))
  /\ UNCHANGED memory

Jalr ==
  /\ Executes("JALR")
  /\ LET target == Wrap(reg1 + instr.imm)
     IN /\ write_reg(instr.rd, Wrap(pc + 4))
        /\ Then(Wrap(target - (target % 2) - 4))
  /\ UNCHANGED memory

Lui ==
  /\ Executes("LUI") /\ write_reg(instr.rd, instr.imm)
  /\ Then(pc) /\ UNCHANGED memory

Auipc ==
  /\ Executes("AUIPC") /\ write_reg(instr.rd, Wrap(pc + instr.imm))
  /\ Then(pc) /\ UNCHANGED memory

Jal ==
  /\ Executes("JAL") /\ write_reg(instr.rd, Wrap(pc + 4))
  /\ Then(Wrap(pc + instr.imm - 4)) /\ UNCHANGED memory

(* Mutant: the exit call does not move the pc. *)
Ecall_without_jump ==
  /\ Executes("SYSTEM") /\ Then(pc) /\ UNCHANGED <<registers, memory>>

Ecall ==
  /\ Executes("SYSTEM")
  /\ Then(IF registers[A7] = EXIT_CALL THEN MEM ELSE pc)
  /\ UNCHANGED <<registers, memory>>

(* FENCE, unknown opcodes, and loads and stores with an unknown funct3. *)
NoEffect ==
  /\ Fetched /\ UNCHANGED <<status, registers, memory>> /\ Then(pc)
  /\ \/ instr.opcode \in {"FENCE", "NONE"}
     \/ instr.opcode = "STORE" /\ instr.funct3 \notin 0 .. 2
     \/ instr.opcode = "LOAD" /\ ~refused /\ instr.funct3 \notin DOMAIN load_size

decode_and_execute ==
  \/ OpImm \/ Op \/ StoreBytes \/ StoreOutside \/ Branch
  \/ LoadRefused \/ LoadBytes \/ LoadOutside
  \/ Jalr \/ Lui \/ Auipc \/ Jal \/ Ecall \/ NoEffect

Init ==
  /\ status = "running" /\ pc = 0 /\ registers = [r \in Regs |-> 0]
  /\ loaded \in HexFiles /\ memory = load_from_file(loaded)

Next ==
  /\ decode_and_execute \/ Stop \/ FetchOutside
  /\ UNCHANGED loaded

Spec == Init /\ [][Next]_vars

(* The process keeps running. *)
FairSpec == Spec /\ WF_vars(Next)

-----------------------------------------------------------------------------
(* decode_and_execute is the machine ISA describes, with the byte array    *)
(* read as words and the loaded words as its program.  ISA has words only, *)
(* a program that does not change, and no system calls, so a step counts   *)
(* if its word is still the loaded one, it is no SYSTEM instruction, and   *)
(* what it accesses is an aligned word.  The end of the run and an access  *)
(* outside memory change nothing.  FENCE is an unknown opcode in ISA.      *)
Known(i) == IF i.opcode \in Opcodes THEN i ELSE NoInstr

Arch == INSTANCE ISA WITH
  x <- registers,
  dmem <- [w \in 0 .. DMEM_WORDS - 1 |-> fetch_instruction(memory, 4 * w)],
  prog <- [w \in 0 .. IMEM_WORDS - 1 |->
             IF w < Len(loaded) THEN Known(Decode[loaded[w + 1]]) ELSE NoInstr]

Unchanged == pc % 4 = 0 /\ pc \div 4 < Len(loaded)
             /\ fetch_instruction(memory, pc) = loaded[(pc \div 4) + 1]
InISA ==
  Fetched =>
    /\ Unchanged /\ instr.opcode # "SYSTEM"
    /\ instr.opcode \in {"LOAD", "STORE"} => instr.funct3 = 2 /\ address % 4 = 0

SimRefinesISA ==
  Arch!ISAInit /\ [][InISA => Arch!ISANext \/ UNCHANGED Arch!isa_vars]_vars

(* Stores and loads agree on where bytes go: after SB, SH or SW, the load  *)
(* of the same size at that address gives the stored value, cut to that    *)
(* size and sign-extended or not, and no other byte has changed.           *)
StoredIsLoaded ==
  [][StoreBytes =>
       LET f == instr.funct3
           range == BYTE ^ store_size[f]
           signed == load_value(memory', address, f)
           unsigned == IF f = 2 THEN signed ELSE load_value(memory', address, f + 4)
       IN /\ unsigned = reg2 % range
          /\ signed % range = unsigned /\ Wrap(signed + range \div 2) < range
          /\ \A a \in 0 .. MEM - 1 :
               memory'[a] # memory[a] => a - address \in 0 .. store_size[f] - 1]_vars

(* run_sim: once a program makes the exit call, the run stops.  The call   *)
(* itself only leaves a value in pc, which the loop adds 4 to.             *)
ExitCall == Fetched /\ instr.opcode = "SYSTEM" /\ registers[A7] = EXIT_CALL
Stops == ExitCall ~> status = "stopped"

(* decode_and_execute, on "Memory access out of bounds": no load of any    *)
(* size reads outside the array, but for the addresses from which          *)
(* address + 3 wraps round to the start of memory.                         *)
LoadsInside ==
  [][LoadOutside => address + 3 >= Modulus]_vars

(* "Memory access out of bounds": a load is refused if one of its bytes is *)
(* outside memory, and only then.                                          *)
Loading == Fetched /\ instr.opcode = "LOAD" /\ instr.funct3 \in DOMAIN load_size
LoadInside == Inside(address, load_size[instr.funct3])

OutsideRefused == Loading /\ ~LoadInside => refused
InsideAccepted == Loading /\ LoadInside => ~refused
=============================================================================
