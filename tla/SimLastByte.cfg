CONSTANTS
  HALF = 128
  NREGS = 4
  IMEM_WORDS = 8
  DMEM_WORDS = 8
  SHIFTS = 8
  Alu <- alu_result
  BYTE = 4
  A7 = 3
  EXIT_CALL = 10
  Code <- MCCode
  HexFiles <- LastByteLoad
SPECIFICATION Spec
INVARIANT InsideAccepted
CHECK_DEADLOCK FALSE
