CONSTANTS
  HALF = 32
  NREGS = 4
  IMEM_WORDS = 8
  DMEM_WORDS = 4
  ENTRIES = 4
  BUFFER_DEPTH = 4
  SHIFTS = 8
  Alu <- alu_result
  Progs <- EpilogueOnly
  InitRams <- NoRam
SPECIFICATION FairSpec
PROPERTY EpilogueRecorded
