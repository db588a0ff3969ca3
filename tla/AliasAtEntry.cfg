CONSTANTS
  HALF = 32
  NREGS = 4
  IMEM_WORDS = 16
  DMEM_WORDS = 4
  ENTRIES = 4
  BUFFER_DEPTH = 4
  SHIFTS = 8
  Alu <- alu_result
  Progs <- AliasAtEntry
  InitRams <- NoRam
SPECIFICATION FairSpec
INVARIANT FetchFaithful
