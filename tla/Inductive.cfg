CONSTANTS
  HALF = 32
  NREGS = 4
  IMEM_WORDS = 8
  DMEM_WORDS = 15
  ENTRIES = 4
  BUFFER_DEPTH = 4
  SHIFTS = 8
  Alu <- alu_result
  Progs <- MCProgs
  InitRams <- MCInitRams
SPECIFICATION FairSpec
INVARIANTS Hypotheses Inductive
