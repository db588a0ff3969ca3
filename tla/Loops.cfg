CONSTANTS
  HALF = 32
  NREGS = 4
  IMEM_WORDS = 8
  DMEM_WORDS = 4
  ENTRIES = 4
  BUFFER_DEPTH = 4
  SHIFTS = 8
  TRIPS = {2, 3, 5}
  MAX_BODY = 4
  INDEX_BOUND = 8
  Alu <- alu_result
  Progs <- LoggedPrograms
  InitRams <- NoRam
SPECIFICATION LoggedSpec
INVARIANTS FrozenReadUnused RecordingFaithful MemLineJoined
PROPERTIES RefinesISA Terminates LoopReplayed
