CONSTANTS
  Ns = {5}
  NREGS = 4
  WORD = 128
  IMM12 = 16
  LOAD_STORE_WINDOW = 0
  DATA_MEM_BYTES = 44
  MAX_SPAN = 2
  LOOP_BODY_WORDS <- LoopBodyWords
  LOOP_TRIP_COUNTS <- LoopTripCounts
SPECIFICATION Spec
INVARIANT AlwaysComparable
