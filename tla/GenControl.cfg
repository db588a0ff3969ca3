CONSTANTS
  Ns = {0, 1, 2, 6, 7, 8}
  NREGS = 3
  WORD = 128
  IMM12 = 16
  LOAD_STORE_WINDOW = 4
  DATA_MEM_BYTES = 52
  MAX_SPAN = 3
  LOOP_BODY_WORDS <- LoopBodyWords
  LOOP_TRIP_COUNTS <- LoopTripCounts
SPECIFICATION FairSpec
INVARIANTS TypeOK LoopEnteredAtInit EarlyLoadsExplained
PROPERTY Settles
