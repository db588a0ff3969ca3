CONSTANTS
  Ns = {2, 5, 6}
  NREGS = 4
  WORD = 128
  IMM12 = 16
  LOAD_STORE_WINDOW = 4
  DATA_MEM_BYTES = 52
  MAX_SPAN = 3
  LOOP_BODY_WORDS <- LoopBodyWords
  LOOP_TRIP_COUNTS <- LoopTripCounts
SPECIFICATION Spec
INVARIANTS OnlyBaseDiffers AccessesInDataRegion EstimateHolds
