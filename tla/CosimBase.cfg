CONSTANTS
  WORD = 16
  REPEAT_THRESHOLD = 3
  Programs <- AllPrograms
  Values = {1, 9}
  Faults = {"value"}
  FaultDelta = 8
  SPIKE_BUDGET = 14
  MAX_RETIRE = 13
  MAX_TAKEN = 1
  MAX_BUBBLES = 1
SPECIFICATION Spec
INVARIANT OtherResultsCompared
CHECK_DEADLOCK FALSE
