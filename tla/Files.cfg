CONSTANTS
  Instructions <- GenInstructions
  MAX_WORDS = 2
  MEM_WORDS = 3
SPECIFICATION Spec
INVARIANTS SameProgram DecodedAsEmitted SectionsInsideFile
