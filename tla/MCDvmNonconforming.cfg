SPECIFICATION Spec
CONSTANTS
  NRegs = 6
  Nibble = 4
  VTableSize = 8
  BranchSpan = 200
  PrefixPairs <- NonconformingPairs
  Programs <- NonconformingPrograms
  Builds = {"table", "threaded"}
  VSaved = 4
  ArrayBase = 4
  ReturnVoidPc = 60
  ReturnPc = 90
  Fields = {0}
  Garbage <- MCGarbage
PROPERTY EveryProgramEnds
