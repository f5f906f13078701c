SPECIFICATION Spec
CONSTANTS
  NRegs = 6
  Nibble = 3
  HalfByte = 2
  Starts <- IfStarts
  Results <- MCResults
  Garbage = {0, 77}
  AddDouble <- MCAddDouble
  MulDouble <- MCMulDouble
  DoubleToInt <- MCDoubleToInt
PROPERTY BackwardBranches
