SPECIFICATION Spec
CONSTANTS
  Classes <- MCClasses
  NLocals = 6
  StackMax = 10
  BufferSize = 16
  NameSize = 12
  Short = 256
  Word = 4096
  AddDouble <- MCAdd
  MulDouble <- MCMul
  DoubleToInt <- MCToInt
  OneDouble = 4
  Randoms = {0, 2, 4}
  Times = {5, 2000}
INVARIANTS
  TypeOK
  BetweenStatements
PROPERTIES
  RunsLikeJava
  EveryProgramEnds
