CONSTANTS
  Null = Null
  Classes <- MCClasses
  Cap <- MCCap
  MemberCap = 3
  InitName <- MCInitName
  CodeName <- MCCodeName
SPECIFICATION Spec
INVARIANT TypeOK
INVARIANT InStep
INVARIANT FoundAsWritten
INVARIANT RunsWrittenCode
INVARIANT LostByLimitsOnly
PROPERTY ParsingEnds
