CONSTANTS
  Null = Null
  Dexes <- MCDexes
  Damages <- MCDamages
  DataMax = 3
SPECIFICATION Spec
INVARIANT TypeOK
INVARIANT TablesAsWritten
INVARIANT ClassesAsWritten
INVARIANT LookUps
INVARIANT LostByLimitsOnly
