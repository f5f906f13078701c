SPECIFICATION Spec
CONSTANTS
  NRegs = 9
  ObjectMax = 5
  ArrayMax = 8
  InstanceFields <- MCInstanceFields
  ArrayOf <- MCArrayOf
  StaticFields = {0, 1}
  Starts <- MCStarts
  Garbage = {77}
INVARIANTS
  TypeOK
  LoadsReturnStores
  LimitsOnly
PROPERTIES
  ReferencesStay
