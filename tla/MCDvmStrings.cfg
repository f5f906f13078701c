CONSTANTS
  a = a
  b = b
  c = c
  NUL = NUL
  Regs = {1, 2}
  Chars = {a, b, c}
  StringData <- MCStringData
  Ints <- MCInts
  Decimal <- MCDecimal
  BufSize = 3
  AppendTypes <- MCAppendTypes
  OtherTexts <- MCOtherTexts
  Stale <- MCStale
  MaxBuilders = 2
  MaxLines = 2
  MaxText = 3
SPECIFICATION Spec
INVARIANT TypeOK
INVARIANT PrintsLikeJava
INVARIANT OverrunByLongTextOnly
