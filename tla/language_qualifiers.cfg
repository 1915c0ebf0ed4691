CONSTANTS
  Letters <- MCLetters
  Digits <- MCDigits
  Blanks <- MCBlanks
  CaseFold <- MCCaseFold
  NumberValue <- MCNumberValue
  SignedMax <- MCSignedMax
  UnsignedMax <- MCUnsignedMax
  MaxLimit <- MCMaxLimit
  LongPatterns <- MCLongPatterns
  Sessions <- QualifierSessions
SPECIFICATION Spec
INVARIANT QualifiersBound
CHECK_DEADLOCK FALSE
