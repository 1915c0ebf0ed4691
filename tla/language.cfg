CONSTANTS
  Letters <- MCLetters
  Digits <- MCDigits
  Blanks <- MCBlanks
  CaseFold <- MCCaseFold
  NumberValue <- MCNumberValue
  SignedMax <- MCSignedMax
  UnsignedMax <- MCUnsignedMax
  MaxLimit <- MCMaxLimit
  LongPatterns <- MCLongPatterns
  Sessions <- MCSessions
SPECIFICATION Spec
INVARIANT CommentsAndStrings
INVARIANT PredicatesReadBack
INVARIANT NamesMeanDefinitions
INVARIANT OptionsInAnyOrder
INVARIANT VerdictInAnyOrder
CHECK_DEADLOCK FALSE
