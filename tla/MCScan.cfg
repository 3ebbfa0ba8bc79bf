CONSTANTS
  Texts <- MCTexts
  Widths = {2, 4}
  Lexemes <- MCLexemes
  MaxAny = 4
  MaxMixed = 6
  MaxString = 9
  MaxPieces = 3
  MaxNumeral = 4
  SigDigits = 2
  WordBits = 7
  ExpCap = 10
  FracBits = 2
  Bias = 7
  ExpMax = 18
  MinExp10 <- MCMinExp10
  MaxExp10 = 3
SPECIFICATION ReadSpec
INVARIANTS
  IndexesAreStructural
  MinifyStrips
  StringsDecoded
  NumbersExact
