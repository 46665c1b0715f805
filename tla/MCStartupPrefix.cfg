\* A file that includes another one, and both set the user.
CONSTANTS
  Launches <- PrefixLaunches
  FileOrder <- MCFileOrder
  Alphabet <- MCAlphabet
  Numerals <- MCNumerals
  ExPieces <- MCExPieces
  MetaKeys <- MCMetaKeys
  MaxDepth = 6
SPECIFICATION Spec
INVARIANTS
  CompletesOnce
