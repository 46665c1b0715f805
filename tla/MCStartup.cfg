\* Main file, two more files and a fourth that is not loadable; every type of
\* proxy with every key; every pair of arguments, and chains of four options.
CONSTANTS
  Launches <- MCLaunches
  FileOrder <- MCFileOrder
  Alphabet <- MCAlphabet
  Numerals <- MCNumerals
  ExPieces <- MCExPieces
  MetaKeys <- MCMetaKeys
  MaxDepth = 6
SPECIFICATION FairSpec
INVARIANTS
  StartupTypeOK
  ItemsAreDeclared
  SwitchesOverride
  RestIsMainFiles
  LoadersAgree
  RegistersOnlyKnownFlags
  PayloadReadsBack
  CandidateIsRenamedProxy
  FrontEndsAgree
PROPERTIES
  LoadingEnds
