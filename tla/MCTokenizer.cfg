SPECIFICATION FairSpec
CONSTANTS
  Alphabet = {10, 32, 60, 62, 97}
  MaxLen = 4
  MaxEmptyChunks = 2
  Texts <- MCTexts
  Vocabs <- MCVocabs
INVARIANTS
  RoundTrip
  MergesLikeGPT2
  SpecialsWin
PROPERTIES
  TokenizeEnds
CHECK_DEADLOCK FALSE
