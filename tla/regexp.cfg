SPECIFICATION Spec
CONSTANTS
  Alphabet <- Letters
  Class <- Classes
  Escape <- Escapes
  NSUBEXP = 3
  MaxSize = 56
  Patterns <- SmallPatterns
  Texts <- SmallTexts
INVARIANT RefusesIllegal
INVARIANT SizeExact
INVARIANT VerdictRight
CHECK_DEADLOCK FALSE
