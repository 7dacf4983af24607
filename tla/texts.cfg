SPECIFICATION Spec
CONSTANTS
  NumberTexts <- ShortTexts
  Bases = {0, 8, 10, 16}
  Wide = 256
  Narrow = 32
  Meanings <- ShortMeanings
  MaxLen = 16
INVARIANT NumberExact
INVARIANT PatternSays
INVARIANT VerdictFromPayload
CHECK_DEADLOCK FALSE
