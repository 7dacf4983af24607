SPECIFICATION FairTreeSpec
CONSTANTS
  MaxPort = 5
INVARIANT FreesLeaves
PROPERTY TableIsSet
PROPERTY ClearEnds
CHECK_DEADLOCK FALSE
