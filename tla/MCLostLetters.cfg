SPECIFICATION LetterSpec
CONSTANTS
  Entries = {l1}
  MaxCrashes = 1
INVARIANT NothingIsLost
CHECK_DEADLOCK FALSE
