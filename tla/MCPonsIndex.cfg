\* One reorganisation within the confirmations and one deeper, one crash anywhere; the journal is trimmed.
SPECIFICATION Spec
CONSTANTS
  Tokens = {t1}
  Roots = {r1}
  None = None
  Confirmations = 1
  Rewind = 2
  JournalBlocks = 2
  MaxBlocks = 3
  MaxHead = 5
  MaxForks = 2
  MaxDeep = 1
  MaxCrashes = 1
  Quiet = TRUE
 
PROPERTY CatchesUp
CHECK_DEADLOCK FALSE
