CONSTANTS
  c1 = c1  c2 = c2  c3 = c3
  None = None
  Shared = TRUE
SPECIFICATION SharedSpec
INVARIANT NothingLost
\* The calendars are asked MaxRounds times.
CHECK_DEADLOCK FALSE
