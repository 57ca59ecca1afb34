CONSTANTS
  a1 = a1  a2 = a2  r1 = r1  r2 = r2
  Attestations = {a1, a2}
  Runs = {r1, r2}
  DayLength = 2
  LastDay = 1
  LockTtl = 1
  Wait = 2
  Drops = 1
  Late = 0
  Faults = 1
SPECIFICATION Spec
INVARIANTS NoStraggler RecordIsTrue
PROPERTIES NothingIsLost EventuallyAnchored
