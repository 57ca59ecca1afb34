CONSTANTS
  c1 = c1  c2 = c2  c3 = c3  w1 = w1  w2 = w2  t1 = t1  t2 = t2
  None = None
  AnyLength = AnyLength
  Shared = FALSE
  MaxFaults = 1
SPECIFICATION LibrariesSpec
INVARIANTS ImagesAreKept ProofsAreKept EncodingsAreExact ShownIsMeant LaunchIsAsReviewed
\* Every part ends: a file has its length, a list its bound, a launch its outcome.
CHECK_DEADLOCK FALSE
