CONSTANTS
  None = None
  r1 = r1  r2 = r2  i1 = i1  i2 = i2  w1 = w1  w2 = w2  t1 = t1
  q1 = q1
  Tabs = {t1}
SPECIFICATION Spec
SYMMETRY Same
INVARIANTS AccessIsBounded EconomyIsSound FeedIsRecent NoSecondTransfer SolanaIsExact LaunchIsKept
PROPERTY OnlyForward
\* A clock, a chain or a list that has reached its bound stops.
CHECK_DEADLOCK FALSE
