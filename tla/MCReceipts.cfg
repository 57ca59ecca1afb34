CONSTANTS
  i1 = i1  i2 = i2  x1 = x1  x2 = x2  s1 = s1  s2 = s2
  None = None
  Intents = {i1, i2}
  Txs = {x1, x2}
  Slots = {s1, s2}
  Window = 1
  Slack = 0
  Skew = 0
  Grace = 2
  DraftTtl = 1
  MaxTime = 4
  MaxReorgs = 1
  Crashing = TRUE
  QueueWrites = {TRUE}
SPECIFICATION ShortSpec
INVARIANTS ReceiptsAgree FinalIsCanonical InvalidatedIsGone ReceiptFitsIntent
SYMMETRY Interchangeable
PROPERTIES ClaimIsKept
\* The clock and the intents are bounded.
CHECK_DEADLOCK FALSE
