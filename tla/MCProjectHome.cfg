CONSTANTS
  a = a  b = b  t1 = t1  i1 = i1  i2 = i2  c1 = c1  c2 = c2  x1 = x1  s1 = s1  s2 = s2
  None = None
  TokenFor <- MCTokenFor
  Pays <- MCPays
  Wallets = {a, b}
  Tokens = {t1}
  Intents = {i1, i2}
  Amounts = {c1, c2}
  Txs = {x1}
  Slots = {s1, s2}
  MaxAt = 2
  MaxBlocks = 2
SYMMETRY SlotSymmetry
SPECIFICATION CasesSpec
INVARIANTS PaidByItsPayment OneOpenQuote
PROPERTIES ClaimStays WriteTimeAuthority
