CONSTANTS
  a = a  b = b  c = c  t1 = t1  l1 = l1  o1 = o1  o2 = o2  x1 = x1  s1 = s1  s2 = s2
  None = None
  TokenOf <- MCTokenOf
  SellerOf <- MCSellerOf
  ListingOf <- MCListingOf
  BuyerOf <- MCBuyerOf
  Pays <- MCPays
  Tokens = {t1}
  Wallets = {a, b}
  Listings = {l1}
  Offers = {o1}
  Txs = {x1}
  FeeIncluded = {}
  PaidOnChain = {l1}
  WithAsset = {}
  Slots = {s1, s2}
  MaxCrashes = 1
  Requests <- RaceRequests
SYMMETRY SlotSymmetry
SPECIFICATION Spec
INVARIANTS HistoryIsSound DealIsSound TransferIsSigned
\* Once every request is spent the system stops.
CHECK_DEADLOCK FALSE
