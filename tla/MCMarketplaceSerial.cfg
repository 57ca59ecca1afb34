CONSTANTS
  a = a  b = b  c = c  t1 = t1  l1 = l1  o1 = o1  o2 = o2  x1 = x1  s1 = s1  s2 = s2
  None = None
  TokenOf <- MCTokenOf
  SellerOf <- MCSellerOf
  ListingOf <- MCListingOf
  BuyerOf <- MCBuyerOf
  Pays <- MCPays
  Tokens = {t1}
  Wallets = {a, b, c}
  Listings = {l1}
  Offers = {o1, o2}
  Txs = {x1}
  FeeIncluded = {l1}
  PaidOnChain = {l1}
  WithAsset = {}
  Slots = {s1}
  MaxCrashes = 1
  Requests <- SerialRequests
SPECIFICATION SerialSpec
INVARIANTS WritesAreOrdered
PROPERTY ImplementsMarketplace
\* Once every request is spent the system stops.
CHECK_DEADLOCK FALSE
