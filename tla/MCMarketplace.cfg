CONSTANTS
  a = a  b = b  t1 = t1  l1 = l1  l2 = l2
  o1 = o1  o2 = o2  o3 = o3  x1 = x1  x2 = x2
  None = None
  TokenOf <- MCTokenOf
  SellerOf <- MCSellerOf
  ListingOf <- MCListingOf
  BuyerOf <- MCBuyerOf
  Pays <- MCPays
  Deployer <- MCDeployer
  Tokens = {t1}
  Wallets = {a, b}
  Listings = {l1, l2}
  Offers = {o1, o2, o3}
  Txs = {x1}
  FeeIncluded = {l2}
  PaidOnChain = {l1}
  WithAsset = {l2}
  Moves = {1, 2}
  Expiring = {o3}
SPECIFICATION Spec
INVARIANTS HistoryExplainsOperator CompletedIsSettled DealIffAccepted PaymentSingleUse
PROPERTIES SettledStays
