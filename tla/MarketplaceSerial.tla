-------------------------- MODULE MarketplaceSerial --------------------------
(***************************************************************************)
(* The handlers of MarketplaceAsync against the atomic Marketplace: when    *)
(* one invocation runs at a time and none is cut short, the store, looked  *)
(* at between invocations, behaves as Marketplace.  The auxiliary variable  *)
(* calm is the store as it was then; it stops at the first crash.          *)
(***************************************************************************)
EXTENDS MarketplaceAsync

VARIABLE calm

\* Every invocation ends in a store that calm takes over, unless one crashed.
Calms == calm' = IF crashes' = 0 /\ \A s \in Slots : run'[s] = Idle THEN kv' ELSE calm

SerialInit == Init /\ calm = Empty
SerialNext == Next /\ Calms
SerialSpec == SerialInit /\ [][SerialNext]_<<vars, calm>>

Atomic == INSTANCE Marketplace WITH
  Deployer <- [t \in Tokens |-> CHOOSE w \in Wallets : TRUE],
  Expiring <- {},
  Moves    <- Nat,
  passport <- [t \in Tokens |-> calm[PassportOf(t)]],
  listing  <- [l \in Listings |-> calm[TheListing(l)]],
  offer    <- [o \in Offers |-> calm[TheOffer(o)]],
  deal     <- [o \in Offers |-> calm[TheDeal(o)]],
  payTx    <- [x \in Txs |-> calm[PayTx(x)]],
  expired  <- {},
  lapsed   <- {}

\* One invocation at a time, each handler does exactly what its action in
\* Marketplace does, whatever the order of its reads and writes.
ImplementsMarketplace == Atomic!Spec

\* The writes of a handler are ordered so that a crash between two of them
\* leaves a Passport no deal disowns: the deal is marked before the Passport.
DealLeadsPassport ==
  \A o \in Offers : Records(kv[PassportOf(TokenIn(o))], o) => kv[TheDeal(o)].moved

\* The payment's hash is taken before the deal shows it, so even a crash
\* between the two leaves no payment that another deal could use again.
HashLeadsPayment ==
  \A o \in Offers : LET x == kv[TheDeal(o)].payTx IN x # None => kv[PayTx(x)] = o

\* The accepted offer and its listing are written before the deal.
OfferLeadsDeal ==
  \A o \in Offers : kv[TheDeal(o)].status # "ABSENT" =>
    kv[TheOffer(o)] \in {"ACCEPTED", "DEAL_CANCELLED"}

WritesAreOrdered == DealLeadsPassport /\ HashLeadsPayment /\ OfferLeadsDeal
=============================================================================
