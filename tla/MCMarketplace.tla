--------------------------- MODULE MCMarketplace ---------------------------
(***************************************************************************)
(* One token and two wallets, a and b.  a lists the project (l1), and b     *)
(* makes two offers on it (o1, o2) at one price, so that a payment fits     *)
(* the deal of either; b lists what it has bought (l2), and a buys it back *)
(* (o3).  The Passport moves twice at most: by a deal of l1 and by that of  *)
(* l2, while the other deal of l1, open or cancelled, still has its intent  *)
(* and its seller is not the operator any more.  A configuration says which *)
(* listings include the creator-fee right or a manual asset and which are  *)
(* priced in ETH.                                                          *)
(***************************************************************************)
EXTENDS Marketplace, TLC

CONSTANTS a, b, t1, l1, l2, o1, o2, o3, x1, x2

MCTokenOf   == [l \in Listings |-> t1]
MCSellerOf  == [l \in Listings |-> IF l = l2 THEN b ELSE a]
MCListingOf == [o \in Offers |-> IF o = o3 THEN l2 ELSE l1]
MCBuyerOf   == [o \in Offers |-> IF o = o3 THEN a ELSE b]
\* A transaction pays any deal of its sender and recipient at its price.
MCPays      == [x \in Txs |-> Offers \cap {o1, o2}]
MCDeployer  == [t \in Tokens |-> a]
=============================================================================
