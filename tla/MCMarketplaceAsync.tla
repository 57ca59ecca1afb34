------------------------- MODULE MCMarketplaceAsync -------------------------
(***************************************************************************)
(* One token of a.  a lists it (l1) and b and c make offers (o1, o2).  A    *)
(* configuration takes the requests its question needs; a request is sent   *)
(* once, or n = 2 is a second one.                                          *)
(***************************************************************************)
EXTENDS MarketplaceAsync

CONSTANTS a, b, c, t1, l1, o1, o2, x1, s1, s2

MCTokenOf   == [l \in Listings |-> t1]
MCSellerOf  == [l \in Listings |-> a]
MCListingOf == [o \in Offers |-> l1]
MCBuyerOf   == [o \in Offers |-> IF o = o2 THEN c ELSE b]
MCPays      == [x \in Txs |-> Offers \cap {o1}]

R(kind, id, by, n) == [kind |-> kind, id |-> id, by |-> by, tx |-> None, n |-> n]
Evidence(kind, o, x) == [kind |-> kind, id |-> o, by |-> None, tx |-> x, n |-> 1]

\* A sale of l1 to b, up to the transfer of the Passport.
Sale == {R("claim", t1, a, 1), R("list", l1, None, 1), R("offer", o1, None, 1),
         R("accept", o1, None, 1), R("transfer-intent", o1, None, 1),
         R("transfer-accept", o1, None, 1)}

Payment == {Evidence("payment-evidence", o1, x1)}
Completion == {R("confirm-complete", o1, role, 1) : role \in Roles}

RaceRequests == Sale \cup Payment \cup Completion \cup {R("claim", t1, a, 2)}
\* The transfer against a second claim by the operator.
ClaimRequests == Sale \cup {R("claim", t1, a, 2)}

SlotSymmetry == Permutations(Slots)
=============================================================================
