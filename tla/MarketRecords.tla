---------------------------- MODULE MarketRecords ----------------------------
(***************************************************************************)
(* The records of netlify/functions/marketplace.js and lib/syncnet-market.js *)
(* and the changes its handlers make to them.                              *)
(*                                                                         *)
(* A Listing, an Offer and a payment transaction are named by their id.    *)
(* The id of a listing or an offer is the digest of the message its owner  *)
(* signed, so the id fixes the signed fields; they are functions of the id *)
(* here (TokenOf, SellerOf, ListingOf, BuyerOf, ...).  A deal's id is the  *)
(* digest of its listing and offer ids, so a deal is named by its offer.   *)
(***************************************************************************)
EXTENDS Naturals, Sequences, FiniteSets

CONSTANTS
  Wallets, Tokens, Listings, Offers, Txs,
  None,                     \* an absent id (null in the code)
  TokenOf, SellerOf,        \* listing -> the signed token and seller
  ListingOf, BuyerOf,       \* offer -> the signed listing and buyer
  FeeIncluded,              \* listings whose terms include the creator-fee right
  PaidOnChain,              \* listings priced in ETH; the others are paid off-chain
  WithAsset,                \* listings whose terms include a manual asset
  Pays                      \* tx -> the deals it is a sufficient buyer-to-seller payment of

ASSUME MarketConstants ==
  /\ TokenOf \in [Listings -> Tokens]
  /\ SellerOf \in [Listings -> Wallets]
  /\ ListingOf \in [Offers -> Listings]
  /\ BuyerOf \in [Offers -> Wallets]
  /\ Pays \in [Txs -> SUBSET Offers]
  /\ FeeIncluded \subseteq Listings
  /\ PaidOnChain \subseteq Listings
  /\ WithAsset \subseteq Listings
  /\ None \notin Wallets \cup Listings \cup Offers \cup Txs

Roles == {"buyer", "seller"}

\* Of the deal made from offer o.
SellerIn(o) == SellerOf[ListingOf[o]]
TokenIn(o)  == TokenOf[ListingOf[o]]

-----------------------------------------------------------------------------
(* Types.  A stored record that does not exist is one whose status is      *)
(* "ABSENT" (a Passport: one whose operator is None).                      *)

\* The history entries that name an operator: the first claim (deal None)
\* and each operator transfer.  The other entries are leaf data.
Move == [from : Wallets \cup {None}, to : Wallets, deal : Offers \cup {None}]

Passport == [operator : Wallets \cup {None},
             listing  : Listings \cup {None},
             history  : Seq(Move)]
NoPassport == [operator |-> None, listing |-> None, history |-> <<>>]

ListingStatus == {"ABSENT", "ACTIVE", "OFFER_ACCEPTED", "IN_TRANSFER",
                  "COMPLETED", "CANCELLED"}
Listing == [status : ListingStatus, deal : Offers \cup {None}]

OfferStatus == {"ABSENT", "PENDING", "ACCEPTED", "REJECTED", "SUPERSEDED",
                "DEAL_CANCELLED"}

\* What both parties sign over to complete a deal (checklistState).
Checklist == [moved : BOOLEAN, feeTx : Txs \cup {None},
              paid : BOOLEAN, payTx : Txs \cup {None}, asset : BOOLEAN]

\* intent: the seller has signed a TransferIntent.
\* complete[role]: the state the role's completion signature covers.
Deal == [status   : {"ABSENT", "OPEN", "COMPLETED", "CANCELLED"},
         intent   : BOOLEAN,
         moved    : BOOLEAN,
         feeTx    : Txs \cup {None},
         payTx    : Txs \cup {None},
         payBy    : SUBSET Roles,
         assetBy  : SUBSET Roles,
         complete : [Roles -> SUBSET Checklist]]

FreshDeal == [status |-> "OPEN", intent |-> FALSE, moved |-> FALSE,
              feeTx |-> None, payTx |-> None, payBy |-> {}, assetBy |-> {},
              complete |-> [r \in Roles |-> {}]]
NoDeal == [FreshDeal EXCEPT !.status = "ABSENT"]

-----------------------------------------------------------------------------
(* The checklist of the deal record d made from offer o.                   *)

PaymentDone(o, d) ==
  IF ListingOf[o] \in PaidOnChain THEN d.payTx # None ELSE d.payBy = Roles

AssetDone(o, d) == ListingOf[o] \in WithAsset => d.assetBy = Roles

\* Mutation of AllDone: the operator transfer is not asked for.
AllDone_NoTransfer(o, d) ==
  /\ ListingOf[o] \in FeeIncluded => d.feeTx # None
  /\ PaymentDone(o, d)
  /\ AssetDone(o, d)

\* "Not everything in this deal is done yet" is refused.
AllDone(o, d) ==
  /\ d.moved
  /\ ListingOf[o] \in FeeIncluded => d.feeTx # None
  /\ PaymentDone(o, d)
  /\ AssetDone(o, d)

StateHash(o, d) == [moved |-> d.moved, feeTx |-> d.feeTx,
                    paid |-> PaymentDone(o, d), payTx |-> d.payTx,
                    asset |-> AssetDone(o, d)]

\* The state c of the deal from offer o has nothing pending.
NothingPending(o, c) ==
  /\ c.moved /\ c.paid /\ c.asset
  /\ ListingOf[o] \in FeeIncluded => c.feeTx # None

-----------------------------------------------------------------------------
(* What a handler makes of a record it has read.                           *)

WithClaim(p, w) ==
  IF p.operator = None
  THEN [operator |-> w, listing |-> None,
        history |-> <<[from |-> None, to |-> w, deal |-> None]>>]
  ELSE p

\* Mutation of WithTransfer: the history entry is forgotten.
WithTransfer_NoEntry(p, o) == [p EXCEPT !.operator = BuyerOf[o]]

WithTransfer(p, o) ==
  [p EXCEPT !.operator = BuyerOf[o],
            !.history = Append(@, [from |-> SellerIn(o), to |-> BuyerOf[o],
                                   deal |-> o])]

Unlisted(p, l) == IF p.listing = l THEN [p EXCEPT !.listing = None] ELSE p

\* Mutation of WithComplete: the other party's signature is dropped.
WithComplete_Replaces(o, d, role) ==
  LET signed == [d EXCEPT !.complete = [r \in Roles |-> IF r = role THEN {StateHash(o, d)} ELSE {}]]
  IN IF \A r \in Roles : signed.complete[r] # {}
     THEN [signed EXCEPT !.status = "COMPLETED"]
     ELSE signed

\* Mutation of WithComplete: one signature is enough.
WithComplete_OneSignature(o, d, role) ==
  [d EXCEPT !.complete[role] = {StateHash(o, d)}, !.status = "COMPLETED"]

\* The deal confirmed complete by role; the second confirmation completes it.
WithComplete(o, d, role) ==
  LET signed == [d EXCEPT !.complete[role] = {StateHash(o, d)}]
  IN IF \A r \in Roles : signed.complete[r] # {}
     THEN [signed EXCEPT !.status = "COMPLETED"]
     ELSE signed

\* The listing when its deal d is cancelled: a transfer is never unwound,
\* without one the listing reopens.
Reopened(d, lst) ==
  IF d.moved THEN [lst EXCEPT !.status = "CANCELLED"]
             ELSE [status |-> "ACTIVE", deal |-> None]

-----------------------------------------------------------------------------
(* What a Passport's history says.                                         *)

\* It explains the operator: the first entry is the claim that established
\* it, each later one is a transfer by the operator the entry before it left,
\* made by a deal on this token from the deal's seller to its buyer, and the
\* last one names the operator.
Explained(t, p) ==
  LET h == p.history
  IN IF h = <<>>
     THEN p = NoPassport
     ELSE /\ h[1].deal = None
          /\ h[Len(h)].to = p.operator
          /\ \A i \in 2..Len(h) :
                /\ h[i].from = h[i-1].to
                /\ h[i].deal \in Offers
                /\ TokenIn(h[i].deal) = t
                /\ h[i].from = SellerIn(h[i].deal)
                /\ h[i].to = BuyerOf[h[i].deal]

\* It names the transfer of deal o.
Records(p, o) == \E i \in DOMAIN p.history : p.history[i].deal = o
=============================================================================
