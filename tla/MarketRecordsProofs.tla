------------------------- MODULE MarketRecordsProofs -------------------------
(***************************************************************************)
(* What the handlers make of a record has the record's type, and of a       *)
(* Passport that explains its operator one that still does.  The atomic     *)
(* and the concurrent Marketplace rest on these lemmas.                     *)
(***************************************************************************)
EXTENDS MarketRecords, TLAPS

-----------------------------------------------------------------------------
(* The records the handlers write have their types.                        *)

LEMMA FreshDealType == FreshDeal \in Deal /\ NoDeal \in Deal
  BY DEF FreshDeal, NoDeal, Deal, Roles

LEMMA NoPassportType == NoPassport \in Passport
  BY DEF NoPassport, Passport, Move

LEMMA StateHashType ==
  ASSUME NEW o \in Offers, NEW d \in Deal
  PROVE  StateHash(o, d) \in Checklist
  BY DEF StateHash, Checklist, PaymentDone, AssetDone, Deal

LEMMA WithCompleteType ==
  ASSUME NEW o \in Offers, NEW d \in Deal, NEW role \in Roles
  PROVE  WithComplete(o, d, role) \in Deal
  <1> DEFINE signed == [d EXCEPT !.complete[role] = {StateHash(o, d)}]
  <1>1. signed \in Deal
    BY StateHashType DEF Deal
  <1>2. [signed EXCEPT !.status = "COMPLETED"] \in Deal
    BY <1>1 DEF Deal
  <1> QED
    BY <1>1, <1>2 DEF WithComplete

LEMMA WithClaimType ==
  ASSUME NEW p \in Passport, NEW w \in Wallets
  PROVE  WithClaim(p, w) \in Passport
  <1>1. [from |-> None, to |-> w, deal |-> None] \in Move
    BY DEF Move
  <1>2. <<[from |-> None, to |-> w, deal |-> None]>> \in Seq(Move)
    BY <1>1
  <1> QED
    BY <1>2 DEF WithClaim, Passport

LEMMA WithTransferType ==
  ASSUME NEW p \in Passport, NEW o \in Offers
  PROVE  /\ WithTransfer(p, o) \in Passport
         /\ WithTransfer(p, o).operator = BuyerOf[o]
         /\ WithTransfer(p, o).history =
              Append(p.history, [from |-> SellerIn(o), to |-> BuyerOf[o], deal |-> o])
  <1>1. BuyerOf[o] \in Wallets /\ SellerIn(o) \in Wallets
    BY MarketConstants DEF SellerIn
  <1>2. [from |-> SellerIn(o), to |-> BuyerOf[o], deal |-> o] \in Move
    BY <1>1 DEF Move
  <1>3. p.history \in Seq(Move)
    BY DEF Passport
  <1>4. Append(p.history, [from |-> SellerIn(o), to |-> BuyerOf[o], deal |-> o])
          \in Seq(Move)
    BY <1>2, <1>3
  <1> QED
    BY <1>1, <1>4 DEF WithTransfer, Passport

LEMMA UnlistedType ==
  ASSUME NEW p \in Passport, NEW l \in Listings
  PROVE  /\ Unlisted(p, l) \in Passport
         /\ Unlisted(p, l).operator = p.operator
         /\ Unlisted(p, l).history = p.history
         /\ p = NoPassport => Unlisted(p, l) = NoPassport
  BY MarketConstants DEF Unlisted, Passport, NoPassport

\* Setting a field of a stored record to a value of the field's type.
LEMMA DealEdits ==
  ASSUME NEW d \in Deal
  PROVE  /\ [d EXCEPT !.intent = TRUE] \in Deal
         /\ [d EXCEPT !.moved = TRUE] \in Deal
         /\ \A x \in Txs : [d EXCEPT !.feeTx = x] \in Deal
         /\ \A x \in Txs : [d EXCEPT !.payTx = x] \in Deal
         /\ \A r \in Roles : [d EXCEPT !.payBy = @ \cup {r}] \in Deal
         /\ \A r \in Roles : [d EXCEPT !.assetBy = @ \cup {r}] \in Deal
  BY DEF Deal

LEMMA PassportEdits ==
  ASSUME NEW p \in Passport, NEW l \in Listings
  PROVE  [p EXCEPT !.listing = l] \in Passport
  BY DEF Passport

LEMMA ReopenedType ==
  ASSUME NEW d \in Deal, NEW lst \in Listing
  PROVE  /\ Reopened(d, lst) \in Listing
         /\ Reopened(d, lst).deal \in {None, lst.deal}
  BY DEF Reopened, Listing, ListingStatus

-----------------------------------------------------------------------------
(* The history still explains the operator.                                *)

LEMMA ClaimExplained ==
  ASSUME NEW t \in Tokens, NEW p \in Passport, Explained(t, p), p.operator = None,
         NEW w \in Wallets
  PROVE  Explained(t, WithClaim(p, w))
  <1> DEFINE h == <<[from |-> None, to |-> w, deal |-> None]>>
  <1>1. WithClaim(p, w) = [operator |-> w, listing |-> None, history |-> h]
    BY DEF WithClaim
  <1>2. h # <<>> /\ Len(h) = 1 /\ h[1] = [from |-> None, to |-> w, deal |-> None]
    OBVIOUS
  <1> QED
    BY <1>1, <1>2 DEF Explained

LEMMA TransferExplained ==
  ASSUME NEW o \in Offers, NEW p \in Passport, Explained(TokenIn(o), p),
         p.operator = SellerIn(o)
  PROVE  Explained(TokenIn(o), WithTransfer(p, o))
  <1> DEFINE h == p.history
             e == [from |-> SellerIn(o), to |-> BuyerOf[o], deal |-> o]
             q == WithTransfer(p, o)
             g == q.history
  <1>1. q.operator = BuyerOf[o] /\ g = Append(h, e)
    BY WithTransferType
  <1>2. SellerIn(o) # None
    BY MarketConstants DEF SellerIn
  <1>3. h # <<>> /\ h \in Seq(Move)
    BY <1>2 DEF Explained, NoPassport, Passport
  <1>4. Len(h) \in Nat /\ Len(h) # 0
    BY <1>3
  <1>5. /\ Len(g) = Len(h) + 1
        /\ \A i \in 1..Len(h) : g[i] = h[i]
        /\ g[Len(h) + 1] = e
        /\ g # <<>>
    BY <1>1, <1>3
  <1>6. /\ h[1].deal = None
        /\ h[Len(h)].to = SellerIn(o)
        /\ \A i \in 2..Len(h) :
              /\ h[i].from = h[i-1].to
              /\ h[i].deal \in Offers
              /\ TokenIn(h[i].deal) = TokenIn(o)
              /\ h[i].from = SellerIn(h[i].deal)
              /\ h[i].to = BuyerOf[h[i].deal]
    BY <1>3 DEF Explained
  <1>7. g[1].deal = None /\ g[Len(g)].to = q.operator
    BY <1>1, <1>4, <1>5, <1>6
  <1> HIDE DEF q, h, e, g
  <1>8. ASSUME NEW i \in 2..Len(g)
        PROVE  /\ g[i].from = g[i-1].to
               /\ g[i].deal \in Offers
               /\ TokenIn(g[i].deal) = TokenIn(o)
               /\ g[i].from = SellerIn(g[i].deal)
               /\ g[i].to = BuyerOf[g[i].deal]
    <2>1. CASE i = Len(h) + 1
      <3>1. g[i] = e /\ g[i-1] = h[Len(h)]
        BY <1>4, <1>5, <2>1
      <3> QED
        BY <3>1, <1>6 DEF e
    <2>2. CASE i # Len(h) + 1
      <3>1. i \in 2..Len(h) /\ i \in 1..Len(h) /\ i - 1 \in 1..Len(h)
        BY <1>4, <1>5, <2>2
      <3>2. g[i] = h[i] /\ g[i-1] = h[i-1]
        BY <3>1, <1>5
      <3> QED
        BY <3>1, <3>2, <1>6
    <2> QED
      BY <2>1, <2>2
  <1>9. g = q.history
    BY DEF g
  <1>10. Explained(TokenIn(o), q)
    BY <1>5, <1>7, <1>8, <1>9 DEF Explained
  <1> QED
    BY <1>10 DEF q
=============================================================================
