-------------------------- MODULE MarketplaceProofs --------------------------
(***************************************************************************)
(* Theorems about Marketplace, for every set of wallets, tokens, listings, *)
(* offers and transactions.                                                *)
(***************************************************************************)
EXTENDS Marketplace, MarketRecordsProofs, TLAPS

\* A deal that was never made is blank.
AbsentIsBlank == \A o \in Offers : deal[o].status = "ABSENT" => deal[o] = NoDeal

-----------------------------------------------------------------------------
(* Type correctness.                                                       *)

LEMMA InitType == Init => TypeOK
  BY FreshDealType, NoPassportType
  DEF Init, TypeOK, Listing, ListingStatus, OfferStatus

LEMMA PassportStepType ==
  ASSUME TypeOK, NEW t \in Tokens, NEW p \in Passport,
         passport' = [passport EXCEPT ![t] = p]
  PROVE  passport' \in [Tokens -> Passport]
  BY DEF TypeOK

LEMMA DealStepType ==
  ASSUME TypeOK, NEW o \in Offers, NEW d \in Deal,
         deal' = [deal EXCEPT ![o] = d]
  PROVE  deal' \in [Offers -> Deal]
  BY DEF TypeOK

LEMMA ListingStepType ==
  ASSUME TypeOK, NEW l \in Listings, NEW s \in Listing,
         listing' = [listing EXCEPT ![l] = s]
  PROVE  listing' \in [Listings -> Listing]
  BY DEF TypeOK

LEMMA StepType == TypeOK /\ [Next]_vars => TypeOK'
  <1> SUFFICES ASSUME TypeOK, [Next]_vars
               PROVE  TypeOK'
    OBVIOUS
  <1> USE MarketConstants, MarketplaceConstants
  <1>1. ASSUME NEW t \in Tokens, NEW w \in Wallets, Claim(t, w)
        PROVE  TypeOK'
    <2>1. passport[t] \in Passport
      BY DEF TypeOK
    <2>2. passport' \in [Tokens -> Passport]
      BY <1>1, <2>1, WithClaimType, PassportStepType DEF Claim
    <2> QED
      BY <1>1, <2>2 DEF Claim, TypeOK, time
  <1>2. ASSUME NEW l \in Listings, List(l)
        PROVE  TypeOK'
    <2>1. TokenOf[l] \in Tokens
      OBVIOUS
    <2>2. passport' \in [Tokens -> Passport]
      <3>1. passport' = [passport EXCEPT ![TokenOf[l]] =
                           [passport[TokenOf[l]] EXCEPT !.listing = l]]
        BY <1>2 DEF List
      <3> QED
        BY <2>1, <3>1, PassportEdits, PassportStepType DEF TypeOK
    <2>3. listing' \in [Listings -> Listing]
      BY <1>2 DEF List, TypeOK, Listing, ListingStatus
    <2> QED
      BY <1>2, <2>2, <2>3 DEF List, TypeOK, time
  <1>3. ASSUME NEW l \in Listings, CancelListing(l)
        PROVE  TypeOK'
    <2>1. TokenOf[l] \in Tokens
      OBVIOUS
    <2>2. passport' \in [Tokens -> Passport]
      BY <1>3, <2>1, UnlistedType, PassportStepType DEF CancelListing, TypeOK
    <2>3. listing' \in [Listings -> Listing]
      BY <1>3 DEF CancelListing, TypeOK, Listing, ListingStatus
    <2> QED
      BY <1>3, <2>2, <2>3 DEF CancelListing, TypeOK, time
  <1>4. ASSUME NEW o \in Offers, MakeOffer(o) \/ Reject(o)
        PROVE  TypeOK'
    BY <1>4 DEF MakeOffer, Reject, TypeOK, OfferStatus, time
  <1>5. ASSUME NEW o \in Offers, Accept(o)
        PROVE  TypeOK'
    <2>1. listing' \in [Listings -> Listing]
      BY <1>5 DEF Accept, TypeOK, Listing, ListingStatus
    <2>2. deal' \in [Offers -> Deal]
      BY <1>5, FreshDealType, DealStepType DEF Accept
    <2>3. offer' \in [Offers -> OfferStatus]
      BY <1>5 DEF Accept, Decided, TypeOK, OfferStatus
    <2> QED
      BY <1>5, <2>1, <2>2, <2>3 DEF Accept, TypeOK, time
  <1>6. ASSUME NEW o \in Offers, TransferIntent(o)
        PROVE  TypeOK'
    <2>0. ListingOf[o] \in Listings /\ deal[o] \in Deal
      BY DEF TypeOK
    <2>1. listing' \in [Listings -> Listing]
      <3> DEFINE k == ListingOf[o]
                 s == IF listing[k].status = "OFFER_ACCEPTED" THEN "IN_TRANSFER"
                                                             ELSE listing[k].status
      <3>1. [listing[k] EXCEPT !.status = s] \in Listing
        BY <2>0 DEF TypeOK, Listing, ListingStatus
      <3>2. listing' = [listing EXCEPT ![k] = [listing[k] EXCEPT !.status = s]]
        BY <1>6 DEF TransferIntent
      <3> QED
        BY <2>0, <3>1, <3>2, ListingStepType
    <2>2. deal' \in [Offers -> Deal]
      BY <1>6, <2>0, DealEdits, DealStepType DEF TransferIntent
    <2> QED
      BY <1>6, <2>1, <2>2 DEF TransferIntent, TypeOK
  <1>7. ASSUME NEW o \in Offers, TransferAccept(o)
        PROVE  TypeOK'
    <2>1. TokenIn(o) \in Tokens
      BY DEF TokenIn
    <2>2. passport' \in [Tokens -> Passport]
      BY <1>7, <2>1, WithTransferType, PassportStepType DEF TransferAccept, TypeOK
    <2>3. deal' \in [Offers -> Deal]
      BY <1>7, DealEdits, DealStepType DEF TransferAccept, TypeOK
    <2> QED
      BY <1>7, <2>2, <2>3 DEF TransferAccept, TypeOK, time
  <1>8. ASSUME NEW o \in Offers, NEW x \in Txs, FeeRightEvidence(o, x)
        PROVE  TypeOK'
    <2>1. deal' \in [Offers -> Deal]
      BY <1>8, DealEdits, DealStepType DEF FeeRightEvidence, TypeOK
    <2> QED
      BY <1>8, <2>1 DEF FeeRightEvidence, TypeOK, time
  <1>9. ASSUME NEW o \in Offers, NEW x \in Txs, PaymentEvidence(o, x)
        PROVE  TypeOK'
    <2>1. deal' \in [Offers -> Deal]
      BY <1>9, DealEdits, DealStepType DEF PaymentEvidence, TypeOK
    <2> QED
      BY <1>9, <2>1 DEF PaymentEvidence, TypeOK, time
  <1>10. ASSUME NEW o \in Offers, NEW role \in Roles,
                ConfirmPayment(o, role) \/ ConfirmAsset(o, role)
         PROVE  TypeOK'
    <2>1. deal' \in [Offers -> Deal]
      BY <1>10, DealEdits, DealStepType DEF ConfirmPayment, ConfirmAsset, TypeOK
    <2> QED
      BY <1>10, <2>1 DEF ConfirmPayment, ConfirmAsset, TypeOK, time
  <1>11. ASSUME NEW o \in Offers, NEW role \in Roles, ConfirmComplete(o, role)
         PROVE  TypeOK'
    <2>1. deal' \in [Offers -> Deal]
      BY <1>11, WithCompleteType, DealStepType DEF ConfirmComplete, TypeOK
    <2>2. listing' \in [Listings -> Listing]
      <3>1. ListingOf[o] \in Listings /\ \A l \in Listings : [listing[l] EXCEPT !.status = "COMPLETED"] \in Listing
        BY MarketConstants DEF TypeOK, Listing, ListingStatus
      <3>2. listing' = listing \/ listing' = [listing EXCEPT ![ListingOf[o]] = [listing[ListingOf[o]] EXCEPT !.status = "COMPLETED"]]
        BY <1>11 DEF ConfirmComplete
      <3> QED  BY <3>1, <3>2 DEF TypeOK
    <2>3. passport' \in [Tokens -> Passport]
      BY <1>11, UnlistedType, PassportStepType DEF ConfirmComplete, TypeOK, TokenIn
    <2> QED
      BY <1>11, <2>1, <2>2, <2>3 DEF ConfirmComplete, TypeOK, time
  <1>12. ASSUME NEW o \in Offers, CancelDeal(o)
         PROVE  TypeOK'
    <2>1. listing' \in [Listings -> Listing]
      BY <1>12, ReopenedType, ListingStepType DEF CancelDeal, TypeOK
    <2> QED
      BY <1>12, <2>1 DEF CancelDeal, TypeOK, OfferStatus, time
  <1>13. ASSUME NEW o \in Offers, ExpireIntent(o)
         PROVE  TypeOK'
    BY <1>13 DEF ExpireIntent, TypeOK, store
  <1>14. ASSUME NEW x \in Expiring, Expire(x)
         PROVE  TypeOK'
    BY <1>14 DEF Expire, TypeOK, store
  <1>15. CASE UNCHANGED vars
    BY <1>15 DEF vars, store, time, TypeOK
  <1> QED
    BY <1>1, <1>2, <1>3, <1>4, <1>5, <1>6, <1>7, <1>8, <1>9, <1>10, <1>11,
       <1>12, <1>13, <1>14, <1>15 DEF Next, OfferStep, PartyStep

\* Every record the service stores is well formed, whatever the requests.
THEOREM TypeCorrect == Spec => []TypeOK
  BY InitType, StepType, PTL DEF Spec

-----------------------------------------------------------------------------
(* The steps, by what they do to a Passport and to a deal.                 *)

\* A step leaves a Passport's operator and history alone, or it is the
\* claim that establishes it, or the transfer of a deal on its token.
PassportStep(t) ==
  \/ /\ passport'[t].operator = passport[t].operator
     /\ passport'[t].history = passport[t].history
     /\ passport[t] = NoPassport => passport'[t] = NoPassport
  \/ /\ passport[t].operator = None
     /\ \E w \in Wallets : passport'[t] = WithClaim(passport[t], w)
  \/ \E o \in Offers : TokenIn(o) = t /\ TransferAccept(o)

LEMMA PassportSteps ==
  ASSUME TypeOK, Next, NEW t \in Tokens
  PROVE  PassportStep(t)
  <1> USE MarketConstants, MarketplaceConstants
  <1>0. passport[t] \in Passport
    BY DEF TypeOK
  <1>1. ASSUME NEW u \in Tokens, NEW w \in Wallets, Claim(u, w)
        PROVE  PassportStep(t)
    BY <1>1, <1>0 DEF Claim, TypeOK, WithClaim, PassportStep
  <1>2. ASSUME NEW l \in Listings, List(l)
        PROVE  PassportStep(t)
    <2>1. passport[TokenOf[l]].operator # None
      BY <1>2 DEF List
    <2>2. passport'[t].operator = passport[t].operator
          /\ passport'[t].history = passport[t].history
      BY <1>2, <1>0 DEF List, TypeOK, Passport
    <2>3. passport[t] = NoPassport => passport'[t] = passport[t]
      BY <1>2, <2>1 DEF List, TypeOK, NoPassport
    <2> QED
      BY <2>2, <2>3 DEF PassportStep
  <1>3. ASSUME NEW l \in Listings, CancelListing(l)
        PROVE  PassportStep(t)
    BY <1>3, <1>0, UnlistedType DEF CancelListing, TypeOK, PassportStep
  <1>4. ASSUME NEW o \in Offers, TransferAccept(o)
        PROVE  PassportStep(t)
    <2>1. CASE TokenIn(o) = t
      BY <1>4, <2>1 DEF PassportStep
    <2>2. CASE TokenIn(o) # t
      BY <1>4, <2>2 DEF TransferAccept, TypeOK, PassportStep
    <2> QED
      BY <2>1, <2>2
  <1>5. ASSUME NEW o \in Offers, NEW role \in Roles, ConfirmComplete(o, role)
        PROVE  PassportStep(t)
    <2>1. passport'[t] = passport[t] \/ passport'[t] = Unlisted(passport[t], ListingOf[o])
      BY <1>5 DEF ConfirmComplete, TypeOK
    <2> QED
      BY <2>1, <1>0, UnlistedType DEF PassportStep
  <1>6. CASE passport' = passport
    BY <1>6 DEF PassportStep
  <1> QED
    BY <1>1, <1>2, <1>3, <1>4, <1>5, <1>6
    DEF Next, OfferStep, PartyStep, MakeOffer, Reject, Accept, TransferIntent,
        CancelDeal, ExpireIntent, Expire, store, FeeRightEvidence,
        PaymentEvidence, ConfirmPayment, ConfirmAsset

LEMMA HistoryStep ==
  TypeOK /\ HistoryExplainsOperator /\ [Next]_vars => HistoryExplainsOperator'
  <1> SUFFICES ASSUME TypeOK, HistoryExplainsOperator, [Next]_vars,
                      NEW t \in Tokens
               PROVE  Explained(t, passport'[t])
    BY DEF HistoryExplainsOperator
  <1>0. passport[t] \in Passport /\ Explained(t, passport[t])
    BY DEF HistoryExplainsOperator, TypeOK
  <1>1. CASE UNCHANGED vars
    BY <1>0, <1>1 DEF vars, store
  <1>2. CASE Next
    <2>1. PassportStep(t)
      BY <1>2, PassportSteps
    <2>2. CASE /\ passport'[t].operator = passport[t].operator
               /\ passport'[t].history = passport[t].history
               /\ passport[t] = NoPassport => passport'[t] = NoPassport
      BY <1>0, <2>2 DEF Explained
    <2>3. ASSUME passport[t].operator = None,
                 NEW w \in Wallets, passport'[t] = WithClaim(passport[t], w)
          PROVE  Explained(t, passport'[t])
      BY <1>0, <2>3, ClaimExplained
    <2>4. ASSUME NEW o \in Offers, TokenIn(o) = t, TransferAccept(o)
          PROVE  Explained(t, passport'[t])
      <3>1. passport'[t] = WithTransfer(passport[t], o)
        BY <2>4 DEF TransferAccept, TypeOK
      <3>2. passport[t].operator = SellerIn(o)
        BY <2>4 DEF TransferAccept
      <3> QED
        BY <1>0, <2>4, <3>1, <3>2, TransferExplained
    <2> QED
      BY <2>1, <2>2, <2>3, <2>4 DEF PassportStep
  <1> QED
    BY <1>1, <1>2

\* Whatever wallets claim, list, offer, cancel and settle, in any order, the
\* operator of a Passport is the end of an unbroken chain of two-signature
\* transfers that starts at the first claim.
THEOREM HistoryTheorem == Spec => []HistoryExplainsOperator
  <1>1. Init => HistoryExplainsOperator
    BY DEF Init, HistoryExplainsOperator, Explained, NoPassport
  <1> QED
    BY <1>1, HistoryStep, TypeCorrect, PTL DEF Spec

-----------------------------------------------------------------------------
(* What a deal promises: its records agree, and what is settled stays      *)
(* settled.  The argument classifies a step by what it does to one deal    *)
(* (DealStep) and to one Passport (PassportStep) and reads each invariant  *)
(* off that.                                                               *)

\* A later version e of deal o's record d keeps what d has settled.
Keeps(o, d, e) ==
  /\ d.status = "COMPLETED" => e.status = "COMPLETED"
  /\ d.moved => e.moved
  /\ d.feeTx # None => e.feeTx # None
  /\ PaymentDone(o, d) => PaymentDone(o, e)
  /\ AssetDone(o, d) => AssetDone(o, e)
  /\ \A role \in Roles : d.complete[role] # {} => e.complete[role] # {}

Signed(d) == \A role \in Roles : d.complete[role] # {}

\* What a step does to deal o: nothing; it makes the deal; it transfers the
\* Passport; or it edits the record of a deal that exists.
DealStep(o) ==
  \/ deal'[o] = deal[o]
  \/ Accept(o) /\ deal'[o] = FreshDeal
  \/ /\ TransferAccept(o)
     /\ deal'[o] = [deal[o] EXCEPT !.moved = TRUE]
  \/ /\ deal[o].status # "ABSENT"
     /\ Keeps(o, deal[o], deal'[o])
     /\ deal'[o].moved = deal[o].moved
     /\ \/ deal'[o].status = deal[o].status
        \/ deal'[o].status = "COMPLETED" /\ AllDone(o, deal'[o]) /\ Signed(deal'[o])

LEMMA CompletionKeeps ==
  ASSUME NEW o \in Offers, NEW d \in Deal, NEW role \in Roles,
         d.status = "OPEN", AllDone(o, d)
  PROVE  LET e == WithComplete(o, d, role)
         IN /\ Keeps(o, d, e)
            /\ e.moved = d.moved
            /\ e.payTx = d.payTx
            /\ \/ e.status = d.status
               \/ e.status = "COMPLETED" /\ AllDone(o, e) /\ Signed(e)
  <1> DEFINE signed == [d EXCEPT !.complete[role] = {StateHash(o, d)}]
             final == [signed EXCEPT !.status = "COMPLETED"]
  <1>1. /\ signed \in Deal
        /\ signed.status = d.status /\ signed.moved = d.moved
        /\ signed.feeTx = d.feeTx /\ signed.payTx = d.payTx
        /\ signed.payBy = d.payBy /\ signed.assetBy = d.assetBy
    BY StateHashType DEF Deal
  <1>2. \A r \in Roles : d.complete[r] # {} => signed.complete[r] # {}
    BY DEF Deal
  <1> HIDE DEF signed
  <1>3. /\ final.status = "COMPLETED" /\ final.moved = d.moved
        /\ final.feeTx = d.feeTx /\ final.payTx = d.payTx
        /\ final.payBy = d.payBy /\ final.assetBy = d.assetBy
        /\ final.complete = signed.complete
    BY <1>1 DEF Deal
  <1> HIDE DEF final
  <1>4. /\ PaymentDone(o, final) = PaymentDone(o, d)
        /\ AssetDone(o, final) = AssetDone(o, d)
        /\ PaymentDone(o, signed) = PaymentDone(o, d)
        /\ AssetDone(o, signed) = AssetDone(o, d)
    BY <1>1, <1>3 DEF PaymentDone, AssetDone
  <1>5. AllDone(o, final)
    BY <1>3, <1>4 DEF AllDone
  <1>6. Keeps(o, d, signed) /\ Keeps(o, d, final)
    BY <1>1, <1>2, <1>3, <1>4 DEF Keeps
  <1>7. WithComplete(o, d, role) =
          IF \A r \in Roles : signed.complete[r] # {} THEN final ELSE signed
    BY DEF WithComplete, signed, final
  <1> QED
    BY <1>1, <1>3, <1>5, <1>6, <1>7 DEF Signed

LEMMA EditsKeep ==
  ASSUME NEW o \in Offers, NEW d \in Deal
  PROVE  /\ Keeps(o, d, d)
         /\ Keeps(o, d, [d EXCEPT !.intent = TRUE])
         /\ Keeps(o, d, [d EXCEPT !.moved = TRUE])
         /\ \A x \in Txs : Keeps(o, d, [d EXCEPT !.feeTx = x])
         /\ \A x \in Txs : Keeps(o, d, [d EXCEPT !.payTx = x])
         /\ \A r \in Roles : Keeps(o, d, [d EXCEPT !.payBy = @ \cup {r}])
         /\ \A r \in Roles : Keeps(o, d, [d EXCEPT !.assetBy = @ \cup {r}])
  <1>1. None \notin Txs
    BY MarketConstants
  <1>2. d.payBy \subseteq Roles /\ d.assetBy \subseteq Roles
    BY DEF Deal
  <1> QED
    BY <1>1, <1>2 DEF Keeps, PaymentDone, AssetDone, Deal

LEMMA DealSteps ==
  ASSUME TypeOK, Next, NEW o \in Offers
  PROVE  DealStep(o)
  <1> USE MarketConstants, MarketplaceConstants
  <1>0. deal[o] \in Deal
    BY DEF TypeOK
  <1>1. ASSUME NEW p \in Offers, Accept(p)
        PROVE  DealStep(o)
    <2>1. deal' = [deal EXCEPT ![p] = FreshDeal]
      BY <1>1 DEF Accept
    <2> QED
      BY <1>1, <2>1 DEF DealStep, TypeOK
  <1>2. ASSUME NEW p \in Offers, TransferAccept(p)
        PROVE  DealStep(o)
    <2>1. deal' = [deal EXCEPT ![p].moved = TRUE]
      BY <1>2 DEF TransferAccept
    <2> QED
      BY <1>2, <2>1 DEF DealStep, TypeOK
  <1>3. ASSUME NEW p \in Offers, NEW d,
               deal' = [deal EXCEPT ![p] = d],
               deal[p].status # "ABSENT",
               Keeps(p, deal[p], d), d.moved = deal[p].moved,
               \/ d.status = deal[p].status
               \/ d.status = "COMPLETED" /\ AllDone(p, d) /\ Signed(d)
        PROVE  DealStep(o)
    BY <1>3 DEF DealStep, TypeOK
  <1>4. ASSUME NEW p \in Offers, TransferIntent(p)
        PROVE  DealStep(o)
    <2> DEFINE d == [deal[p] EXCEPT !.intent = TRUE]
    <2>1. deal[p] \in Deal
      BY DEF TypeOK
    <2>2. d.moved = deal[p].moved /\ d.status = deal[p].status
      BY <2>1 DEF Deal
    <2>3. Keeps(p, deal[p], d)
      BY <2>1, EditsKeep
    <2>4. deal' = [deal EXCEPT ![p] = d] /\ deal[p].status # "ABSENT"
      BY <1>4 DEF TransferIntent
    <2> QED
      BY <1>3, <2>2, <2>3, <2>4
  <1>5. ASSUME NEW p \in Offers, NEW x \in Txs, FeeRightEvidence(p, x)
        PROVE  DealStep(o)
    <2> DEFINE d == [deal[p] EXCEPT !.feeTx = x]
    <2>1. deal[p] \in Deal
      BY DEF TypeOK
    <2>2. d.moved = deal[p].moved /\ d.status = deal[p].status
      BY <2>1 DEF Deal
    <2>3. Keeps(p, deal[p], d)
      BY <2>1, EditsKeep
    <2>4. deal' = [deal EXCEPT ![p] = d] /\ deal[p].status # "ABSENT"
      BY <1>5 DEF FeeRightEvidence
    <2> QED
      BY <1>3, <2>2, <2>3, <2>4
  <1>6. ASSUME NEW p \in Offers, NEW x \in Txs, PaymentEvidence(p, x)
        PROVE  DealStep(o)
    <2> DEFINE d == [deal[p] EXCEPT !.payTx = x]
    <2>1. deal[p] \in Deal
      BY DEF TypeOK
    <2>2. d.moved = deal[p].moved /\ d.status = deal[p].status
      BY <2>1 DEF Deal
    <2>3. Keeps(p, deal[p], d)
      BY <2>1, EditsKeep
    <2>4. deal' = [deal EXCEPT ![p] = d] /\ deal[p].status # "ABSENT"
      BY <1>6 DEF PaymentEvidence
    <2> QED
      BY <1>3, <2>2, <2>3, <2>4
  <1>7. ASSUME NEW p \in Offers, NEW role \in Roles, ConfirmPayment(p, role)
        PROVE  DealStep(o)
    <2> DEFINE d == [deal[p] EXCEPT !.payBy = @ \cup {role}]
    <2>1. deal[p] \in Deal
      BY DEF TypeOK
    <2>2. d.moved = deal[p].moved /\ d.status = deal[p].status
      BY <2>1 DEF Deal
    <2>3. Keeps(p, deal[p], d)
      BY <2>1, EditsKeep
    <2>4. deal' = [deal EXCEPT ![p] = d] /\ deal[p].status # "ABSENT"
      BY <1>7 DEF ConfirmPayment
    <2> QED
      BY <1>3, <2>2, <2>3, <2>4
  <1>8. ASSUME NEW p \in Offers, NEW role \in Roles, ConfirmAsset(p, role)
        PROVE  DealStep(o)
    <2> DEFINE d == [deal[p] EXCEPT !.assetBy = @ \cup {role}]
    <2>1. deal[p] \in Deal
      BY DEF TypeOK
    <2>2. d.moved = deal[p].moved /\ d.status = deal[p].status
      BY <2>1 DEF Deal
    <2>3. Keeps(p, deal[p], d)
      BY <2>1, EditsKeep
    <2>4. deal' = [deal EXCEPT ![p] = d] /\ deal[p].status # "ABSENT"
      BY <1>8 DEF ConfirmAsset
    <2> QED
      BY <1>3, <2>2, <2>3, <2>4
  <1>9. ASSUME NEW p \in Offers, NEW role \in Roles, ConfirmComplete(p, role)
        PROVE  DealStep(o)
    <2> DEFINE d == WithComplete(p, deal[p], role)
    <2>1. deal[p] \in Deal
      BY DEF TypeOK
    <2>2. /\ deal[p].status = "OPEN" /\ AllDone(p, deal[p])
          /\ deal' = [deal EXCEPT ![p] = d]
      BY <1>9 DEF ConfirmComplete
    <2>3. /\ Keeps(p, deal[p], d) /\ d.moved = deal[p].moved
          /\ \/ d.status = deal[p].status
             \/ d.status = "COMPLETED" /\ AllDone(p, d) /\ Signed(d)
      BY <2>1, <2>2, CompletionKeeps
    <2> QED
      BY <1>3, <2>2, <2>3
  <1>10. CASE deal' = deal
    BY <1>10 DEF DealStep
  <1> QED
    BY <1>1, <1>2, <1>4, <1>5, <1>6, <1>7, <1>8, <1>9, <1>10
    DEF Next, OfferStep, PartyStep, Claim, List, CancelListing, MakeOffer, Reject,
        CancelDeal, ExpireIntent, Expire, store

-----------------------------------------------------------------------------
(* A deal exists exactly for the accepted offers.                          *)

LEMMA DealStays ==
  ASSUME TypeOK, Next, NEW o \in Offers, deal[o].status # "ABSENT"
  PROVE  deal'[o].status # "ABSENT"
  <1>1. deal[o] \in Deal
    BY DEF TypeOK
  <1>2. [deal[o] EXCEPT !.moved = TRUE].status = deal[o].status
    BY <1>1 DEF Deal
  <1>3. FreshDeal.status # "ABSENT"
    BY DEF FreshDeal
  <1> QED
    BY DealSteps, <1>2, <1>3 DEF DealStep

LEMMA StatusOnly ==
  ASSUME TypeOK, NEW k \in Listings, NEW s,
         listing' = [listing EXCEPT ![k].status = s], NEW l \in Listings
  PROVE  listing'[l].deal = listing[l].deal
  BY DEF TypeOK, Listing

LEMMA DealIffAcceptedStep ==
  TypeOK /\ DealIffAccepted /\ [Next]_vars => DealIffAccepted'
  <1> SUFFICES ASSUME TypeOK, DealIffAccepted, Next
               PROVE  DealIffAccepted'
    BY DEF vars, store, DealIffAccepted
  <1> USE MarketConstants, MarketplaceConstants
  <1>1. ASSUME NEW o \in Offers
        PROVE  deal'[o].status # "ABSENT" <=> offer'[o] \in {"ACCEPTED", "DEAL_CANCELLED"}
    <2>1. deal[o].status # "ABSENT" <=> offer[o] \in {"ACCEPTED", "DEAL_CANCELLED"}
      BY DEF DealIffAccepted
    <2>2. ASSUME NEW p \in Offers, Accept(p)
          PROVE  deal'[o].status # "ABSENT" <=> offer'[o] \in {"ACCEPTED", "DEAL_CANCELLED"}
      BY <2>1, <2>2 DEF Accept, Decided, FreshDeal, TypeOK
    <2>3. ASSUME NEW p \in Offers, CancelDeal(p)
          PROVE  deal'[o].status # "ABSENT" <=> offer'[o] \in {"ACCEPTED", "DEAL_CANCELLED"}
      BY <2>1, <2>3 DEF CancelDeal, TypeOK
    <2>4. ASSUME NEW p \in Offers, MakeOffer(p) \/ Reject(p)
          PROVE  deal'[o].status # "ABSENT" <=> offer'[o] \in {"ACCEPTED", "DEAL_CANCELLED"}
      BY <2>1, <2>4 DEF MakeOffer, Reject, TypeOK
    <2>5. ASSUME offer' = offer, ~ \E p \in Offers : Accept(p)
          PROVE  deal'[o].status # "ABSENT" <=> offer'[o] \in {"ACCEPTED", "DEAL_CANCELLED"}
      <3>1. deal'[o].status # "ABSENT" <=> deal[o].status # "ABSENT"
        <4>1. DealStep(o)
          BY DealSteps
        <4>2. deal[o] \in Deal
          BY DEF TypeOK
        <4>3. [deal[o] EXCEPT !.moved = TRUE].status = deal[o].status
          BY <4>2 DEF Deal
        <4>4. "COMPLETED" # "ABSENT"
          OBVIOUS
        <4> QED
          BY <2>5, <4>1, <4>3, <4>4 DEF DealStep
      <3> QED
        BY <2>1, <2>5, <3>1
    <2> QED
      BY <2>2, <2>3, <2>4, <2>5
      DEF Next, OfferStep, PartyStep, Claim, List, CancelListing, TransferIntent,
          TransferAccept, FeeRightEvidence, PaymentEvidence, ConfirmPayment,
          ConfirmAsset, ConfirmComplete, ExpireIntent, Expire, store
  <1>2. ASSUME NEW l \in Listings, listing'[l].deal # None
        PROVE  /\ ListingOf[listing'[l].deal] = l
               /\ deal'[listing'[l].deal].status # "ABSENT"
    <2>1. listing'[l].deal = listing[l].deal
          \/ \E o \in Offers : Accept(o) /\ ListingOf[o] = l /\ listing'[l].deal = o
      <3>1. listing[l] \in Listing
        BY DEF TypeOK
      <3>2. ASSUME NEW o \in Offers, Accept(o)
            PROVE  listing'[l] = listing[l]
                   \/ (ListingOf[o] = l /\ listing'[l].deal = o)
        BY <3>2 DEF Accept, TypeOK
      <3>3. ASSUME NEW k \in Listings, List(k) \/ CancelListing(k)
            PROVE  listing'[l].deal = listing[l].deal
        <4>1. \E s \in {"ACTIVE", "CANCELLED"} :
                 listing' = [listing EXCEPT ![k].status = s]
          BY <3>3 DEF List, CancelListing
        <4> QED
          BY <4>1, StatusOnly
      <3>4. ASSUME NEW o \in Offers, TransferIntent(o)
            PROVE  listing'[l].deal = listing[l].deal
        BY <3>1, <3>4 DEF TransferIntent, TypeOK, Listing
      <3>5. ASSUME NEW o \in Offers, NEW role \in Roles, ConfirmComplete(o, role)
            PROVE  listing'[l].deal = listing[l].deal
        <4>1. listing' = listing \/ listing' = [listing EXCEPT ![ListingOf[o]].status = "COMPLETED"]
          BY <3>5 DEF ConfirmComplete
        <4> QED
          BY <4>1, StatusOnly
      <3>6. ASSUME NEW o \in Offers, CancelDeal(o)
            PROVE  listing'[l].deal = listing[l].deal
        <4>1. listing' = [listing EXCEPT ![ListingOf[o]] =
                            Reopened(deal[o], listing[ListingOf[o]])]
          BY <3>6 DEF CancelDeal
        <4>2. deal[o] \in Deal /\ listing[ListingOf[o]] \in Listing
          BY DEF TypeOK
        <4>3. Reopened(deal[o], listing[ListingOf[o]]).deal
                \in {None, listing[ListingOf[o]].deal}
          BY <4>2, ReopenedType
        <4> QED
          BY <1>2, <4>1, <4>3 DEF TypeOK
      <3> QED
        BY <3>2, <3>3, <3>4, <3>5, <3>6
        DEF Next, OfferStep, PartyStep, Claim, MakeOffer, Reject, TransferAccept,
            FeeRightEvidence, PaymentEvidence, ConfirmPayment, ConfirmAsset,
            ExpireIntent, Expire, store
    <2>2. CASE listing'[l].deal = listing[l].deal
      <3>1. listing[l].deal \in Offers
        BY <1>2, <2>2 DEF TypeOK, Listing
      <3> QED
        BY <1>2, <2>2, <3>1, DealStays DEF DealIffAccepted
    <2>3. ASSUME NEW o \in Offers, Accept(o), ListingOf[o] = l, listing'[l].deal = o
          PROVE  /\ ListingOf[listing'[l].deal] = l
                 /\ deal'[listing'[l].deal].status # "ABSENT"
      BY <2>3 DEF Accept, TypeOK, FreshDeal
    <2> QED
      BY <2>1, <2>2, <2>3
  <1> QED
    BY <1>1, <1>2 DEF DealIffAccepted

LEMMA BlankStep == TypeOK /\ AbsentIsBlank /\ [Next]_vars => AbsentIsBlank'
  <1> SUFFICES ASSUME TypeOK, AbsentIsBlank, Next, NEW o \in Offers,
                      deal'[o].status = "ABSENT"
               PROVE  deal'[o] = NoDeal
    BY DEF vars, store, AbsentIsBlank
  <1>1. deal[o].status = "ABSENT" /\ deal[o] = NoDeal
    BY DealStays DEF AbsentIsBlank
  <1>2. ~TransferAccept(o)
    BY <1>1 DEF TransferAccept
  <1>3. FreshDeal.status # "ABSENT"
    BY DEF FreshDeal
  <1> QED
    BY <1>1, <1>2, <1>3, DealSteps DEF DealStep

-----------------------------------------------------------------------------
(* Nothing settled is lost.                                                *)

LEMMA OnlyBlankDealsAreMade ==
  ASSUME DealIffAccepted, AbsentIsBlank, NEW o \in Offers, Accept(o)
  PROVE  deal[o] = NoDeal
  BY DEF DealIffAccepted, AbsentIsBlank, Accept

LEMMA FreshDealKeeps == \A o \in Offers : Keeps(o, NoDeal, FreshDeal)
  <1>1. Roles # {}
    BY DEF Roles
  <1> QED
    BY <1>1 DEF Keeps, NoDeal, FreshDeal, PaymentDone, AssetDone

LEMMA StepKeeps ==
  ASSUME TypeOK, DealIffAccepted, AbsentIsBlank, Next, NEW o \in Offers
  PROVE  Keeps(o, deal[o], deal'[o])
  <1>1. deal[o] \in Deal
    BY DEF TypeOK
  <1>2. Keeps(o, deal[o], deal[o])
        /\ Keeps(o, deal[o], [deal[o] EXCEPT !.moved = TRUE])
    BY <1>1, EditsKeep
  <1>3. ASSUME Accept(o), deal'[o] = FreshDeal
        PROVE  Keeps(o, deal[o], deal'[o])
    BY <1>3, OnlyBlankDealsAreMade, FreshDealKeeps
  <1> QED
    BY <1>2, <1>3, DealSteps DEF DealStep

\* Invariant: the deals that exist are those accepted, and the rest are blank.
DealsInv == TypeOK /\ DealIffAccepted /\ AbsentIsBlank

LEMMA DealsInvariant == Spec => []DealsInv
  <1>1. Init => DealIffAccepted /\ AbsentIsBlank
    BY DEF Init, DealIffAccepted, AbsentIsBlank, NoDeal, FreshDeal
  <1> QED
    BY <1>1, InitType, StepType, DealIffAcceptedStep, BlankStep, PTL DEF Spec, DealsInv

\* There is a deal exactly for the offers that were accepted.
THEOREM DealTheorem == Spec => []DealIffAccepted
  BY DealsInvariant, PTL DEF DealsInv

\* No request, in any order, undoes a settled item, a completion signature or
\* the completion of a deal.
THEOREM SettledTheorem == Spec => SettledStays
  <1>1. DealsInv /\ [Next]_vars =>
          [\A o \in Offers :
             /\ deal[o].status = "COMPLETED" => deal'[o].status = "COMPLETED"
             /\ deal[o].moved => deal'[o].moved
             /\ deal[o].feeTx # None => deal'[o].feeTx # None
             /\ PaymentDone(o, deal[o]) => PaymentDone(o, deal'[o])
             /\ AssetDone(o, deal[o]) => AssetDone(o, deal'[o])
             /\ \A role \in Roles :
                  deal[o].complete[role] # {} => deal'[o].complete[role] # {}]_vars
    BY StepKeeps DEF DealsInv, Keeps
  <1> QED
    BY <1>1, DealsInvariant, PTL DEF Spec, SettledStays

\* An offer is decided once.
THEOREM OfferTheorem == Spec => OfferLifecycle
  <1>1. ASSUME DealsInv, Next, NEW o \in Offers, offer'[o] # offer[o]
        PROVE  \/ offer[o] = "ABSENT" /\ offer'[o] = "PENDING"
               \/ offer[o] = "PENDING" /\ offer'[o] \in {"ACCEPTED", "REJECTED", "SUPERSEDED"}
               \/ offer[o] = "ACCEPTED" /\ offer'[o] = "DEAL_CANCELLED"
    <2>1. CASE \E p \in Offers : MakeOffer(p) \/ Reject(p)
      BY <1>1, <2>1 DEF MakeOffer, Reject, DealsInv, TypeOK
    <2>2. CASE \E p \in Offers : Accept(p)
      BY <1>1, <2>2 DEF Accept, Decided
    <2>3. CASE \E p \in Offers : CancelDeal(p)
      BY <1>1, <2>3 DEF CancelDeal, DealsInv, DealIffAccepted, TypeOK
    <2>4. CASE offer' = offer
      BY <1>1, <2>4
    <2> QED
      BY <1>1, <2>1, <2>2, <2>3, <2>4
      DEF Next, OfferStep, PartyStep, Claim, List, CancelListing, TransferIntent,
          TransferAccept, FeeRightEvidence, PaymentEvidence, ConfirmPayment,
          ConfirmAsset, ConfirmComplete, ExpireIntent, Expire, store
  <1>2. DealsInv /\ [Next]_vars =>
          [\A o \in Offers : offer'[o] # offer[o] =>
             \/ offer[o] = "ABSENT" /\ offer'[o] = "PENDING"
             \/ offer[o] = "PENDING" /\ offer'[o] \in {"ACCEPTED", "REJECTED", "SUPERSEDED"}
             \/ offer[o] = "ACCEPTED" /\ offer'[o] = "DEAL_CANCELLED"]_vars
    BY <1>1
  <1> QED
    BY <1>2, DealsInvariant, PTL DEF Spec, OfferLifecycle

-----------------------------------------------------------------------------
(* A payment settles one deal.                                             *)

LEMMA PayStep ==
  ASSUME TypeOK, Next, NEW o \in Offers
  PROVE  \/ deal'[o].payTx = deal[o].payTx
         \/ deal'[o].payTx = None
         \/ \E x \in Txs : PaymentEvidence(o, x) /\ deal'[o].payTx = x
  <1> USE MarketConstants, MarketplaceConstants
  <1>0. \A p \in Offers : deal[p] \in Deal
    BY DEF TypeOK
  <1>1. ASSUME NEW p \in Offers, NEW role \in Roles, ConfirmComplete(p, role)
        PROVE  deal'[o].payTx = deal[o].payTx
    <2>1. WithComplete(p, deal[p], role).payTx = deal[p].payTx
      BY <1>0, <1>1, CompletionKeeps DEF ConfirmComplete
    <2> QED
      BY <1>1, <2>1 DEF ConfirmComplete, TypeOK
  <1>2. ASSUME NEW p \in Offers, Accept(p)
        PROVE  deal'[o].payTx = deal[o].payTx \/ deal'[o].payTx = None
    BY <1>2 DEF Accept, FreshDeal, TypeOK
  <1>3. ASSUME NEW p \in Offers, NEW x \in Txs, PaymentEvidence(p, x)
        PROVE  \/ deal'[o].payTx = deal[o].payTx
               \/ PaymentEvidence(o, x) /\ deal'[o].payTx = x
    <2>1. deal' = [deal EXCEPT ![p].payTx = x]
      BY <1>3 DEF PaymentEvidence
    <2>2. CASE p = o
      BY <1>0, <1>3, <2>1, <2>2 DEF TypeOK, Deal
    <2>3. CASE p # o
      BY <2>1, <2>3 DEF TypeOK
    <2> QED
      BY <2>2, <2>3
  <1>4. ASSUME NEW p \in Offers, TransferIntent(p) \/ TransferAccept(p)
        PROVE  deal'[o].payTx = deal[o].payTx
    <2>1. \/ deal' = [deal EXCEPT ![p].intent = TRUE]
          \/ deal' = [deal EXCEPT ![p].moved = TRUE]
      BY <1>4 DEF TransferIntent, TransferAccept
    <2>2. CASE deal' = [deal EXCEPT ![p].intent = TRUE]
      BY <1>0, <2>2 DEF TypeOK, Deal
    <2>3. CASE deal' = [deal EXCEPT ![p].moved = TRUE]
      BY <1>0, <2>3 DEF TypeOK, Deal
    <2> QED
      BY <2>1, <2>2, <2>3
  <1>5. ASSUME NEW p \in Offers, NEW x \in Txs, FeeRightEvidence(p, x)
        PROVE  deal'[o].payTx = deal[o].payTx
    BY <1>0, <1>5 DEF FeeRightEvidence, TypeOK, Deal
  <1>6. ASSUME NEW p \in Offers, NEW role \in Roles,
               ConfirmPayment(p, role) \/ ConfirmAsset(p, role)
        PROVE  deal'[o].payTx = deal[o].payTx
    <2>1. \/ deal' = [deal EXCEPT ![p].payBy = @ \cup {role}]
          \/ deal' = [deal EXCEPT ![p].assetBy = @ \cup {role}]
      BY <1>6 DEF ConfirmPayment, ConfirmAsset
    <2>2. CASE deal' = [deal EXCEPT ![p].payBy = @ \cup {role}]
      BY <1>0, <2>2 DEF TypeOK, Deal
    <2>3. CASE deal' = [deal EXCEPT ![p].assetBy = @ \cup {role}]
      BY <1>0, <2>3 DEF TypeOK, Deal
    <2> QED
      BY <2>1, <2>2, <2>3
  <1>7. CASE deal' = deal
    BY <1>7
  <1> QED
    BY <1>1, <1>2, <1>3, <1>4, <1>5, <1>6, <1>7
    DEF Next, OfferStep, PartyStep, Claim, List, CancelListing, MakeOffer, Reject,
        CancelDeal, ExpireIntent, Expire, store

LEMMA PaymentStep ==
  TypeOK /\ PaymentSingleUse /\ [Next]_vars => PaymentSingleUse'
  <1> SUFFICES ASSUME TypeOK, PaymentSingleUse, Next, NEW o \in Offers,
                      deal'[o].payTx # None
               PROVE  payTx'[deal'[o].payTx] = o /\ o \in Pays[deal'[o].payTx]
    BY DEF vars, store, PaymentSingleUse
  <1> USE MarketConstants
  <1>1. deal[o] \in Deal
    BY DEF TypeOK
  <1>2. \A y \in Txs : payTx[y] # None => payTx'[y] = payTx[y]
    <2>1. payTx' = payTx \/ \E p \in Offers, x \in Txs : PaymentEvidence(p, x)
      BY DEF Next, OfferStep, PartyStep, Claim, List, CancelListing, MakeOffer,
         Reject, Accept, TransferIntent, TransferAccept, FeeRightEvidence,
         ConfirmPayment, ConfirmAsset, ConfirmComplete, CancelDeal, ExpireIntent,
         Expire, store
    <2> QED
      BY <2>1 DEF PaymentEvidence, TypeOK
  <1>3. CASE deal'[o].payTx = deal[o].payTx
    <2>1. deal[o].payTx \in Txs
      BY <1>1, <1>3 DEF Deal
    <2> QED
      BY <1>2, <1>3, <2>1 DEF PaymentSingleUse
  <1>4. ASSUME NEW x \in Txs, PaymentEvidence(o, x), deal'[o].payTx = x
        PROVE  payTx'[deal'[o].payTx] = o /\ o \in Pays[deal'[o].payTx]
    BY <1>4 DEF PaymentEvidence, TypeOK
  <1> QED
    BY <1>3, <1>4, PayStep

\* A payment hash is attached to one deal, for good: no two deals ever show
\* the same payment, and the payment shown does pay the deal.
THEOREM PaymentTheorem == Spec => []PaymentSingleUse
  <1>1. Init => PaymentSingleUse
    BY DEF Init, PaymentSingleUse, NoDeal, FreshDeal
  <1> QED
    BY <1>1, PaymentStep, TypeCorrect, PTL DEF Spec

-----------------------------------------------------------------------------
(* The deal and the Passport tell one story.                               *)

\* What a step adds to the transfers a Passport records.
LEMMA RecordsStep ==
  ASSUME TypeOK, HistoryExplainsOperator, Next, NEW o \in Offers
  PROVE  Records(passport'[TokenIn(o)], o) <=>
           Records(passport[TokenIn(o)], o) \/ TransferAccept(o)
  <1> DEFINE t == TokenIn(o)
             h == passport[t].history
             g == passport'[t].history
  <1> USE MarketConstants
  <1>0. t \in Tokens
    BY DEF TokenIn
  <1>1. passport[t] \in Passport /\ Explained(t, passport[t])
    BY <1>0 DEF TypeOK, HistoryExplainsOperator
  <1>2. h \in Seq(Move)
    BY <1>1 DEF Passport
  <1>3. ASSUME NEW p \in Offers, TokenIn(p) = t, TransferAccept(p)
        PROVE  Records(passport'[t], o) <=> Records(passport[t], o) \/ o = p
    <2>1. passport'[t] = WithTransfer(passport[t], p)
      BY <1>0, <1>3 DEF TransferAccept, TypeOK
    <2> DEFINE e == [from |-> SellerIn(p), to |-> BuyerOf[p], deal |-> p]
    <2>2. g = Append(h, e)
      BY <1>1, <2>1, WithTransferType
    <2>3. e.deal = p
      OBVIOUS
    <2> HIDE DEF e, h, g
    <2>4. /\ DOMAIN h = 1..Len(h) /\ DOMAIN g = 1..(Len(h) + 1)
          /\ \A i \in 1..Len(h) : g[i] = h[i]
          /\ g[Len(h) + 1] = e
          /\ Len(h) \in Nat
      BY <1>2, <2>2
    <2>5. DOMAIN g = DOMAIN h \cup {Len(h) + 1}
      BY <2>4
    <2>6. (\E i \in DOMAIN g : g[i].deal = o)
            <=> (\E i \in DOMAIN h : h[i].deal = o) \/ o = p
      BY <2>3, <2>4, <2>5
    <2> QED
      BY <2>6 DEF Records, g, h
  <1>4. CASE passport[t].operator = None
             /\ \E w \in Wallets : passport'[t] = WithClaim(passport[t], w)
    <2>1. h = <<>>
      <3>1. CASE h # <<>>
        <4>1. h[Len(h)].to = None
          BY <1>1, <1>4, <3>1 DEF Explained
        <4>2. Len(h) \in DOMAIN h
          BY <1>2, <3>1
        <4>3. h[Len(h)] \in Move
          BY <1>2, <4>2
        <4>4. h[Len(h)].to \in Wallets
          BY <4>3 DEF Move
        <4> QED
          BY <4>1, <4>4
      <3> QED
        BY <3>1
    <2>2. PICK w \in Wallets : passport'[t] = WithClaim(passport[t], w)
      BY <1>4
    <2>3. g = <<[from |-> None, to |-> w, deal |-> None]>>
      BY <1>4, <2>2 DEF WithClaim
    <2>4. ~Records(passport[t], o)
      BY <2>1 DEF Records
    <2>5. ~Records(passport'[t], o)
      BY <2>3 DEF Records
    <2>6. ~TransferAccept(o)
      BY <1>4 DEF TransferAccept, SellerIn
    <2> QED
      BY <2>4, <2>5, <2>6
  <1>5. CASE g = h /\ ~ \E p \in Offers : TokenIn(p) = t /\ TransferAccept(p)
    BY <1>5 DEF Records
  <1>6. ASSUME TransferAccept(o)
        PROVE  Records(passport'[t], o)
    BY <1>3, <1>6
  <1>7. PassportStep(t)
    BY <1>0, PassportSteps
  <1>8. ASSUME NEW p \in Offers, TokenIn(p) = t, TransferAccept(p), p # o,
               TransferAccept(o)
        PROVE  Records(passport[t], o)
    BY <1>3, <1>6, <1>8
  <1> QED
    BY <1>3, <1>4, <1>5, <1>6, <1>7, <1>8 DEF PassportStep

LEMMA RecordedStep ==
  ASSUME DealsInv, HistoryExplainsOperator, TransferIsRecorded, Next, NEW o \in Offers
  PROVE  deal'[o].moved <=> Records(passport'[TokenIn(o)], o)
  <1>1. deal[o] \in Deal /\ TypeOK
    BY DEF DealsInv, TypeOK
  <1>2. deal[o].moved <=> Records(passport[TokenIn(o)], o)
    BY DEF TransferIsRecorded
  <1>3. deal'[o].moved <=> deal[o].moved \/ TransferAccept(o)
    <2>1. [deal[o] EXCEPT !.moved = TRUE].moved = TRUE
      BY <1>1 DEF Deal
    <2>2. ASSUME TransferAccept(o)
          PROVE  deal'[o].moved = TRUE
      BY <1>1, <2>1, <2>2 DEF TransferAccept, TypeOK
    <2>3. ASSUME Accept(o), deal'[o] = FreshDeal
          PROVE  ~deal'[o].moved /\ ~deal[o].moved
      BY <2>3, OnlyBlankDealsAreMade DEF DealsInv, FreshDeal, NoDeal
    <2> QED
      BY <1>1, <2>1, <2>2, <2>3, DealSteps DEF DealStep, Accept, TransferAccept
  <1> QED
    BY <1>1, <1>2, <1>3, RecordsStep

\* A deal says that the Passport has moved exactly when the Passport says it
\* has moved by that deal.
THEOREM RecordedTheorem == Spec => []TransferIsRecorded
  <1>1. Init => TransferIsRecorded
    <2>1. \A o \in Offers : TokenIn(o) \in Tokens
      BY MarketConstants DEF TokenIn
    <2>2. NoPassport.history = <<>> /\ NoDeal.moved = FALSE
      BY DEF NoPassport, NoDeal, FreshDeal
    <2> QED
      BY <2>1, <2>2 DEF Init, TransferIsRecorded, Records
  <1>2. DealsInv /\ HistoryExplainsOperator /\ TransferIsRecorded /\ [Next]_vars
          => TransferIsRecorded'
    <2>1. CASE Next
      BY <2>1, RecordedStep DEF TransferIsRecorded
    <2>2. CASE UNCHANGED vars
      BY <2>2 DEF vars, store, TransferIsRecorded
    <2> QED
      BY <2>1, <2>2
  <1> QED
    BY <1>1, <1>2, DealsInvariant, HistoryTheorem, PTL DEF Spec

\* Whoever completes a deal, its buyer received the Passport by this very
\* deal, its checklist is done and both parties signed, then and ever after.
THEOREM CompletionTheorem == Spec => []CompletedIsSettled
  <1> DEFINE Inv(o) == deal[o].status = "COMPLETED" => AllDone(o, deal[o]) /\ Signed(deal[o])
             I == \A o \in Offers : Inv(o)
  <1>1. Init => I
    BY DEF Init, NoDeal, FreshDeal
  <1>2. DealsInv /\ I /\ [Next]_vars => I'
    <2>1. ASSUME DealsInv, I, Next, NEW o \in Offers, deal'[o].status = "COMPLETED"
          PROVE  AllDone(o, deal'[o]) /\ Signed(deal'[o])
      <3>1. deal[o] \in Deal /\ TypeOK
        BY <2>1 DEF DealsInv, TypeOK
      <3>2. Keeps(o, deal[o], deal'[o])
        BY <2>1, StepKeeps DEF DealsInv
      <3>3. \/ deal[o].status = "COMPLETED"
            \/ AllDone(o, deal'[o]) /\ Signed(deal'[o])
        <4>1. [deal[o] EXCEPT !.moved = TRUE].status = deal[o].status
          BY <3>1 DEF Deal
        <4>2. FreshDeal.status # "COMPLETED"
          BY DEF FreshDeal
        <4> QED
          BY <2>1, <3>1, <4>1, <4>2, DealSteps DEF DealStep
      <3> QED
        BY <2>1, <3>2, <3>3 DEF Keeps, AllDone, Signed
    <2> QED
      BY <2>1 DEF vars, store
  <1>3. I /\ TransferIsRecorded => CompletedIsSettled
    BY DEF TransferIsRecorded, CompletedIsSettled, AllDone, Signed
  <1> QED
    BY <1>1, <1>2, <1>3, DealsInvariant, RecordedTheorem, PTL DEF Spec
=============================================================================
