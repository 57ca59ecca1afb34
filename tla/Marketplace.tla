----------------------------- MODULE Marketplace -----------------------------
(***************************************************************************)
(* The Marketplace as its protocol intends it: each request is handled in  *)
(* one step (netlify/functions/marketplace.js, write()), and no step is    *)
(* cut short.  Every signed request carries a fresh random nonce, so none  *)
(* is refused as a replay here, and the signature is that of the wallet an  *)
(* action names.  A refused request changes nothing and is no step.        *)
(* MarketplaceAsync is the same service with its awaits, its nonces and    *)
(* its crashes.                                                            *)
(***************************************************************************)
EXTENDS MarketRecords

CONSTANTS
  Deployer,           \* token -> the deployer in its factory's record
  Expiring,           \* bound: the listings and offers (and the intents of the
                      \* offers' deals) whose signed expiry may pass
  Moves               \* bound: operator entries a Passport may have when it moves

ASSUME MarketplaceConstants ==
  /\ Deployer \in [Tokens -> Wallets]
  /\ Expiring \subseteq Listings \cup Offers
  /\ Moves \subseteq Nat

VARIABLES
  passport, listing, offer, deal,    \* the stored records, by id
  payTx,                             \* mp:paytx: the deal a payment hash is attached to
  expired,                           \* listings and offers whose signed expiry has passed
  lapsed                             \* deals whose current transfer intent has expired

store == <<passport, listing, offer, deal, payTx>>
time  == <<expired, lapsed>>
vars  == <<store, time>>

TypeOK ==
  /\ passport \in [Tokens -> Passport]
  /\ listing \in [Listings -> Listing]
  /\ offer \in [Offers -> OfferStatus]
  /\ deal \in [Offers -> Deal]
  /\ payTx \in [Txs -> Offers \cup {None}]
  /\ expired \subseteq Listings \cup Offers
  /\ lapsed \subseteq Offers

Init ==
  /\ passport = [t \in Tokens |-> NoPassport]
  /\ listing = [l \in Listings |-> [status |-> "ABSENT", deal |-> None]]
  /\ offer = [o \in Offers |-> "ABSENT"]
  /\ deal = [o \in Offers |-> NoDeal]
  /\ payTx = [x \in Txs |-> None]
  /\ expired = {}
  /\ lapsed = {}

-----------------------------------------------------------------------------
(* Guards the handlers share.                                              *)

\* listingStatus(l) = 'ACTIVE': an expired listing is never active.
Active(l) == listing[l].status = "ACTIVE" /\ l \notin expired

\* What a live read of the token's factory says of the creator-fee right: its
\* recipient (None: not a wallet) and whether a protocol override of it is
\* pending.  The chain moves on its own, so a read may say anything.
FeeRights == [recipient : Wallets \cup {None}, overridden : BOOLEAN]

\* The claim's evidence: the deployer, the recipient the chain names or the
\* recognised operator.
Evidence(t, w) ==
  w \in {Deployer[t], passport[t].operator} \cup {fee.recipient : fee \in FeeRights}

-----------------------------------------------------------------------------
(* Passport and listings.                                                  *)

Claim(t, w) ==
  /\ Evidence(t, w)
  /\ passport[t].operator \in {None, w}
  /\ passport' = [passport EXCEPT ![t] = WithClaim(@, w)]
  /\ UNCHANGED <<listing, offer, deal, payTx, time>>

List(l) ==
  LET t == TokenOf[l]
      seller == SellerOf[l]
  IN /\ passport[t].operator = seller
     /\ l \in FeeIncluded => \E fee \in FeeRights :
                              fee.recipient = seller /\ ~fee.overridden
     /\ listing[l].status = "ABSENT"
     /\ l \notin expired
     /\ \A k \in Listings : TokenOf[k] = t => ~Active(k)
     /\ listing' = [listing EXCEPT ![l].status = "ACTIVE"]
     /\ passport' = [passport EXCEPT ![t].listing = l]
     /\ UNCHANGED <<offer, deal, payTx, time>>

\* An expired listing can still be cancelled.
CancelListing(l) ==
  /\ listing[l].status = "ACTIVE"
  /\ listing' = [listing EXCEPT ![l].status = "CANCELLED"]
  /\ passport' = [passport EXCEPT ![TokenOf[l]] = Unlisted(@, l)]
  /\ UNCHANGED <<offer, deal, payTx, time>>

-----------------------------------------------------------------------------
(* Offers.                                                                 *)

MakeOffer(o) ==
  /\ Active(ListingOf[o])
  /\ BuyerOf[o] # SellerIn(o)
  /\ offer[o] = "ABSENT"
  /\ o \notin expired
  /\ offer' = [offer EXCEPT ![o] = "PENDING"]
  /\ UNCHANGED <<passport, listing, deal, payTx, time>>

\* Mutation of Reject: an offer already decided can be rejected.
Reject_Any(o) ==
  /\ offer[o] # "ABSENT"
  /\ offer' = [offer EXCEPT ![o] = "REJECTED"]
  /\ UNCHANGED <<passport, listing, deal, payTx, time>>

\* The stored status decides; an expired offer can still be rejected.
Reject(o) ==
  /\ offer[o] = "PENDING"
  /\ offer' = [offer EXCEPT ![o] = "REJECTED"]
  /\ UNCHANGED <<passport, listing, deal, payTx, time>>

\* The offer's status once o is accepted: every other pending offer on the
\* same listing is superseded.
Decided(o) ==
  [x \in Offers |->
     IF x = o THEN "ACCEPTED"
     ELSE IF ListingOf[x] = ListingOf[o] /\ offer[x] = "PENDING"
          THEN "SUPERSEDED"
          ELSE offer[x]]

Accept(o) ==
  LET l == ListingOf[o] IN
  /\ offer[o] = "PENDING"
  /\ Active(l)
  /\ o \notin expired
  /\ offer' = Decided(o)
  /\ listing' = [listing EXCEPT ![l] = [status |-> "OFFER_ACCEPTED", deal |-> o]]
  /\ deal' = [deal EXCEPT ![o] = FreshDeal]
  /\ UNCHANGED <<passport, payTx, time>>

-----------------------------------------------------------------------------
(* The two-signature operator transfer.                                    *)

TransferIntent(o) ==
  LET l == ListingOf[o] IN
  /\ deal[o].status = "OPEN"
  /\ passport[TokenIn(o)].operator = SellerIn(o)
  /\ deal' = [deal EXCEPT ![o].intent = TRUE]
  /\ lapsed' = lapsed \ {o}
  /\ listing' = [listing EXCEPT ![l].status =
                   IF @ = "OFFER_ACCEPTED" THEN "IN_TRANSFER" ELSE @]
  /\ UNCHANGED <<passport, offer, payTx, expired>>

\* Mutation of TransferAccept: whoever operates the token by now.
TransferAccept_AnyOperator(o) ==
  LET t == TokenIn(o) IN
  /\ deal[o].status = "OPEN"
  /\ deal[o].intent
  /\ o \notin lapsed
  /\ Len(passport[t].history) \in Moves
  /\ deal' = [deal EXCEPT ![o].moved = TRUE]
  /\ passport' = [passport EXCEPT ![t] = WithTransfer(@, o)]
  /\ UNCHANGED <<listing, offer, payTx, time>>

\* The buyer signs over the hash of the current, unexpired intent.
TransferAccept(o) ==
  LET t == TokenIn(o) IN
  /\ deal[o].status = "OPEN"
  /\ deal[o].intent
  /\ o \notin lapsed
  /\ passport[t].operator = SellerIn(o)
  /\ Len(passport[t].history) \in Moves           \* bound
  /\ deal' = [deal EXCEPT ![o].moved = TRUE]
  /\ passport' = [passport EXCEPT ![t] = WithTransfer(@, o)]
  /\ UNCHANGED <<listing, offer, payTx, time>>

-----------------------------------------------------------------------------
(* Evidence read from the chain.  Anyone may submit it, without a          *)
(* signature, whatever the deal's status.                                  *)

FeeRightEvidence(o, x) ==
  /\ deal[o].status # "ABSENT"
  /\ ListingOf[o] \in FeeIncluded
  /\ \E fee \in FeeRights : fee.recipient = BuyerOf[o] /\ ~fee.overridden
  /\ deal' = [deal EXCEPT ![o].feeTx = x]
  /\ UNCHANGED <<passport, listing, offer, payTx, time>>

\* Mutation of PaymentEvidence: a hash attached to another deal is taken.
PaymentEvidence_Reused(o, x) ==
  /\ deal[o].status # "ABSENT"
  /\ ListingOf[o] \in PaidOnChain
  /\ o \in Pays[x]
  /\ deal' = [deal EXCEPT ![o].payTx = x]
  /\ payTx' = [payTx EXCEPT ![x] = o]
  /\ UNCHANGED <<passport, listing, offer, time>>

PaymentEvidence(o, x) ==
  /\ deal[o].status # "ABSENT"
  /\ ListingOf[o] \in PaidOnChain
  /\ payTx[x] = None
  /\ o \in Pays[x]
  /\ deal' = [deal EXCEPT ![o].payTx = x]
  /\ payTx' = [payTx EXCEPT ![x] = o]
  /\ UNCHANGED <<passport, listing, offer, time>>

-----------------------------------------------------------------------------
(* Confirmations and cancellation.                                         *)

ConfirmPayment(o, role) ==
  /\ deal[o].status = "OPEN"
  /\ ListingOf[o] \notin PaidOnChain
  /\ deal' = [deal EXCEPT ![o].payBy = @ \cup {role}]
  /\ UNCHANGED <<passport, listing, offer, payTx, time>>

ConfirmAsset(o, role) ==
  /\ deal[o].status = "OPEN"
  /\ ListingOf[o] \in WithAsset
  /\ deal' = [deal EXCEPT ![o].assetBy = @ \cup {role}]
  /\ UNCHANGED <<passport, listing, offer, payTx, time>>

\* The signed stateHash must be that of the stored deal, so the signature
\* stored covers the current checklist.
ConfirmComplete(o, role) ==
  LET l == ListingOf[o]
      signed == WithComplete(o, deal[o], role)
      completes == signed.status = "COMPLETED"
  IN /\ deal[o].status = "OPEN"
     /\ AllDone(o, deal[o])
     /\ deal' = [deal EXCEPT ![o] = signed]
     /\ IF completes
        THEN /\ listing' = [listing EXCEPT ![l].status = "COMPLETED"]
             /\ passport' = [passport EXCEPT ![TokenIn(o)] = Unlisted(@, l)]
        ELSE UNCHANGED <<listing, passport>>
     /\ UNCHANGED <<offer, payTx, time>>

\* The handler sets d.status = 'CANCELLED' on the record it has read and
\* writes the listing, the offer and the Passport, but never that record.
CancelDeal(o) ==
  LET l == ListingOf[o] IN
  /\ deal[o].status = "OPEN"
  /\ listing' = [listing EXCEPT ![l] = Reopened(deal[o], @)]
  /\ offer' = [offer EXCEPT ![o] = "DEAL_CANCELLED"]
  /\ UNCHANGED <<passport, deal, payTx, time>>

-----------------------------------------------------------------------------
(* Time.                                                                   *)

Expire(x) ==
  /\ expired' = expired \cup {x}
  /\ UNCHANGED <<store, lapsed>>

ExpireIntent(o) ==
  /\ o \in Expiring                                \* bound
  /\ deal[o].intent
  /\ lapsed' = lapsed \cup {o}
  /\ UNCHANGED <<store, expired>>

-----------------------------------------------------------------------------
PartyStep(o) ==
  \E role \in Roles : \/ ConfirmPayment(o, role)
                      \/ ConfirmAsset(o, role)
                      \/ ConfirmComplete(o, role)

OfferStep(o) ==
  \/ MakeOffer(o)
  \/ Reject(o)
  \/ Accept(o)
  \/ TransferIntent(o)
  \/ TransferAccept(o)
  \/ CancelDeal(o)
  \/ ExpireIntent(o)
  \/ PartyStep(o)
  \/ \E x \in Txs : FeeRightEvidence(o, x) \/ PaymentEvidence(o, x)

Next ==
  \/ \E t \in Tokens, w \in Wallets : Claim(t, w)
  \/ \E l \in Listings : List(l) \/ CancelListing(l)
  \/ \E o \in Offers : OfferStep(o)
  \/ \E x \in Expiring : Expire(x)

Spec == Init /\ [][Next]_vars
-----------------------------------------------------------------------------
(* Safety.                                                                 *)

\* Every Passport's history explains its operator.
\* ("Once a Passport exists, its operator changes only through the signed
\* Marketplace transfer", MARKETPLACE_SECURITY.md.)
HistoryExplainsOperator == \A t \in Tokens : Explained(t, passport[t])

\* A deal says that its operator transfer is done exactly when the Passport
\* of its token records a transfer by that deal: the two records the
\* transfer-accept handler writes never tell different stories.
TransferIsRecorded ==
  \A o \in Offers : deal[o].moved <=> Records(passport[TokenIn(o)], o)

\* A completed deal is settled: its buyer received the Passport by this very
\* deal, every other item of its checklist is done, and both parties signed.
CompletedIsSettled ==
  \A o \in Offers : deal[o].status = "COMPLETED" =>
    /\ AllDone(o, deal[o])
    /\ \A role \in Roles : deal[o].complete[role] # {}
    /\ Records(passport[TokenIn(o)], o)

\* There is a deal exactly for the offers that were accepted, and a listing
\* that names a deal names one of its own, whose offer was accepted.
DealIffAccepted ==
  /\ \A o \in Offers :
       deal[o].status # "ABSENT" <=> offer[o] \in {"ACCEPTED", "DEAL_CANCELLED"}
  /\ \A l \in Listings : listing[l].deal # None =>
       /\ ListingOf[listing[l].deal] = l
       /\ deal[listing[l].deal].status # "ABSENT"

\* "each payment tx hash is single-use across all deals": the payment a deal
\* shows is attached to that deal, so no two deals show the same payment, and
\* it does pay that deal.
PaymentSingleUse ==
  \A o \in Offers : LET x == deal[o].payTx IN
    x # None => payTx[x] = o /\ o \in Pays[x]

\* An offer is decided once: PENDING -> ACCEPTED | REJECTED | SUPERSEDED,
\* and then only ACCEPTED -> DEAL_CANCELLED.
OfferLifecycle ==
  [][\A o \in Offers : offer'[o] # offer[o] =>
       \/ offer[o] = "ABSENT" /\ offer'[o] = "PENDING"
       \/ offer[o] = "PENDING" /\ offer'[o] \in {"ACCEPTED", "REJECTED", "SUPERSEDED"}
       \/ offer[o] = "ACCEPTED" /\ offer'[o] = "DEAL_CANCELLED"]_vars

\* What is settled stays settled: no later request undoes a done item, a
\* completion signature or the completion of a deal.
SettledStays ==
  [][\A o \in Offers :
       /\ deal[o].status = "COMPLETED" => deal'[o].status = "COMPLETED"
       /\ deal[o].moved => deal'[o].moved
       /\ deal[o].feeTx # None => deal'[o].feeTx # None
       /\ PaymentDone(o, deal[o]) => PaymentDone(o, deal'[o])
       /\ AssetDone(o, deal[o]) => AssetDone(o, deal'[o])
       /\ \A role \in Roles :
            deal[o].complete[role] # {} => deal'[o].complete[role] # {}]_vars

-----------------------------------------------------------------------------
(* What the documents say and the code does not do.                        *)

\* "Deal: OPEN -> COMPLETED | CANCELLED": the deal of a cancelled offer is
\* cancelled.
CancelledDealIsClosed ==
  \A o \in Offers : offer[o] = "DEAL_CANCELLED" => deal[o].status = "CANCELLED"

\* "any change to the deal after review makes the completion signature
\* unusable" (MARKETPLACE_SECURITY.md): a deal is completed by two signatures
\* over one state of it.  The state a signature covers is compared when it is
\* given, never when the other one completes the deal, and evidence of the
\* creator-fee right changes the state in between.
SignedTogether ==
  \A o \in Offers : deal[o].status = "COMPLETED" =>
    deal[o].complete["buyer"] = deal[o].complete["seller"]

\* "One ACTIVE listing per token."
OneActiveListing ==
  \A k, l \in Listings :
    Active(k) /\ Active(l) /\ TokenOf[k] = TokenOf[l] => k = l
=============================================================================
