--------------------------- MODULE MarketplaceAsync ---------------------------
(***************************************************************************)
(* The Marketplace as it runs: function invocations that share a key-value *)
(* store and touch it one get, set or sadd at a time, awaiting each answer *)
(* (netlify/functions/marketplace.js over netlify/lib/store.js).  Between  *)
(* two operations other invocations run, and an invocation may end without *)
(* the rest of its operations: a store or chain error is answered 503, the *)
(* platform may stop it.  No handler holds a lock or uses the store's       *)
(* compare-and-set.                                                        *)
(*                                                                         *)
(* A handler is its Plan, the operations it makes in order; what it        *)
(* requires of what it has read so far (May), the operations that a read   *)
(* adds to the plan (Adds), and what it writes (New), computed from the     *)
(* records it read.  Signed expiries are those of Marketplace and do not   *)
(* pass here; a deal's TransferIntent is signed once (bound), so the hash  *)
(* of its intent is fixed.                                                 *)
(***************************************************************************)
EXTENDS MarketRecords, SequencesExt

CONSTANTS
  Slots,              \* invocations that may run at a time
  Requests,           \* what the wallets sign and send, each with its own nonce
  MaxCrashes          \* bound: invocations that end early

Kinds == {"claim", "list", "cancel-listing", "offer", "accept", "reject",
          "transfer-intent", "transfer-accept", "fee-right-evidence",
          "payment-evidence", "confirm-payment", "confirm-asset",
          "confirm-complete", "deal-cancel"}

\* id: the token, listing or offer (deal) the request names; by: the claiming
\* wallet or the confirming role; tx: the evidence; n tells apart requests
\* that differ in their nonce only.
ASSUME AsyncConstants ==
  /\ MaxCrashes \in Nat
  /\ \A r \in Requests :
       /\ r.kind \in Kinds /\ r.n \in Nat
       /\ r.id \in CASE r.kind = "claim" -> Tokens
                    [] r.kind \in {"list", "cancel-listing"} -> Listings
                    [] OTHER -> Offers
       /\ r.kind = "claim" => r.by \in Wallets
       /\ r.kind \in {"confirm-payment", "confirm-asset", "confirm-complete"} => r.by \in Roles
       /\ r.kind \in {"fee-right-evidence", "payment-evidence"} => r.tx \in Txs

VARIABLES
  kv,                 \* the store
  run,                \* slot -> its invocation
  crashes

vars == <<kv, run, crashes>>

-----------------------------------------------------------------------------
(* Keys of the store.                                                      *)

PassportOf(t) == <<"passport", t>>
TheListing(l) == <<"listing", l>>
TheOffer(o)   == <<"offer", o>>
TheDeal(o)    == <<"deal", o>>
PayTx(x)      == <<"paytx", x>>
OffersOn(l)   == <<"offers", l>>           \* set of ids
Index         == <<"listings", None>>      \* set of ids
Nonce(r)      == <<"nonce", r>>

Keys ==
  {PassportOf(t) : t \in Tokens} \cup {TheListing(l) : l \in Listings}
  \cup {TheOffer(o) : o \in Offers} \cup {TheDeal(o) : o \in Offers}
  \cup {PayTx(x) : x \in Txs} \cup {OffersOn(l) : l \in Listings} \cup {Index}
  \cup {Nonce(r) : r \in Requests}

Empty ==
  [k \in Keys |-> CASE k[1] = "passport" -> NoPassport
                    [] k[1] = "listing" -> [status |-> "ABSENT", deal |-> None]
                    [] k[1] = "offer" -> "ABSENT"
                    [] k[1] = "deal" -> NoDeal
                    [] k[1] = "paytx" -> None
                    [] k[1] \in {"offers", "listings"} -> {}
                    [] k[1] = "nonce" -> FALSE]

-----------------------------------------------------------------------------
(* The handlers.                                                           *)

Get(k) == <<"get", k>>
Put(k) == <<"put", k>>
Add(k) == <<"add", k>>

OfListing(r) == r.kind \in {"list", "cancel-listing"}
L(r) == IF OfListing(r) THEN r.id ELSE ListingOf[r.id]
T(r) == IF r.kind = "claim" THEN r.id ELSE TokenOf[L(r)]

Passp(r) == PassportOf(T(r))
Listg(r) == TheListing(L(r))
Offr(r)  == TheOffer(r.id)
Deall(r) == TheDeal(r.id)

\* Mutation of Consume: the nonce is looked up and never stored.
Consume_NotStored(r) == <<Get(Nonce(r))>>

\* consumeNonce: a get, then a set.
Consume(r) == <<Get(Nonce(r)), Put(Nonce(r))>>

\* Mutation of AcceptPlan: the other offers stay.
AcceptPlan_OthersStay(r) ==
  <<Get(Listg(r)), Get(Offr(r))>> \o Consume(r)
  \o <<Put(Offr(r)), Put(Listg(r)), Put(Deall(r))>>

AcceptPlan(r) ==
  <<Get(Listg(r)), Get(Offr(r))>> \o Consume(r)
  \o <<Get(OffersOn(L(r))), Put(Offr(r)), Put(Listg(r)), Put(Deall(r))>>

\* Mutation of TransferPlan: the Passport is written first.
TransferPlan_PassportFirst(r) ==
  <<Get(Deall(r)), Get(Passp(r))>> \o Consume(r) \o <<Put(Passp(r)), Put(Deall(r))>>

TransferPlan(r) ==
  <<Get(Deall(r)), Get(Passp(r))>> \o Consume(r) \o <<Put(Deall(r)), Put(Passp(r))>>

PaymentPlan(r) ==
  <<Get(Deall(r)), Get(PayTx(r.tx)), Put(PayTx(r.tx)), Put(Deall(r))>>

Plan(r) ==
  CASE r.kind = "claim" ->
         <<Get(Passp(r))>> \o Consume(r) \o <<Put(Passp(r))>>
    [] r.kind = "list" ->
         <<Get(Passp(r)), Get(Listg(r)), Get(Index)>> \o Consume(r)
         \o <<Put(Listg(r)), Add(Index), Put(Passp(r))>>
    [] r.kind = "cancel-listing" ->
         <<Get(Listg(r))>> \o Consume(r)
         \o <<Put(Listg(r)), Get(Passp(r)), Put(Passp(r))>>
    [] r.kind = "offer" ->
         <<Get(Listg(r)), Get(Offr(r))>> \o Consume(r)
         \o <<Put(Offr(r)), Add(OffersOn(L(r)))>>
    [] r.kind = "accept" -> AcceptPlan(r)
    [] r.kind = "reject" ->
         <<Get(Listg(r)), Get(Offr(r))>> \o Consume(r) \o <<Put(Offr(r))>>
    [] r.kind = "transfer-intent" ->
         <<Get(Deall(r)), Get(Passp(r))>> \o Consume(r)
         \o <<Put(Deall(r)), Get(Listg(r))>>
    [] r.kind = "transfer-accept" -> TransferPlan(r)
    [] r.kind = "fee-right-evidence" -> <<Get(Deall(r)), Put(Deall(r))>>
    [] r.kind = "payment-evidence" -> PaymentPlan(r)
    [] r.kind \in {"confirm-payment", "confirm-asset", "confirm-complete"} ->
         <<Get(Deall(r))>> \o Consume(r) \o <<Put(Deall(r))>>
    [] r.kind = "deal-cancel" ->
         <<Get(Deall(r))>> \o Consume(r)
         \o <<Get(Listg(r)), Put(Listg(r)), Get(Offr(r)), Put(Offr(r)),
              Get(Passp(r)), Put(Passp(r))>>

Completes(r, m) == WithComplete(r.id, m[Deall(r)], r.by).status = "COMPLETED"

\* The operations that come next, before the rest of the plan, once op is
\* made and m is read: loadListings reads the rows of the index, accept the
\* other offers of its listing to supersede the pending ones, transfer-intent
\* marks a listing that is OFFER_ACCEPTED, and the second completion closes
\* listing and Passport.
Adds(r, op, m) ==
  LET k == op[2] IN
  IF r.kind = "list" /\ op = Get(Index)
  THEN SetToSeq({Get(TheListing(l)) : l \in m[k]})
  ELSE IF r.kind = "accept" /\ op = Get(OffersOn(L(r)))
  THEN SetToSeq({Get(TheOffer(o)) : o \in m[k] \ {r.id}})
  ELSE IF r.kind = "accept" /\ op \in {Get(TheOffer(o)) : o \in Offers \ {r.id}}
  THEN IF m[k] = "PENDING" THEN <<Put(k)>> ELSE <<>>
  ELSE IF r.kind = "transfer-intent" /\ op = Get(Listg(r))
                                     /\ m[k].status = "OFFER_ACCEPTED"
  THEN <<Put(k)>>
  ELSE IF r.kind = "confirm-complete" /\ op = Put(Nonce(r)) /\ Completes(r, m)
  THEN <<Get(Listg(r)), Put(Listg(r)), Get(Passp(r)), Put(Passp(r))>>
  ELSE <<>>

\* What the handler requires of m once op is made, or it ends there with a
\* refusal.  A completion is signed over the deal it reads; one signed over
\* another state of it ends where one that is not all done does.
May(r, op, m) ==
  LET k == op[2]
      gets(key) == op = Get(key)
      open == r.kind \notin {"fee-right-evidence", "payment-evidence"}
  IN /\ r.kind = "claim" /\ gets(Passp(r)) => m[k].operator \in {None, r.by}
     /\ r.kind = "list" /\ gets(Passp(r)) => m[k].operator = SellerOf[r.id]
     /\ r.kind = "list" /\ gets(Listg(r)) => m[k].status = "ABSENT"
     /\ r.kind = "list" /\ op \in {Get(TheListing(l)) : l \in {x \in Listings : TokenOf[x] = T(r)}}
          => m[k].status # "ACTIVE"
     /\ r.kind \in {"cancel-listing", "offer"} /\ gets(Listg(r)) => m[k].status = "ACTIVE"
     /\ r.kind = "offer" /\ gets(Offr(r)) => m[k] = "ABSENT"
     /\ r.kind \in {"accept", "reject"} /\ gets(Listg(r)) => m[k].status # "ABSENT"
     /\ r.kind \in {"accept", "reject"} /\ gets(Offr(r)) => m[k] = "PENDING"
     /\ r.kind = "accept" /\ gets(Offr(r)) => m[Listg(r)].status = "ACTIVE"
     /\ gets(Deall(r)) => IF open THEN m[k].status = "OPEN" ELSE m[k].status # "ABSENT"
     /\ r.kind = "transfer-accept" /\ gets(Deall(r)) => m[k].intent
     /\ r.kind \in {"transfer-intent", "transfer-accept"} /\ gets(Passp(r))
          => m[k].operator = SellerIn(r.id)
     /\ r.kind = "payment-evidence" /\ gets(PayTx(r.tx))
          => m[k] = None /\ r.id \in Pays[r.tx]
     /\ gets(Nonce(r)) => ~m[k]
     /\ r.kind = "confirm-complete" /\ op = Put(Nonce(r))
          => AllDone(r.id, m[Deall(r)])

\* What the handler writes to k, having read m.
New(r, k, m) ==
  CASE k = Nonce(r) -> TRUE
    [] r.kind = "claim" /\ k = Passp(r) -> WithClaim(m[k], r.by)
    [] r.kind = "list" /\ k = Listg(r) -> [status |-> "ACTIVE", deal |-> None]
    [] r.kind = "list" /\ k = Passp(r) -> [m[k] EXCEPT !.listing = r.id]
    [] r.kind = "cancel-listing" /\ k = Listg(r) -> [m[k] EXCEPT !.status = "CANCELLED"]
    [] r.kind \in {"cancel-listing", "confirm-complete"} /\ k = Passp(r) -> Unlisted(m[k], L(r))
    [] r.kind = "offer" /\ k = Offr(r) -> "PENDING"
    [] r.kind = "reject" /\ k = Offr(r) -> "REJECTED"
    [] r.kind = "accept" /\ k = Offr(r) -> "ACCEPTED"
    [] r.kind = "accept" /\ k = Listg(r) -> [status |-> "OFFER_ACCEPTED", deal |-> r.id]
    [] r.kind = "accept" /\ k = Deall(r) -> FreshDeal
    [] r.kind = "accept" /\ k \in {TheOffer(o) : o \in Offers \ {r.id}} -> "SUPERSEDED"
    [] r.kind = "transfer-intent" /\ k = Deall(r) -> [m[k] EXCEPT !.intent = TRUE]
    [] r.kind = "transfer-intent" /\ k = Listg(r) -> [m[k] EXCEPT !.status = "IN_TRANSFER"]
    [] r.kind = "transfer-accept" /\ k = Deall(r) -> [m[k] EXCEPT !.moved = TRUE]
    [] r.kind = "transfer-accept" /\ k = Passp(r) -> WithTransfer(m[k], r.id)
    [] r.kind = "fee-right-evidence" /\ k = Deall(r) -> [m[k] EXCEPT !.feeTx = r.tx]
    [] r.kind = "payment-evidence" /\ k = PayTx(r.tx) -> r.id
    [] r.kind = "payment-evidence" /\ k = Deall(r) -> [m[k] EXCEPT !.payTx = r.tx]
    [] r.kind = "confirm-payment" /\ k = Deall(r) -> [m[k] EXCEPT !.payBy = @ \cup {r.by}]
    [] r.kind = "confirm-asset" /\ k = Deall(r) -> [m[k] EXCEPT !.assetBy = @ \cup {r.by}]
    [] r.kind = "confirm-complete" /\ k = Deall(r) -> WithComplete(r.id, m[k], r.by)
    [] r.kind = "confirm-complete" /\ k = Listg(r) -> [m[k] EXCEPT !.status = "COMPLETED"]
    [] r.kind = "deal-cancel" /\ k = Listg(r) -> Reopened(m[Deall(r)], m[k])
    [] r.kind = "deal-cancel" /\ k = Offr(r) -> "DEAL_CANCELLED"
    [] r.kind = "deal-cancel" /\ k = Passp(r) -> m[k]

\* The parts of a request that do not depend on the store: a buyer is not
\* the seller, payment and assets are confirmed by hand where the terms say so.
WellFormed(r) ==
  /\ r.kind = "offer" => BuyerOf[r.id] # SellerIn(r.id)
  /\ r.kind = "confirm-payment" => L(r) \notin PaidOnChain
  /\ r.kind = "confirm-asset" => L(r) \in WithAsset
  /\ r.kind = "payment-evidence" => L(r) \in PaidOnChain
  /\ r.kind = "fee-right-evidence" => L(r) \in FeeIncluded

-----------------------------------------------------------------------------
(* Invocations.  todo: the operations left; mem: the records read.         *)

Idle == [req |-> None, todo |-> <<>>, mem |-> <<>>]

Init ==
  /\ kv = Empty
  /\ run = [s \in Slots |-> Idle]
  /\ crashes = 0

\* An invocation begins with its first read; one refused there has no effect
\* and is no step, and so is one whose nonce is spent.
Start(s, r) ==
  LET op == Head(Plan(r))
      m  == [k \in {op[2]} |-> kv[k]]
  IN /\ run[s] = Idle
     /\ WellFormed(r)
     /\ ~kv[Nonce(r)]
     /\ May(r, op, m)
     /\ run' = [run EXCEPT ![s] = [req |-> r, todo |-> Tail(Plan(r)), mem |-> m]]
     /\ UNCHANGED <<kv, crashes>>

\* s has made its next operation and holds m.
Goes(s, m) ==
  LET i == run[s]
      op == Head(i.todo)
      rest == Adds(i.req, op, m) \o Tail(i.todo)
  IN run' = [run EXCEPT ![s] =
               IF ~May(i.req, op, m) \/ rest = <<>> THEN Idle
               ELSE [req |-> i.req, todo |-> rest, mem |-> m]]

Doing(s, verb) == run[s].todo # <<>> /\ Head(run[s].todo)[1] = verb

\* m with what was just read of k.
Learn(m, k, v) == [x \in {k} \cup DOMAIN m |-> IF x = k THEN v ELSE m[x]]

Read(s) ==
  /\ Doing(s, "get")
  /\ LET k == Head(run[s].todo)[2] IN Goes(s, Learn(run[s].mem, k, kv[k]))
  /\ UNCHANGED <<kv, crashes>>

Write(s) ==
  /\ Doing(s, "put")
  /\ LET k == Head(run[s].todo)[2]
     IN kv' = [kv EXCEPT ![k] = New(run[s].req, k, run[s].mem)]
  /\ Goes(s, run[s].mem)
  /\ UNCHANGED crashes

\* sadd, atomic in the store.
AddToSet(s) ==
  /\ Doing(s, "add")
  /\ kv' = [kv EXCEPT ![Head(run[s].todo)[2]] = @ \cup {run[s].req.id}]
  /\ Goes(s, run[s].mem)
  /\ UNCHANGED crashes

\* The rest of the invocation never happens.  (One that ends before it has
\* spent its nonce has written nothing and is like one that never began.)
Crash(s) ==
  /\ run[s] # Idle
  /\ kv[Nonce(run[s].req)] \/ run[s].req.kind = "payment-evidence"
  /\ crashes < MaxCrashes                         \* bound
  /\ run' = [run EXCEPT ![s] = Idle]
  /\ crashes' = crashes + 1
  /\ UNCHANGED kv

Next == \E s \in Slots :
  \/ \E r \in Requests : Start(s, r)
  \/ Read(s)
  \/ Write(s)
  \/ AddToSet(s)
  \/ Crash(s)

Spec == Init /\ [][Next]_vars
-----------------------------------------------------------------------------
(* Safety: what holds whatever runs at the same time and whatever stops.   *)

Quiet == \A s \in Slots : run[s] = Idle

\* Every Passport ever stored explains its operator, even one that was
\* computed from a record another invocation has since replaced.
HistoryIsSound == \A t \in Tokens : Explained(t, kv[PassportOf(t)])

\* Every deal ever stored is sound by itself: a completed one has its
\* checklist done and a completion signature of each party, every such
\* signature covers a state of the deal with nothing pending, a transfer in
\* it had an intent, and the payment it shows does pay it.  The two
\* signatures may cover different states: Marketplace's SignedTogether.
DealIsSound ==
  \A o \in Offers : LET d == kv[TheDeal(o)] IN
    /\ d.status = "COMPLETED" => AllDone(o, d) /\ \A r \in Roles : d.complete[r] # {}
    /\ \A r \in Roles : \A c \in d.complete[r] : NothingPending(o, c)
    /\ d.moved => d.intent
    /\ d.payTx # None => o \in Pays[d.payTx]

\* The nonce of some request of this kind about o (or its listing) is used.
Consumed(kind, id) ==
  \E r \in Requests : r.kind = kind /\ r.id = id /\ kv[Nonce(r)]

\* A Passport never moves by a deal unless the listing, the offer, its
\* acceptance, the intent and the transfer were all signed and sent, each
\* with a nonce of its own that is spent by then.
TransferIsSigned ==
  \A o \in Offers : Records(kv[PassportOf(TokenIn(o))], o) =>
    /\ Consumed("list", ListingOf[o])
    /\ \A kind \in {"offer", "accept", "transfer-intent", "transfer-accept"} :
         Consumed(kind, o)

-----------------------------------------------------------------------------
(* What the documents say and concurrent invocations do not keep.          *)

\* "Once a Passport exists, its operator changes only through the signed
\* Marketplace transfer": when nothing is running and nothing was cut short,
\* a Passport a deal has transferred still records that transfer.
TransferIsKept ==
  Quiet /\ crashes = 0 =>
    \A o \in Offers : kv[TheDeal(o)].moved => Records(kv[PassportOf(TokenIn(o))], o)

\* "each payment tx hash is single-use across all deals"
PaymentIsSingleUse ==
  \A o, p \in Offers : LET x == kv[TheDeal(o)].payTx IN
    x # None /\ kv[TheDeal(p)].payTx = x => o = p

\* "Completion: all steps must already be done": a completed deal has given
\* its buyer the Passport.
CompletedHasMoved ==
  \A o \in Offers : kv[TheDeal(o)].status = "COMPLETED" =>
    Records(kv[PassportOf(TokenIn(o))], o)
=============================================================================
