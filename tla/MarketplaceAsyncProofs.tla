------------------------ MODULE MarketplaceAsyncProofs ------------------------
(***************************************************************************)
(* Theorems about MarketplaceAsync and MarketplaceSerial, for every set of  *)
(* wallets, tokens, listings, offers, transactions, requests and           *)
(* concurrent invocations, and any number of invocations cut short.        *)
(*                                                                         *)
(* Nothing protects a record between the read and the write of a handler,  *)
(* so the argument is one of values: whatever is stored, or was read and    *)
(* may be stored again in a changed form, is sound by itself (Sound).  The *)
(* only part of the store that a sound value speaks of is the spent         *)
(* nonces, and a nonce is never given back.                                *)
(***************************************************************************)
EXTENDS MarketplaceSerial, MarketRecordsProofs, SequenceTheorems, FiniteSetTheorems

-----------------------------------------------------------------------------
(* What is true of every record, stored or still in an invocation's memory. *)

\* The offer and the listing it is about were both signed and sent.
OfferSigned(o) == Consumed("list", ListingOf[o]) /\ Consumed("offer", o)

TransferSigned(o) ==
  OfferSigned(o) /\ \A kind \in {"accept", "transfer-intent", "transfer-accept"} : Consumed(kind, o)

SoundPassport(t, v) ==
  /\ v \in Passport
  /\ Explained(t, v)
  /\ \A o \in Offers : Records(v, o) => TransferSigned(o)

SoundListing(l, v) ==
  v \in Listing /\ (v.status # "ABSENT" => Consumed("list", l))

SoundOffer(o, v) ==
  v \in OfferStatus /\ (v # "ABSENT" => OfferSigned(o))

SoundDeal(o, v) ==
  /\ v \in Deal
  /\ v.status = "COMPLETED" => AllDone(o, v) /\ \A r \in Roles : v.complete[r] # {}
  /\ \A r \in Roles : \A c \in v.complete[r] : NothingPending(o, c)
  /\ v.moved => v.intent
  /\ v.payTx # None => o \in Pays[v.payTx]
  /\ v.status # "ABSENT" => OfferSigned(o) /\ Consumed("accept", o)
  /\ v.intent => Consumed("transfer-intent", o)

Sound(k, v) ==
  /\ \A t \in Tokens : k = PassportOf(t) => SoundPassport(t, v)
  /\ \A l \in Listings : k = TheListing(l) => SoundListing(l, v)
  /\ \A o \in Offers : k = TheOffer(o) => SoundOffer(o, v)
  /\ \A o \in Offers : k = TheDeal(o) => SoundDeal(o, v)
  /\ \A l \in Listings : k = OffersOn(l) => v \subseteq Offers /\ IsFiniteSet(v)
  /\ k = Index => v \subseteq Listings /\ IsFiniteSet(v)

-----------------------------------------------------------------------------
(* What an invocation knows.                                               *)

HasNonce(r) == r.kind \notin {"fee-right-evidence", "payment-evidence"}

\* What the handler of r went on with, having found v at k.
Checked(r, k, v) ==
  /\ r.kind = "claim" /\ k = Passp(r) => v.operator \in {None, r.by}
  /\ r.kind = "list" /\ k = Passp(r) => v.operator = SellerOf[r.id]
  /\ r.kind \in {"cancel-listing", "offer"} /\ k = Listg(r) => v.status = "ACTIVE"
  /\ r.kind \in {"accept", "reject"} /\ k = Offr(r) => v = "PENDING"
  /\ k = Deall(r) => IF HasNonce(r) THEN v.status = "OPEN" ELSE v.status # "ABSENT"
  /\ r.kind = "transfer-accept" /\ k = Deall(r) => v.intent
  /\ r.kind \in {"transfer-intent", "transfer-accept"} /\ k = Passp(r)
       => v.operator = SellerIn(r.id)
  /\ r.kind = "payment-evidence" /\ k = PayTx(r.tx) => r.id \in Pays[r.tx]

\* The record every handler of this kind reads first.
First(r) ==
  CASE r.kind \in {"claim", "list"} -> Passp(r)
    [] r.kind \in {"cancel-listing", "offer", "accept", "reject"} -> Listg(r)
    [] OTHER -> Deall(r)

\* The keys a handler writes.
Puts(r) ==
  CASE r.kind = "claim" -> {Passp(r)}
    [] r.kind \in {"list", "cancel-listing"} -> {Listg(r), Passp(r)}
    [] r.kind \in {"offer", "reject"} -> {Offr(r)}
    [] r.kind = "accept" -> {Listg(r), Deall(r)} \cup {TheOffer(o) : o \in Offers}
    [] r.kind = "transfer-intent" -> {Deall(r), Listg(r)}
    [] r.kind = "transfer-accept" -> {Deall(r), Passp(r)}
    [] r.kind = "payment-evidence" -> {PayTx(r.tx), Deall(r)}
    [] r.kind \in {"fee-right-evidence", "confirm-payment", "confirm-asset"} -> {Deall(r)}
    [] r.kind = "confirm-complete" -> {Deall(r), Listg(r), Passp(r)}
    [] r.kind = "deal-cancel" -> {Listg(r), Offr(r), Passp(r)}

\* The read that a write to k rests on, besides the first.
Needs(r, k) ==
  CASE r.kind = "accept" -> Offr(r)
    [] r.kind = "payment-evidence" -> PayTx(r.tx)
    [] OTHER -> k

Ops == {"get", "put", "add"} \X Keys

\* An operation the handler of r may still have before it.
Fits(r, op) ==
  /\ op[1] = "get" => ~(r.kind = "confirm-complete" /\ op[2] = Deall(r))
  /\ op[1] = "put" => op[2] \in Puts(r) \cup {Nonce(r)}
  /\ op[1] = "put" /\ r.kind = "accept" =>
       \A o \in Offers : op[2] = TheOffer(o) => o = r.id \/ OfferSigned(o)
  /\ op[1] = "add" => \/ r.kind = "list" /\ op[2] = Index
                      \/ r.kind = "offer" /\ op[2] = OffersOn(L(r))

\* The operations that come before a write to k: the read it needs, and the
\* spending of the nonce.
Before(r, k) ==
  IF k = Nonce(r) \/ (r.kind = "accept" /\ k \in {TheOffer(o) : o \in Offers \ {r.id}}) THEN {}
  ELSE {Get(Needs(r, k))}
       \cup (IF HasNonce(r) /\ ~(r.kind = "transfer-intent" /\ k = Listg(r))
             THEN {Put(Nonce(r))} ELSE {})

\* What an invocation of r that holds m has done: its reads, and spending the
\* nonce, after which only a deal whose checklist is done is completed.
DoneBy(r, m) ==
  {Get(k) : k \in DOMAIN m}
  \cup {op \in {Put(Nonce(r))} :
          kv[Nonce(r)] /\ (r.kind = "confirm-complete" => AllDone(r.id, m[Deall(r)]))}

\* What other operations may have to come after.
Awaited(r, op) == op[1] = "get" \/ op = Put(Nonce(r))

\* Of what is left to do, q, each write comes after the operations that come
\* before it and are not in done.
Ordered(r, done, q) ==
  \A j \in DOMAIN q : q[j][1] = "put" =>
    \A op \in Before(r, q[j][2]) : op \in done \/ \E h \in 1 .. j - 1 : q[h] = op

Knows(i) ==
  i # Idle =>
    /\ i.req \in Requests
    /\ DOMAIN i.mem \subseteq Keys /\ First(i.req) \in DOMAIN i.mem
    /\ \A k \in DOMAIN i.mem : Sound(k, i.mem[k]) /\ Checked(i.req, k, i.mem[k])
    /\ i.todo \in Seq(Ops)
    /\ \A j \in DOMAIN i.todo : Fits(i.req, i.todo[j])
    /\ Ordered(i.req, DoneBy(i.req, i.mem), i.todo)

Inv ==
  /\ kv = [k \in Keys |-> kv[k]] /\ \A k \in Keys : Sound(k, kv[k])
  /\ run = [s \in Slots |-> run[s]]
  /\ \A i \in {run[s] : s \in Slots} : Knows(i)

-----------------------------------------------------------------------------
(* Keys and requests.                                                      *)

LEMMA RequestKeys ==
  ASSUME NEW r \in Requests
  PROVE  /\ r.kind \in Kinds
         /\ T(r) \in Tokens /\ Passp(r) \in Keys /\ Nonce(r) \in Keys
         /\ r.kind = "claim" => r.by \in Wallets /\ T(r) = r.id
         /\ r.kind # "claim" => L(r) \in Listings /\ Listg(r) \in Keys
                                /\ T(r) = TokenOf[L(r)] /\ OffersOn(L(r)) \in Keys
         /\ r.kind \in {"list", "cancel-listing"} => L(r) = r.id
         /\ r.kind \notin {"claim", "list", "cancel-listing"} =>
              /\ r.id \in Offers /\ L(r) = ListingOf[r.id] /\ T(r) = TokenIn(r.id)
              /\ Offr(r) \in Keys /\ Deall(r) \in Keys
         /\ r.kind \in {"confirm-payment", "confirm-asset", "confirm-complete"} => r.by \in Roles
         /\ ~HasNonce(r) => r.tx \in Txs /\ PayTx(r.tx) \in Keys
         /\ Index \in Keys
<1>1. r.kind \in Kinds
  BY AsyncConstants
<1>2. Index \in Keys /\ Nonce(r) \in Keys
  BY DEF Keys
<1>3. CASE r.kind = "claim"
  <2>1. r.id \in Tokens /\ r.by \in Wallets
    BY <1>3, AsyncConstants
  <2>2. T(r) = r.id /\ Passp(r) \in Keys
    BY <1>3, <2>1 DEF T, Passp, Keys
  <2> QED  BY <1>1, <1>2, <1>3, <2>1, <2>2 DEF HasNonce
<1>4. CASE r.kind \in {"list", "cancel-listing"}
  <2>1. r.id \in Listings
    BY <1>4, AsyncConstants
  <2>2. L(r) = r.id /\ T(r) = TokenOf[L(r)]
    BY <1>4 DEF L, T, OfListing
  <2>3. T(r) \in Tokens
    <3>1. TokenOf \in [Listings -> Tokens]
      BY MarketConstants
    <3> QED  BY <2>1, <2>2, <3>1
  <2>4. Passp(r) \in Keys /\ Listg(r) \in Keys /\ OffersOn(L(r)) \in Keys
    BY <2>1, <2>2, <2>3 DEF Passp, Listg, Keys
  <2> QED  BY <1>1, <1>2, <1>4, <2>1, <2>2, <2>3, <2>4 DEF HasNonce
<1>5. CASE r.kind \notin {"claim", "list", "cancel-listing"}
  <2>1. r.id \in Offers
    BY <1>5, AsyncConstants
  <2>2. L(r) = ListingOf[r.id] /\ T(r) = TokenOf[L(r)] /\ T(r) = TokenIn(r.id)
    BY <1>5 DEF L, T, OfListing, TokenIn
  <2>3. L(r) \in Listings /\ T(r) \in Tokens
    <3>1. TokenOf \in [Listings -> Tokens] /\ ListingOf \in [Offers -> Listings]
      BY MarketConstants
    <3>2. L(r) \in Listings
      BY <2>1, <2>2, <3>1
    <3> QED  BY <2>2, <3>1, <3>2
  <2>4. /\ Passp(r) \in Keys /\ Listg(r) \in Keys /\ OffersOn(L(r)) \in Keys
        /\ Offr(r) \in Keys /\ Deall(r) \in Keys
    BY <2>1, <2>3 DEF Passp, Listg, Offr, Deall, Keys
  <2>5. r.kind \in {"confirm-payment", "confirm-asset", "confirm-complete"} => r.by \in Roles
    BY AsyncConstants
  <2>6. ~HasNonce(r) => r.tx \in Txs
    BY AsyncConstants DEF HasNonce
  <2>7. ~HasNonce(r) => PayTx(r.tx) \in Keys
    BY <2>6 DEF Keys
  <2> QED  BY <1>1, <1>2, <1>5, <2>1, <2>2, <2>3, <2>4, <2>5, <2>6, <2>7
<1> QED  BY <1>3, <1>4, <1>5

\* Soundness of a value, by the kind of its key.
LEMMA SoundAt ==
  ASSUME NEW v
  PROVE  /\ \A t \in Tokens : Sound(PassportOf(t), v) <=> SoundPassport(t, v)
         /\ \A l \in Listings : Sound(TheListing(l), v) <=> SoundListing(l, v)
         /\ \A o \in Offers : Sound(TheOffer(o), v) <=> SoundOffer(o, v)
         /\ \A o \in Offers : Sound(TheDeal(o), v) <=> SoundDeal(o, v)
         /\ \A l \in Listings : Sound(OffersOn(l), v) <=> v \subseteq Offers /\ IsFiniteSet(v)
         /\ Sound(Index, v) <=> v \subseteq Listings /\ IsFiniteSet(v)
         /\ \A x \in Txs : Sound(PayTx(x), v)
         /\ \A r \in Requests : Sound(Nonce(r), v)
BY DEF Sound, PassportOf, TheListing, TheOffer, TheDeal, OffersOn, Index, PayTx, Nonce

-----------------------------------------------------------------------------
(* A nonce is never given back.                                            *)

Forward == \A r \in Requests : kv[Nonce(r)] => kv'[Nonce(r)]

LEMMA SignedStays ==
  ASSUME Forward
  PROVE  /\ \A kind, id : Consumed(kind, id) => Consumed(kind, id)'
         /\ \A o : OfferSigned(o) => OfferSigned(o)'
         /\ \A o : TransferSigned(o) => TransferSigned(o)'
<1>1. \A kind, id : Consumed(kind, id) => Consumed(kind, id)'
  BY DEF Forward, Consumed
<1> QED  BY <1>1 DEF OfferSigned, TransferSigned

LEMMA SoundStays ==
  ASSUME Forward, NEW k, NEW v, Sound(k, v)
  PROVE  Sound(k, v)'
<1>1. \A t \in Tokens : SoundPassport(t, v) => SoundPassport(t, v)'
  BY SignedStays DEF SoundPassport
<1>2. \A l \in Listings : SoundListing(l, v) => SoundListing(l, v)'
  BY SignedStays DEF SoundListing
<1>3. \A o \in Offers : SoundOffer(o, v) => SoundOffer(o, v)'
  BY SignedStays DEF SoundOffer
<1>4. \A o \in Offers : SoundDeal(o, v) => SoundDeal(o, v)'
  BY SignedStays DEF SoundDeal
<1> QED  BY <1>1, <1>2, <1>3, <1>4 DEF Sound

LEMMA DoneStays ==
  ASSUME Forward, NEW r \in Requests, NEW m
  PROVE  DoneBy(r, m) \subseteq DoneBy(r, m)'
BY DEF Forward, DoneBy

LEMMA KnowsStays ==
  ASSUME Forward, NEW i, Knows(i)
  PROVE  Knows(i)'
<1> SUFFICES ASSUME i # Idle PROVE Knows(i)'
  BY DEF Knows
<1>1. \A k \in DOMAIN i.mem : Sound(k, i.mem[k])'
  BY SoundStays DEF Knows
<1>2. \A j \in DOMAIN i.todo : Fits(i.req, i.todo[j])'
  BY SignedStays DEF Knows, Fits
<1>3. Ordered(i.req, DoneBy(i.req, i.mem)', i.todo)
  BY DoneStays DEF Knows, Ordered
<1> QED  BY <1>1, <1>2, <1>3 DEF Knows

-----------------------------------------------------------------------------
(* What is left to do.                                                     *)

\* The operations a, and then the rest of q, after the set E of them.
Continues(r, E, a, q) ==
  /\ a \o Tail(q) \in Seq(Ops)
  /\ Ordered(r, E, a \o Tail(q))
  /\ \A j \in DOMAIN (a \o Tail(q)) :
       \/ \E h \in DOMAIN a : (a \o Tail(q))[j] = a[h]
       \/ \E h \in DOMAIN q : (a \o Tail(q))[j] = q[h]

LEMMA OrderedNext ==
  ASSUME NEW r, NEW q \in Seq(Ops), q # <<>>, NEW D, Ordered(r, D, q),
         NEW E, D \subseteq E, Awaited(r, Head(q)) => Head(q) \in E,
         NEW a \in Seq(Ops), Ordered(r, E, a)
  PROVE  Continues(r, E, a, q)
<1>1. PICK t : t = Tail(q)
  OBVIOUS
<1>2. /\ t \in Seq(Ops) /\ Len(q) \in Nat /\ Len(q) # 0 /\ Len(t) = Len(q) - 1
      /\ \A h \in 1 .. Len(t) : t[h] = q[h + 1]
      /\ Head(q) = q[1]
      /\ DOMAIN q = 1 .. Len(q) /\ DOMAIN t = 1 .. Len(t) /\ Len(t) \in Nat
  BY <1>1
<1>3. PICK c : c = a \o t
  OBVIOUS
<1>4. /\ c \in Seq(Ops) /\ Len(a) \in Nat /\ DOMAIN a = 1 .. Len(a)
      /\ DOMAIN c = 1 .. Len(a) + Len(t)
      /\ \A h \in 1 .. Len(a) : c[h] = a[h]
      /\ \A h \in 1 .. Len(t) : c[Len(a) + h] = t[h]
  <2>1. /\ c \in Seq(Ops) /\ Len(c) = Len(a) + Len(t)
        /\ \A h \in 1 .. Len(a) + Len(t) : c[h] = IF h <= Len(a) THEN a[h] ELSE t[h - Len(a)]
    BY <1>2, <1>3, ConcatProperties
  <2>2. Len(a) \in Nat /\ DOMAIN a = 1 .. Len(a) /\ DOMAIN c = 1 .. Len(c)
    BY <2>1
  <2>3. \A h \in 1 .. Len(t) : Len(a) + h \in 1 .. Len(a) + Len(t) /\ ~(Len(a) + h <= Len(a))
                               /\ (Len(a) + h) - Len(a) = h
    BY <1>2, <2>2
  <2>4. \A h \in 1 .. Len(a) : h \in 1 .. Len(a) + Len(t) /\ h <= Len(a)
    BY <1>2, <2>2
  <2>5. \A h \in 1 .. Len(a) : c[h] = a[h]
    BY <2>1, <2>4
  <2>6. \A h \in 1 .. Len(t) : c[Len(a) + h] = t[h]
    BY <2>1, <2>3
  <2> QED  BY <2>1, <2>2, <2>5, <2>6
<1>5. ASSUME NEW j \in DOMAIN c, j \notin DOMAIN a
      PROVE  /\ j - Len(a) \in 1 .. Len(t)
             /\ c[j] = q[j - Len(a) + 1] /\ j - Len(a) + 1 \in DOMAIN q
  <2>1. j - Len(a) \in 1 .. Len(t) /\ j = Len(a) + (j - Len(a))
    BY <1>2, <1>4, <1>5
  <2>2. c[j] = t[j - Len(a)]
    BY <1>4, <2>1
  <2> QED  BY <1>2, <2>1, <2>2
<1>6. \A j \in DOMAIN c : (\E h \in DOMAIN a : c[j] = a[h]) \/ (\E h \in DOMAIN q : c[j] = q[h])
  BY <1>4, <1>5
<1>7. ASSUME NEW j \in DOMAIN c, c[j][1] = "put", NEW op \in Before(r, c[j][2]), op \notin E
      PROVE  \E h \in 1 .. j - 1 : c[h] = op
  <2>1. CASE j \in DOMAIN a
    <3>1. c[j] = a[j]
      BY <1>4, <2>1
    <3>2. PICK h \in 1 .. j - 1 : a[h] = op
      BY <1>7, <2>1, <3>1 DEF Ordered
    <3>3. h \in 1 .. Len(a)
      BY <1>4, <2>1
    <3> QED  BY <1>4, <3>2, <3>3
  <2>2. CASE j \notin DOMAIN a
    <3>1. PICK i \in DOMAIN q : i = j - Len(a) + 1 /\ c[j] = q[i]
      BY <1>5, <2>2
    <3>2. PICK h \in 1 .. i - 1 : q[h] = op
      BY <1>7, <3>1 DEF Ordered
    <3>3. h # 1
      BY <1>2, <1>7, <3>2 DEF Before, Awaited, Get
    <3>4. h - 1 \in 1 .. Len(t) /\ h = (h - 1) + 1
      BY <1>2, <3>1, <3>2, <3>3
    <3>5. t[h - 1] = op
      BY <1>2, <3>2, <3>4
    <3>6. c[Len(a) + (h - 1)] = op
      BY <1>4, <3>4, <3>5
    <3>7. Len(a) + (h - 1) \in 1 .. j - 1
      BY <1>2, <1>4, <3>1, <3>2, <3>3
    <3> QED  BY <3>6, <3>7
  <2> QED  BY <2>1, <2>2
<1>8. Ordered(r, E, c)
  BY <1>7 DEF Ordered
<1> QED  BY <1>1, <1>3, <1>4, <1>6, <1>8 DEF Continues

-----------------------------------------------------------------------------
(* The plans.                                                              *)

\* A handler reads its first record first, and then has the rest before it.
Planned(r) ==
  /\ Plan(r) \in Seq(Ops) /\ Plan(r) # <<>> /\ Head(Plan(r)) = Get(First(r))
  /\ \A j \in DOMAIN Tail(Plan(r)) : Fits(r, Tail(Plan(r))[j])
  /\ Ordered(r, {Get(First(r))}, Tail(Plan(r)))

LEMMA OpsOf ==
  /\ \A k \in Keys : Get(k) \in Ops /\ Put(k) \in Ops /\ Add(k) \in Ops
  /\ \A k : /\ Get(k)[1] = "get" /\ Get(k)[2] = k
            /\ Put(k)[1] = "put" /\ Put(k)[2] = k
            /\ Add(k)[1] = "add" /\ Add(k)[2] = k
  /\ \A j, k : Get(j) = Get(k) => j = k
BY DEF Get, Put, Add, Ops

\* s before the nonce is spent, w after.
LEMMA PlanOf ==
  ASSUME NEW s \in Seq(Ops), s # <<>>, NEW g \in Ops, NEW p \in Ops, NEW w \in Seq(Ops),
         NEW c, c = s \o <<g, p>> \o w
  PROVE  /\ c \in Seq(Ops) /\ c # <<>> /\ Head(c) = s[1]
         /\ Len(Tail(c)) = Len(s) + 1 + Len(w)
         /\ \A h \in 2 .. Len(s) : Tail(c)[h - 1] = s[h]
         /\ Tail(c)[Len(s)] = g /\ Tail(c)[Len(s) + 1] = p
         /\ \A h \in 1 .. Len(w) : Tail(c)[Len(s) + 1 + h] = w[h]
<1>1. PICK n : n = <<g, p>>
  OBVIOUS
<1>2. n \in Seq(Ops) /\ Len(n) = 2 /\ n[1] = g /\ n[2] = p
  BY <1>1
<1>3. PICK a : a = s \o n
  OBVIOUS
<1>4. c = a \o w
  BY <1>1, <1>3
<1>5. a \in Seq(Ops) /\ Len(a) = Len(s) + Len(n)
  BY <1>2, <1>3, ConcatProperties
<1>6. \A h \in 1 .. Len(s) + Len(n) : a[h] = IF h <= Len(s) THEN s[h] ELSE n[h - Len(s)]
  BY <1>2, <1>3, ConcatProperties
<1>7. /\ c \in Seq(Ops) /\ Len(c) = Len(a) + Len(w)
      /\ \A h \in 1 .. Len(a) + Len(w) : c[h] = IF h <= Len(a) THEN a[h] ELSE w[h - Len(a)]
  <2>1. a \in Seq(Ops)
    BY <1>5
  <2> HIDE <1>4, <1>5, <1>6
  <2>2. /\ a \o w \in Seq(Ops) /\ Len(a \o w) = Len(a) + Len(w)
        /\ \A h \in 1 .. Len(a) + Len(w) : (a \o w)[h] = IF h <= Len(a) THEN a[h] ELSE w[h - Len(a)]
    BY <2>1, ConcatProperties
  <2> QED  BY <1>4, <2>2
<1>8. Len(s) \in Nat /\ Len(w) \in Nat /\ Len(s) # 0
  OBVIOUS
<1>9. a[Len(s) + 1] = g /\ a[Len(s) + 2] = p /\ \A h \in 1 .. Len(s) : a[h] = s[h]
  <2>1. \A h \in 1 .. Len(s) : h \in 1 .. Len(s) + Len(n) /\ h <= Len(s)
    BY <1>2, <1>8
  <2>2. /\ Len(s) + 1 \in 1 .. Len(s) + Len(n) /\ ~(Len(s) + 1 <= Len(s)) /\ (Len(s) + 1) - Len(s) = 1
        /\ Len(s) + 2 \in 1 .. Len(s) + Len(n) /\ ~(Len(s) + 2 <= Len(s)) /\ (Len(s) + 2) - Len(s) = 2
    BY <1>2, <1>8
  <2>3. \A h \in 1 .. Len(s) : a[h] = s[h]
    BY <1>6, <2>1
  <2> QED  BY <1>2, <1>6, <2>2, <2>3
<1>10. \A h \in 1 .. Len(s) + 2 : c[h] = a[h]
  BY <1>2, <1>5, <1>7, <1>8
<1>11. \A h \in 1 .. Len(w) : c[Len(s) + 2 + h] = w[h]
  BY <1>2, <1>5, <1>7, <1>8
<1>12. c # <<>> /\ Head(c) = c[1] /\ Len(Tail(c)) = Len(c) - 1
       /\ \A h \in 1 .. Len(c) - 1 : Tail(c)[h] = c[h + 1]
  BY <1>2, <1>5, <1>7, <1>8
<1>13. Len(c) = Len(s) + 2 + Len(w)
  BY <1>2, <1>5, <1>7
<1>14. \A h \in 2 .. Len(s) : h - 1 \in 1 .. Len(c) - 1 /\ (h - 1) + 1 = h /\ h \in 1 .. Len(s) + 2
                              /\ h \in 1 .. Len(s)
  BY <1>8, <1>13
<1>15. \A h \in 2 .. Len(s) : Tail(c)[h - 1] = s[h]
  BY <1>9, <1>10, <1>12, <1>14
<1>16. Tail(c)[Len(s)] = g /\ Tail(c)[Len(s) + 1] = p
  BY <1>8, <1>9, <1>10, <1>12, <1>13
<1>17. \A h \in 1 .. Len(w) : Len(s) + 1 + h \in 1 .. Len(c) - 1 /\ (Len(s) + 1 + h) + 1 = Len(s) + 2 + h
  BY <1>8, <1>13
<1>18. \A h \in 1 .. Len(w) : Tail(c)[Len(s) + 1 + h] = w[h]
  BY <1>11, <1>12, <1>17
<1>19. Head(c) = s[1] /\ Len(Tail(c)) = Len(s) + 1 + Len(w)
  BY <1>8, <1>9, <1>10, <1>12, <1>13
<1> QED  BY <1>7, <1>12, <1>15, <1>16, <1>18, <1>19

LEMMA NoncePlan ==
  ASSUME NEW r \in Requests, NEW s \in Seq(Ops), s # <<>>, NEW w \in Seq(Ops),
         Plan(r) = s \o Consume(r) \o w,
         s[1] = Get(First(r)),
         \A h \in 2 .. Len(s) : s[h][1] = "get" /\ Fits(r, s[h]),
         \A h \in 1 .. Len(w) : Fits(r, w[h]),
         \A h \in 1 .. Len(w) : w[h][1] = "put" =>
           \/ \E i \in 1 .. Len(s) : s[i] = Get(Needs(r, w[h][2]))
           \/ \E i \in 1 .. h - 1 : w[i] = Get(Needs(r, w[h][2]))
  PROVE  Planned(r)
<1>1. Get(Nonce(r)) \in Ops /\ Put(Nonce(r)) \in Ops
  BY RequestKeys, OpsOf
<1>2. PICK c : c = Plan(r)
  OBVIOUS
<1>3. c = s \o <<Get(Nonce(r)), Put(Nonce(r))>> \o w
  BY <1>2 DEF Consume
<1>4. PICK t : t = Tail(c)
  OBVIOUS
<1>5. /\ c \in Seq(Ops) /\ c # <<>> /\ Head(c) = s[1]
      /\ Len(t) = Len(s) + 1 + Len(w)
      /\ \A h \in 2 .. Len(s) : t[h - 1] = s[h]
      /\ t[Len(s)] = Get(Nonce(r)) /\ t[Len(s) + 1] = Put(Nonce(r))
      /\ \A h \in 1 .. Len(w) : t[Len(s) + 1 + h] = w[h]
  BY <1>1, <1>3, <1>4, PlanOf
<1>6. Len(s) \in Nat /\ Len(w) \in Nat /\ Len(s) # 0 /\ DOMAIN t = 1 .. Len(t)
  BY <1>4, <1>5
<1>7. Fits(r, Get(Nonce(r))) /\ Fits(r, Put(Nonce(r)))
  BY DEF Fits, Get, Put, Nonce, Deall, TheDeal, TheOffer
<1>8. ASSUME NEW j \in DOMAIN t
      PROVE  \/ j + 1 \in 2 .. Len(s) /\ t[j] = s[j + 1]
             \/ t[j] = Get(Nonce(r))
             \/ t[j] = Put(Nonce(r))
             \/ /\ j - Len(s) - 1 \in 1 .. Len(w) /\ t[j] = w[j - Len(s) - 1]
                /\ j > Len(s) + 1
  <2>1. CASE j < Len(s)
    <3>1. j + 1 \in 2 .. Len(s) /\ (j + 1) - 1 = j
      BY <1>5, <1>6, <2>1
    <3> QED  BY <1>5, <3>1
  <2>2. CASE j = Len(s) \/ j = Len(s) + 1
    BY <1>5, <2>2
  <2>3. CASE j > Len(s) + 1
    <3>0. j \in Nat /\ j <= Len(s) + 1 + Len(w)
      BY <1>5, <1>6
    <3>1. j - Len(s) - 1 \in 1 .. Len(w) /\ Len(s) + 1 + (j - Len(s) - 1) = j
      <4>1. \A a, b, x \in Nat : x > a + 1 /\ x <= a + 1 + b =>
              x - a - 1 \in 1 .. b /\ a + 1 + (x - a - 1) = x
        OBVIOUS
      <4> QED  BY <1>6, <2>3, <3>0, <4>1
    <3> QED  BY <1>5, <2>3, <3>1
  <2> QED  BY <1>5, <1>6, <2>1, <2>2, <2>3
<1>9. \A j \in DOMAIN t : Fits(r, t[j])
  BY <1>7, <1>8
<1>10. ASSUME NEW j \in DOMAIN t, t[j][1] = "put", NEW op \in Before(r, t[j][2]), op # Get(First(r))
       PROVE  \E h \in 1 .. j - 1 : t[h] = op
  <2>1. t[j] # Put(Nonce(r)) /\ t[j] # Get(Nonce(r))
    BY <1>10, OpsOf DEF Before
  <2>2. PICK i \in 1 .. Len(w) : i = j - Len(s) - 1 /\ t[j] = w[i] /\ j > Len(s) + 1
    BY <1>8, <1>10, <2>1
  <2>3. op = Put(Nonce(r)) \/ op = Get(Needs(r, w[i][2]))
    BY <1>10, <2>2 DEF Before
  <2>4. CASE op = Put(Nonce(r))
    <3>0. j \in Nat
      BY <1>6
    <3>1. Len(s) + 1 \in 1 .. j - 1
      BY <1>6, <2>2, <3>0
    <3> QED  BY <1>5, <2>4, <3>1
  <2>5. ASSUME NEW h \in 1 .. Len(s), s[h] = op
        PROVE  \E x \in 1 .. j - 1 : t[x] = op
    <3>1. h # 1
      BY <1>10, <2>5
    <3>2. h \in 2 .. Len(s) /\ h - 1 \in 1 .. j - 1
      BY <1>5, <1>6, <2>2, <3>1
    <3> QED  BY <1>5, <2>5, <3>2
  <2>6. ASSUME NEW h \in 1 .. i - 1, w[h] = op
        PROVE  \E x \in 1 .. j - 1 : t[x] = op
    <3>1. h \in 1 .. Len(w) /\ Len(s) + 1 + h \in 1 .. j - 1
      <4>1. \A a, b, x, y \in Nat : \A z \in 1 .. b : z = x - a - 1 /\ y \in 1 .. z - 1 =>
              y \in 1 .. b /\ a + 1 + y \in 1 .. x - 1
        OBVIOUS
      <4>2. j \in Nat /\ h \in Nat /\ i = j - Len(s) - 1
        BY <1>6, <2>2
      <4> QED  BY <1>6, <2>2, <2>6, <4>1, <4>2
    <3> QED  BY <1>5, <2>6, <3>1
  <2> QED  BY <1>10, <2>2, <2>3, <2>4, <2>5, <2>6
<1>11. Ordered(r, {Get(First(r))}, t)
  BY <1>10 DEF Ordered
<1> QED  BY <1>2, <1>4, <1>5, <1>9, <1>11 DEF Planned

LEMMA KeysDiffer ==
  ASSUME NEW r
  PROVE  /\ Passp(r) # Deall(r) /\ Listg(r) # Deall(r) /\ Offr(r) # Deall(r) /\ Index # Deall(r)
         /\ PayTx(r.tx) # Deall(r) /\ OffersOn(L(r)) # Deall(r) /\ Nonce(r) # Deall(r)
         /\ \A o : TheOffer(o) = Offr(r) => o = r.id
         /\ \A o : /\ TheOffer(o) # Passp(r) /\ TheOffer(o) # Listg(r) /\ TheOffer(o) # Deall(r)
                  /\ TheOffer(o) # Nonce(r)
BY DEF Passp, Listg, Offr, Deall, PassportOf, TheListing, TheOffer, TheDeal, Index, PayTx,
       OffersOn, Nonce

\* Every handler's plan, by its kind.
LEMMA PlanFacts == ASSUME NEW r \in Requests PROVE Planned(r)
<1>1. CASE r.kind = "claim"
  <2>1. PICK s : s = <<Get(Passp(r))>>
    OBVIOUS
  <2>2. PICK w : w = <<Put(Passp(r))>>
    OBVIOUS
  <2>3. Plan(r) = s \o Consume(r) \o w
    BY <1>1, <2>1, <2>2 DEF Plan
  <2>4. s \in Seq(Ops) /\ s # <<>> /\ Len(s) = 1 /\ w \in Seq(Ops) /\ Len(w) = 1
    BY <1>1, <2>1, <2>2, RequestKeys, OpsOf
  <2>5. s[1] = Get(First(r))
    BY <1>1, <2>1 DEF First
  <2>6. \A h \in 2 .. Len(s) : s[h][1] = "get" /\ Fits(r, s[h])
    BY <1>1, <2>1, <2>4, KeysDiffer DEF Get, Fits
  <2>7. \A h \in 1 .. Len(w) : Fits(r, w[h])
    BY <1>1, <2>2, <2>4, KeysDiffer DEF Get, Put, Add, Fits, Puts
  <2>8. \A h \in 1 .. Len(w) : w[h][1] = "put" =>
          \/ \E i \in 1 .. Len(s) : s[i] = Get(Needs(r, w[h][2]))
          \/ \E i \in 1 .. h - 1 : w[i] = Get(Needs(r, w[h][2]))
    BY <1>1, <2>1, <2>2, <2>4 DEF Get, Put, Add, Needs
  <2> QED  BY <2>3, <2>4, <2>5, <2>6, <2>7, <2>8, NoncePlan
<1>2. CASE r.kind = "list"
  <2>1. PICK s : s = <<Get(Passp(r)), Get(Listg(r)), Get(Index)>>
    OBVIOUS
  <2>2. PICK w : w = <<Put(Listg(r)), Add(Index), Put(Passp(r))>>
    OBVIOUS
  <2>3. Plan(r) = s \o Consume(r) \o w
    BY <1>2, <2>1, <2>2 DEF Plan
  <2>4. s \in Seq(Ops) /\ s # <<>> /\ Len(s) = 3 /\ w \in Seq(Ops) /\ Len(w) = 3
    BY <1>2, <2>1, <2>2, RequestKeys, OpsOf
  <2>5. s[1] = Get(First(r))
    BY <1>2, <2>1 DEF First
  <2>6. \A h \in 2 .. Len(s) : s[h][1] = "get" /\ Fits(r, s[h])
    BY <1>2, <2>1, <2>4, KeysDiffer DEF Get, Fits
  <2>7. \A h \in 1 .. Len(w) : Fits(r, w[h])
    BY <1>2, <2>2, <2>4, KeysDiffer DEF Get, Put, Add, Fits, Puts
  <2>8. \A h \in 1 .. Len(w) : w[h][1] = "put" =>
          \/ \E i \in 1 .. Len(s) : s[i] = Get(Needs(r, w[h][2]))
          \/ \E i \in 1 .. h - 1 : w[i] = Get(Needs(r, w[h][2]))
    BY <1>2, <2>1, <2>2, <2>4 DEF Get, Put, Add, Needs
  <2> QED  BY <2>3, <2>4, <2>5, <2>6, <2>7, <2>8, NoncePlan
<1>3. CASE r.kind = "cancel-listing"
  <2>1. PICK s : s = <<Get(Listg(r))>>
    OBVIOUS
  <2>2. PICK w : w = <<Put(Listg(r)), Get(Passp(r)), Put(Passp(r))>>
    OBVIOUS
  <2>3. Plan(r) = s \o Consume(r) \o w
    BY <1>3, <2>1, <2>2 DEF Plan
  <2>4. s \in Seq(Ops) /\ s # <<>> /\ Len(s) = 1 /\ w \in Seq(Ops) /\ Len(w) = 3
    BY <1>3, <2>1, <2>2, RequestKeys, OpsOf
  <2>5. s[1] = Get(First(r))
    BY <1>3, <2>1 DEF First
  <2>6. \A h \in 2 .. Len(s) : s[h][1] = "get" /\ Fits(r, s[h])
    BY <1>3, <2>1, <2>4, KeysDiffer DEF Get, Fits
  <2>7. \A h \in 1 .. Len(w) : Fits(r, w[h])
    BY <1>3, <2>2, <2>4, KeysDiffer DEF Get, Put, Add, Fits, Puts
  <2>8. \A h \in 1 .. Len(w) : w[h][1] = "put" =>
          \/ \E i \in 1 .. Len(s) : s[i] = Get(Needs(r, w[h][2]))
          \/ \E i \in 1 .. h - 1 : w[i] = Get(Needs(r, w[h][2]))
    BY <1>3, <2>1, <2>2, <2>4 DEF Get, Put, Add, Needs
  <2> QED  BY <2>3, <2>4, <2>5, <2>6, <2>7, <2>8, NoncePlan
<1>4. CASE r.kind = "offer"
  <2>1. PICK s : s = <<Get(Listg(r)), Get(Offr(r))>>
    OBVIOUS
  <2>2. PICK w : w = <<Put(Offr(r)), Add(OffersOn(L(r)))>>
    OBVIOUS
  <2>3. Plan(r) = s \o Consume(r) \o w
    BY <1>4, <2>1, <2>2 DEF Plan
  <2>4. s \in Seq(Ops) /\ s # <<>> /\ Len(s) = 2 /\ w \in Seq(Ops) /\ Len(w) = 2
    BY <1>4, <2>1, <2>2, RequestKeys, OpsOf
  <2>5. s[1] = Get(First(r))
    BY <1>4, <2>1 DEF First
  <2>6. \A h \in 2 .. Len(s) : s[h][1] = "get" /\ Fits(r, s[h])
    BY <1>4, <2>1, <2>4, KeysDiffer DEF Get, Fits
  <2>7. \A h \in 1 .. Len(w) : Fits(r, w[h])
    BY <1>4, <2>2, <2>4, KeysDiffer DEF Get, Put, Add, Fits, Puts
  <2>8. \A h \in 1 .. Len(w) : w[h][1] = "put" =>
          \/ \E i \in 1 .. Len(s) : s[i] = Get(Needs(r, w[h][2]))
          \/ \E i \in 1 .. h - 1 : w[i] = Get(Needs(r, w[h][2]))
    BY <1>4, <2>1, <2>2, <2>4 DEF Get, Put, Add, Needs
  <2> QED  BY <2>3, <2>4, <2>5, <2>6, <2>7, <2>8, NoncePlan
<1>5. CASE r.kind = "accept"
  <2>1. PICK s : s = <<Get(Listg(r)), Get(Offr(r))>>
    OBVIOUS
  <2>2. PICK w : w = <<Get(OffersOn(L(r))), Put(Offr(r)),
                  Put(Listg(r)), Put(Deall(r))>>
    OBVIOUS
  <2>3. Plan(r) = s \o Consume(r) \o w
    BY <1>5, <2>1, <2>2 DEF Plan, AcceptPlan
  <2>4. s \in Seq(Ops) /\ s # <<>> /\ Len(s) = 2 /\ w \in Seq(Ops) /\ Len(w) = 4
    BY <1>5, <2>1, <2>2, RequestKeys, OpsOf
  <2>5. s[1] = Get(First(r))
    BY <1>5, <2>1 DEF First
  <2>6. \A h \in 2 .. Len(s) : s[h][1] = "get" /\ Fits(r, s[h])
    BY <1>5, <2>1, <2>4, KeysDiffer DEF Get, Fits
  <2>7. \A h \in 1 .. Len(w) : Fits(r, w[h])
    <3>1. Puts(r) = {Listg(r), Deall(r)} \cup {TheOffer(o) : o \in Offers}
      BY <1>5 DEF Puts
    <3>2. Offr(r) \in Puts(r)
      BY <1>5, <3>1, RequestKeys DEF Offr
    <3>3. Fits(r, Get(OffersOn(L(r))))
      BY <1>5 DEF Fits, Get
    <3>4. Fits(r, Put(Offr(r)))
      BY <1>5, <3>2, KeysDiffer DEF Fits, Put
    <3>5. Fits(r, Put(Listg(r))) /\ Fits(r, Put(Deall(r)))
      BY <1>5, <3>1, KeysDiffer DEF Fits, Put
    <3> QED  BY <2>2, <2>4, <3>3, <3>4, <3>5
  <2>8. \A h \in 1 .. Len(w) : w[h][1] = "put" =>
          \/ \E i \in 1 .. Len(s) : s[i] = Get(Needs(r, w[h][2]))
          \/ \E i \in 1 .. h - 1 : w[i] = Get(Needs(r, w[h][2]))
    BY <1>5, <2>1, <2>2, <2>4 DEF Get, Put, Add, Needs
  <2> QED  BY <2>3, <2>4, <2>5, <2>6, <2>7, <2>8, NoncePlan
<1>6. CASE r.kind = "reject"
  <2>1. PICK s : s = <<Get(Listg(r)), Get(Offr(r))>>
    OBVIOUS
  <2>2. PICK w : w = <<Put(Offr(r))>>
    OBVIOUS
  <2>3. Plan(r) = s \o Consume(r) \o w
    BY <1>6, <2>1, <2>2 DEF Plan
  <2>4. s \in Seq(Ops) /\ s # <<>> /\ Len(s) = 2 /\ w \in Seq(Ops) /\ Len(w) = 1
    BY <1>6, <2>1, <2>2, RequestKeys, OpsOf
  <2>5. s[1] = Get(First(r))
    BY <1>6, <2>1 DEF First
  <2>6. \A h \in 2 .. Len(s) : s[h][1] = "get" /\ Fits(r, s[h])
    BY <1>6, <2>1, <2>4, KeysDiffer DEF Get, Fits
  <2>7. \A h \in 1 .. Len(w) : Fits(r, w[h])
    BY <1>6, <2>2, <2>4, KeysDiffer DEF Get, Put, Add, Fits, Puts
  <2>8. \A h \in 1 .. Len(w) : w[h][1] = "put" =>
          \/ \E i \in 1 .. Len(s) : s[i] = Get(Needs(r, w[h][2]))
          \/ \E i \in 1 .. h - 1 : w[i] = Get(Needs(r, w[h][2]))
    BY <1>6, <2>1, <2>2, <2>4 DEF Get, Put, Add, Needs
  <2> QED  BY <2>3, <2>4, <2>5, <2>6, <2>7, <2>8, NoncePlan
<1>7. CASE r.kind = "transfer-intent"
  <2>1. PICK s : s = <<Get(Deall(r)), Get(Passp(r))>>
    OBVIOUS
  <2>2. PICK w : w = <<Put(Deall(r)), Get(Listg(r))>>
    OBVIOUS
  <2>3. Plan(r) = s \o Consume(r) \o w
    BY <1>7, <2>1, <2>2 DEF Plan
  <2>4. s \in Seq(Ops) /\ s # <<>> /\ Len(s) = 2 /\ w \in Seq(Ops) /\ Len(w) = 2
    BY <1>7, <2>1, <2>2, RequestKeys, OpsOf
  <2>5. s[1] = Get(First(r))
    BY <1>7, <2>1 DEF First
  <2>6. \A h \in 2 .. Len(s) : s[h][1] = "get" /\ Fits(r, s[h])
    BY <1>7, <2>1, <2>4, KeysDiffer DEF Get, Fits
  <2>7. \A h \in 1 .. Len(w) : Fits(r, w[h])
    BY <1>7, <2>2, <2>4, KeysDiffer DEF Get, Put, Add, Fits, Puts
  <2>8. \A h \in 1 .. Len(w) : w[h][1] = "put" =>
          \/ \E i \in 1 .. Len(s) : s[i] = Get(Needs(r, w[h][2]))
          \/ \E i \in 1 .. h - 1 : w[i] = Get(Needs(r, w[h][2]))
    BY <1>7, <2>1, <2>2, <2>4 DEF Get, Put, Add, Needs
  <2> QED  BY <2>3, <2>4, <2>5, <2>6, <2>7, <2>8, NoncePlan
<1>8. CASE r.kind = "transfer-accept"
  <2>1. PICK s : s = <<Get(Deall(r)), Get(Passp(r))>>
    OBVIOUS
  <2>2. PICK w : w = <<Put(Deall(r)), Put(Passp(r))>>
    OBVIOUS
  <2>3. Plan(r) = s \o Consume(r) \o w
    BY <1>8, <2>1, <2>2 DEF Plan, TransferPlan
  <2>4. s \in Seq(Ops) /\ s # <<>> /\ Len(s) = 2 /\ w \in Seq(Ops) /\ Len(w) = 2
    BY <1>8, <2>1, <2>2, RequestKeys, OpsOf
  <2>5. s[1] = Get(First(r))
    BY <1>8, <2>1 DEF First
  <2>6. \A h \in 2 .. Len(s) : s[h][1] = "get" /\ Fits(r, s[h])
    BY <1>8, <2>1, <2>4, KeysDiffer DEF Get, Fits
  <2>7. \A h \in 1 .. Len(w) : Fits(r, w[h])
    BY <1>8, <2>2, <2>4, KeysDiffer DEF Get, Put, Add, Fits, Puts
  <2>8. \A h \in 1 .. Len(w) : w[h][1] = "put" =>
          \/ \E i \in 1 .. Len(s) : s[i] = Get(Needs(r, w[h][2]))
          \/ \E i \in 1 .. h - 1 : w[i] = Get(Needs(r, w[h][2]))
    BY <1>8, <2>1, <2>2, <2>4 DEF Get, Put, Add, Needs
  <2> QED  BY <2>3, <2>4, <2>5, <2>6, <2>7, <2>8, NoncePlan
<1>9. CASE r.kind \in {"confirm-payment", "confirm-asset", "confirm-complete"}
  <2>1. PICK s : s = <<Get(Deall(r))>>
    OBVIOUS
  <2>2. PICK w : w = <<Put(Deall(r))>>
    OBVIOUS
  <2>3. Plan(r) = s \o Consume(r) \o w
    BY <1>9, <2>1, <2>2 DEF Plan
  <2>4. s \in Seq(Ops) /\ s # <<>> /\ Len(s) = 1 /\ w \in Seq(Ops) /\ Len(w) = 1
    BY <1>9, <2>1, <2>2, RequestKeys, OpsOf
  <2>5. s[1] = Get(First(r))
    BY <1>9, <2>1 DEF First
  <2>6. \A h \in 2 .. Len(s) : s[h][1] = "get" /\ Fits(r, s[h])
    BY <1>9, <2>1, <2>4, KeysDiffer DEF Get, Fits
  <2>7. \A h \in 1 .. Len(w) : Fits(r, w[h])
    BY <1>9, <2>2, <2>4, KeysDiffer DEF Get, Put, Add, Fits, Puts
  <2>8. \A h \in 1 .. Len(w) : w[h][1] = "put" =>
          \/ \E i \in 1 .. Len(s) : s[i] = Get(Needs(r, w[h][2]))
          \/ \E i \in 1 .. h - 1 : w[i] = Get(Needs(r, w[h][2]))
    BY <1>9, <2>1, <2>2, <2>4 DEF Get, Put, Add, Needs
  <2> QED  BY <2>3, <2>4, <2>5, <2>6, <2>7, <2>8, NoncePlan
<1>10. CASE r.kind = "deal-cancel"
  <2>1. PICK s : s = <<Get(Deall(r))>>
    OBVIOUS
  <2>2. PICK w : w = <<Get(Listg(r)), Put(Listg(r)), Get(Offr(r)),
                  Put(Offr(r)), Get(Passp(r)), Put(Passp(r))>>
    OBVIOUS
  <2>3. Plan(r) = s \o Consume(r) \o w
    BY <1>10, <2>1, <2>2 DEF Plan
  <2>4. s \in Seq(Ops) /\ s # <<>> /\ Len(s) = 1 /\ w \in Seq(Ops) /\ Len(w) = 6
    BY <1>10, <2>1, <2>2, RequestKeys, OpsOf
  <2>5. s[1] = Get(First(r))
    BY <1>10, <2>1 DEF First
  <2>6. \A h \in 2 .. Len(s) : s[h][1] = "get" /\ Fits(r, s[h])
    BY <1>10, <2>1, <2>4, KeysDiffer DEF Get, Fits
  <2>7. \A h \in 1 .. Len(w) : Fits(r, w[h])
    BY <1>10, <2>2, <2>4, KeysDiffer DEF Get, Put, Add, Fits, Puts
  <2>8. \A h \in 1 .. Len(w) : w[h][1] = "put" =>
          \/ \E i \in 1 .. Len(s) : s[i] = Get(Needs(r, w[h][2]))
          \/ \E i \in 1 .. h - 1 : w[i] = Get(Needs(r, w[h][2]))
    BY <1>10, <2>1, <2>2, <2>4 DEF Get, Put, Add, Needs
  <2> QED  BY <2>3, <2>4, <2>5, <2>6, <2>7, <2>8, NoncePlan
<1>11. CASE r.kind = "fee-right-evidence"
  <2>1. Plan(r) = <<Get(Deall(r)), Put(Deall(r))>>
    BY <1>11 DEF Plan
  <2>2. Plan(r) \in Seq(Ops)
    BY <1>11, <2>1, RequestKeys, OpsOf
  <2>3. Head(Plan(r)) = Get(First(r)) /\ First(r) = Deall(r) /\ Plan(r) # <<>>
    BY <1>11, <2>1 DEF First
  <2>4. PICK t : t = Tail(Plan(r))
    OBVIOUS
  <2>5. t = <<Put(Deall(r))>>
    BY <2>1, <2>4
  <2>6. \A j \in DOMAIN t : Fits(r, t[j])
    BY <1>11, <2>5, KeysDiffer DEF Put, Fits, Puts
  <2>7. Ordered(r, {Get(Deall(r))}, t)
    BY <1>11, <2>5 DEF Ordered, Before, Needs, HasNonce, Get, Put
  <2> QED  BY <2>2, <2>3, <2>4, <2>6, <2>7 DEF Planned
<1>12. CASE r.kind = "payment-evidence"
  <2>1. Plan(r) = <<Get(Deall(r)), Get(PayTx(r.tx)), Put(PayTx(r.tx)), Put(Deall(r))>>
    BY <1>12 DEF Plan, PaymentPlan
  <2>2. Plan(r) \in Seq(Ops)
    BY <1>12, <2>1, RequestKeys, OpsOf DEF HasNonce
  <2>3. Head(Plan(r)) = Get(First(r)) /\ First(r) = Deall(r) /\ Plan(r) # <<>>
    BY <1>12, <2>1 DEF First
  <2>4. PICK t : t = Tail(Plan(r))
    OBVIOUS
  <2>5. t = <<Get(PayTx(r.tx)), Put(PayTx(r.tx)), Put(Deall(r))>>
    BY <2>1, <2>4
  <2>6. \A j \in DOMAIN t : Fits(r, t[j])
    BY <1>12, <2>5, KeysDiffer DEF Get, Put, Fits, Puts
  <2>7. Ordered(r, {Get(Deall(r))}, t)
    BY <1>12, <2>5 DEF Ordered, Before, Needs, HasNonce, Get, Put
  <2> QED  BY <2>2, <2>3, <2>4, <2>6, <2>7 DEF Planned
<1> QED  BY <1>1, <1>2, <1>3, <1>4, <1>5, <1>6, <1>7, <1>8, <1>9, <1>10, <1>11, <1>12, RequestKeys DEF Kinds

-----------------------------------------------------------------------------
(* What a read adds to the plan.                                           *)

LEMMA SeqOfSet ==
  ASSUME NEW S, IsFiniteSet(S)
  PROVE  SetToSeq(S) \in Seq(S)
<1>1. Cardinality(S) \in Nat /\ ExistsBijection(1 .. Cardinality(S), S)
  BY FS_CardinalityType
<1>2. \E f \in [1 .. Cardinality(S) -> S] : IsInjective(f)
  BY <1>1 DEF ExistsBijection, Bijection, Injection
<1>3. SetToSeq(S) \in [1 .. Cardinality(S) -> S]
  BY <1>2 DEF SetToSeq
<1> QED  BY <1>1, <1>3

LEMMA GetsOf ==
  ASSUME NEW r, NEW D, NEW S, IsFiniteSet(S), S \subseteq Ops,
         \A x \in S : x[1] = "get" /\ Fits(r, x)
  PROVE  /\ SetToSeq(S) \in Seq(Ops)
         /\ \A j \in DOMAIN SetToSeq(S) : Fits(r, SetToSeq(S)[j])
         /\ Ordered(r, D, SetToSeq(S))
<1>1. PICK s : s = SetToSeq(S)
  OBVIOUS
<1>2. s \in Seq(S)
  BY <1>1, SeqOfSet
<1>3. \A j \in DOMAIN s : s[j] \in S
  BY <1>2
<1>4. s \in Seq(Ops)
  BY <1>2
<1>5. Ordered(r, D, s)
  BY <1>3 DEF Ordered
<1> QED  BY <1>1, <1>3, <1>4, <1>5

LEMMA ImagesAreFinite ==
  ASSUME NEW S, IsFiniteSet(S)
  PROVE  /\ IsFiniteSet({Get(TheListing(x)) : x \in S})
         /\ IsFiniteSet({Get(TheOffer(x)) : x \in S})
<1>1. [x \in S |-> Get(TheListing(x))] \in Surjection(S, {Get(TheListing(x)) : x \in S})
  BY DEF Surjection
<1>2. [x \in S |-> Get(TheOffer(x))] \in Surjection(S, {Get(TheOffer(x)) : x \in S})
  BY DEF Surjection
<1> QED  BY <1>1, <1>2, FS_Surjection

\* It is of the request, and rests on what has been done.
LEMMA AddsFit ==
  ASSUME NEW r \in Requests, NEW op \in Ops, Fits(r, op),
         NEW m, \A k \in DOMAIN m : Sound(k, m[k]), op[1] = "get" => op[2] \in DOMAIN m,
         NEW D, Awaited(r, op) => op \in D
  PROVE  /\ Adds(r, op, m) \in Seq(Ops)
         /\ \A j \in DOMAIN Adds(r, op, m) : Fits(r, Adds(r, op, m)[j])
         /\ Ordered(r, D, Adds(r, op, m))
<1> DEFINE Fit(a) == /\ a \in Seq(Ops) /\ \A j \in DOMAIN a : Fits(r, a[j])
                     /\ Ordered(r, D, a)
           k == op[2]
<1>0. k \in Keys
  BY DEF Ops
<1>1. Fit(<<>>)
  BY DEF Ordered
<1>2. ASSUME r.kind = "list", op = Get(Index)
      PROVE  Fit(SetToSeq({Get(TheListing(l)) : l \in m[k]}))
  <2>1. m[k] \subseteq Listings /\ IsFiniteSet(m[k])
    BY <1>2, SoundAt, OpsOf
  <2>2. \A l \in Listings : TheListing(l) \in Keys
    BY DEF Keys
  <2>3. \A l \in Listings : Get(TheListing(l)) \in Ops /\ Fits(r, Get(TheListing(l)))
    BY <1>2, <2>2, OpsOf DEF Fits
  <2>4. PICK S : S = {Get(TheListing(l)) : l \in m[k]}
    OBVIOUS
  <2>5. IsFiniteSet(S)
    BY <2>1, <2>4, ImagesAreFinite
  <2>6. \A x \in S : x \in Ops /\ x[1] = "get" /\ Fits(r, x)
    BY <2>1, <2>3, <2>4, OpsOf
  <2> QED  BY <2>4, <2>5, <2>6, GetsOf
<1>3. ASSUME r.kind = "accept", op = Get(OffersOn(L(r)))
      PROVE  Fit(SetToSeq({Get(TheOffer(o)) : o \in m[k] \ {r.id}}))
  <2>0. k = OffersOn(L(r)) /\ k \in DOMAIN m /\ L(r) \in Listings
    BY <1>3, OpsOf, RequestKeys
  <2>1. m[k] \subseteq Offers /\ IsFiniteSet(m[k])
    BY <2>0, SoundAt
  <2>2. \A o \in Offers : TheOffer(o) \in Keys
    BY DEF Keys
  <2>3. \A o \in Offers : Get(TheOffer(o)) \in Ops /\ Fits(r, Get(TheOffer(o)))
    BY <1>3, <2>2, OpsOf DEF Fits
  <2>4. IsFiniteSet(m[k] \ {r.id})
    BY <2>1, FS_Subset
  <2>5. PICK S : S = {Get(TheOffer(o)) : o \in m[k] \ {r.id}}
    OBVIOUS
  <2>6. IsFiniteSet(S)
    BY <2>4, <2>5, ImagesAreFinite
  <2>7. \A x \in S : x \in Ops /\ x[1] = "get" /\ Fits(r, x)
    BY <2>1, <2>3, <2>5, OpsOf
  <2> QED  BY <2>5, <2>6, <2>7, GetsOf
<1>4. ASSUME r.kind = "accept", op \in {Get(TheOffer(o)) : o \in Offers \ {r.id}}, m[k] = "PENDING"
      PROVE  Fit(<<Put(k)>>)
  <2>1. PICK o \in Offers \ {r.id} : op = Get(TheOffer(o))
    BY <1>4
  <2>2. k = TheOffer(o) /\ op[1] = "get"
    BY <2>1, OpsOf
  <2>3. OfferSigned(o)
    BY <1>4, <2>2, SoundAt DEF SoundOffer
  <2>4. k \in Puts(r)
    BY <1>4, <2>2 DEF Puts
  <2>5. \A p : TheOffer(p) = TheOffer(o) => p = o
    BY DEF TheOffer
  <2>6. Fits(r, Put(k))
    BY <1>4, <2>2, <2>3, <2>4, <2>5, OpsOf DEF Fits
  <2>7. Before(r, k) = {}
    BY <1>4, <2>2 DEF Before
  <2>8. Ordered(r, D, <<Put(k)>>)
    BY <2>7, OpsOf DEF Ordered
  <2> QED  BY <1>0, <2>6, <2>8, OpsOf
<1>5. ASSUME r.kind = "transfer-intent", op = Get(Listg(r))
      PROVE  Fit(<<Put(k)>>)
  <2>1. k = Listg(r) /\ k # Nonce(r)
    BY <1>5, OpsOf DEF Listg, TheListing, Nonce
  <2>2. Before(r, k) \subseteq {op} /\ op \in D
    BY <1>5, <2>1, OpsOf DEF Before, Needs, Awaited
  <2>3. Fits(r, Put(k))
    BY <1>5, <2>1, OpsOf DEF Fits, Puts
  <2>4. Ordered(r, D, <<Put(k)>>)
    BY <2>2, OpsOf DEF Ordered
  <2> QED  BY <1>0, <2>3, <2>4, OpsOf
<1>6. ASSUME r.kind = "confirm-complete", op = Put(Nonce(r))
      PROVE  Fit(<<Get(Listg(r)), Put(Listg(r)), Get(Passp(r)), Put(Passp(r))>>)
  <2>1. PICK a : a = <<Get(Listg(r)), Put(Listg(r)), Get(Passp(r)), Put(Passp(r))>>
    OBVIOUS
  <2>2. Listg(r) \in Keys /\ Passp(r) \in Keys
    BY <1>6, RequestKeys
  <2>3. a \in Seq(Ops)
    BY <2>1, <2>2, OpsOf
  <2>4. \A j \in DOMAIN a : Fits(r, a[j])
    BY <1>6, <2>1, KeysDiffer DEF Get, Put, Fits, Puts
  <2>5. op \in D /\ \A x : Before(r, x) \subseteq {Get(x), op}
    BY <1>6 DEF Before, Needs, Awaited
  <2>6. Ordered(r, D, a)
    BY <2>1, <2>5 DEF Ordered, Get, Put
  <2> QED  BY <2>1, <2>3, <2>4, <2>6
<1> HIDE DEF Fit
<1>7. Fit(Adds(r, op, m))
  BY <1>1, <1>2, <1>3, <1>4, <1>5, <1>6 DEF Adds
<1> QED  BY <1>7 DEF Fit

-----------------------------------------------------------------------------
(* What a handler makes of a sound record is sound.                        *)

LEMMA ClaimSound ==
  ASSUME NEW t \in Tokens, NEW v, SoundPassport(t, v), NEW w \in Wallets
  PROVE  SoundPassport(t, WithClaim(v, w))
<1>1. CASE v.operator = None
  <2>1. WithClaim(v, w) \in Passport /\ Explained(t, WithClaim(v, w))
    BY <1>1, ClaimExplained, WithClaimType DEF SoundPassport
  <2>2. PICK h : h = <<[from |-> None, to |-> w, deal |-> None]>>
    OBVIOUS
  <2>3. WithClaim(v, w).history = h
    BY <1>1, <2>2 DEF WithClaim
  <2>4. \A i \in DOMAIN h : h[i].deal = None
    BY <2>2
  <2>5. \A o \in Offers : ~Records(WithClaim(v, w), o)
    BY <2>3, <2>4, MarketConstants DEF Records
  <2> QED  BY <2>1, <2>5 DEF SoundPassport
<1>2. CASE v.operator # None
  BY <1>2 DEF WithClaim
<1> QED  BY <1>1, <1>2

LEMMA ListedSound ==
  ASSUME NEW t \in Tokens, NEW v, SoundPassport(t, v), v.operator # None, NEW l \in Listings
  PROVE  SoundPassport(t, [v EXCEPT !.listing = l])
<1>1. PICK p : p = [v EXCEPT !.listing = l]
  OBVIOUS
<1>2. p \in Passport
  BY <1>1, PassportEdits DEF SoundPassport
<1>3. p.operator = v.operator /\ p.history = v.history
  BY <1>1 DEF SoundPassport, Passport
<1>4. v.history # <<>>
  BY DEF SoundPassport, Explained, NoPassport
<1>5. Explained(t, p)
  BY <1>3, <1>4 DEF SoundPassport, Explained
<1>6. \A o \in Offers : Records(p, o) => TransferSigned(o)
  BY <1>3 DEF SoundPassport, Records
<1> QED  BY <1>1, <1>2, <1>5, <1>6 DEF SoundPassport

LEMMA UnlistedSound ==
  ASSUME NEW t \in Tokens, NEW v, SoundPassport(t, v), NEW l \in Listings
  PROVE  SoundPassport(t, Unlisted(v, l))
<1>1. PICK p : p = Unlisted(v, l)
  OBVIOUS
<1>2. /\ p \in Passport /\ p.operator = v.operator /\ p.history = v.history
      /\ v = NoPassport => p = NoPassport
  BY <1>1, UnlistedType DEF SoundPassport
<1>3. Explained(t, p)
  BY <1>2 DEF SoundPassport, Explained
<1>4. \A o \in Offers : Records(p, o) => TransferSigned(o)
  BY <1>2 DEF SoundPassport, Records
<1> QED  BY <1>1, <1>2, <1>3, <1>4 DEF SoundPassport

LEMMA TransferSound ==
  ASSUME NEW o \in Offers, NEW v, SoundPassport(TokenIn(o), v), v.operator = SellerIn(o),
         TransferSigned(o)
  PROVE  SoundPassport(TokenIn(o), WithTransfer(v, o))
<1>1. PICK e : e = [from |-> SellerIn(o), to |-> BuyerOf[o], deal |-> o]
  OBVIOUS
<1>2. PICK p : p = WithTransfer(v, o)
  OBVIOUS
<1>3. p \in Passport /\ p.history = Append(v.history, e)
  BY <1>1, <1>2, WithTransferType DEF SoundPassport
<1>4. Explained(TokenIn(o), p)
  BY <1>2, TransferExplained DEF SoundPassport
<1>5. e \in Move /\ v.history \in Seq(Move)
  <2>1. BuyerOf[o] \in Wallets /\ SellerIn(o) \in Wallets
    BY MarketConstants DEF SellerIn
  <2> QED  BY <1>1, <2>1 DEF Move, SoundPassport, Passport
<1>6. PICK g : g = p.history
  OBVIOUS
<1>7. \A i \in DOMAIN g : (i \in DOMAIN v.history /\ g[i] = v.history[i]) \/ g[i] = e
  BY <1>3, <1>5, <1>6
<1>8. ASSUME NEW q \in Offers, Records(p, q)
      PROVE  TransferSigned(q)
  <2>1. PICK i \in DOMAIN g : g[i].deal = q
    BY <1>6, <1>8 DEF Records
  <2>2. CASE g[i] = e
    BY <1>1, <2>1, <2>2
  <2>3. CASE i \in DOMAIN v.history /\ g[i] = v.history[i]
    BY <2>1, <2>3 DEF Records, SoundPassport
  <2> QED  BY <1>7, <2>2, <2>3
<1> QED  BY <1>2, <1>3, <1>4, <1>8 DEF SoundPassport

LEMMA FreshSound ==
  ASSUME NEW o \in Offers, OfferSigned(o), Consumed("accept", o)
  PROVE  SoundDeal(o, FreshDeal)
<1>1. FreshDeal \in Deal
  BY FreshDealType
<1>2. /\ FreshDeal.status = "OPEN" /\ ~FreshDeal.moved /\ FreshDeal.payTx = None /\ ~FreshDeal.intent
      /\ \A r \in Roles : FreshDeal.complete[r] = {}
  BY DEF FreshDeal
<1> QED  BY <1>1, <1>2 DEF SoundDeal

\* A deal edited before its completion.
LEMMA OpenDealSound ==
  ASSUME NEW o \in Offers, NEW v, SoundDeal(o, v), v.status = "OPEN"
  PROVE  /\ Consumed("transfer-intent", o) => SoundDeal(o, [v EXCEPT !.intent = TRUE])
         /\ v.intent => SoundDeal(o, [v EXCEPT !.moved = TRUE])
         /\ \A w \in Roles : SoundDeal(o, [v EXCEPT !.payBy = @ \cup {w}])
         /\ \A w \in Roles : SoundDeal(o, [v EXCEPT !.assetBy = @ \cup {w}])
<1>0. v \in Deal
  BY DEF SoundDeal
<1>1. ASSUME NEW d \in Deal, d.status = v.status, d.payTx = v.payTx,
             d.complete = v.complete, d.moved => d.intent, d.intent => Consumed("transfer-intent", o)
      PROVE  SoundDeal(o, d)
  BY <1>1 DEF SoundDeal
<1>2. ASSUME Consumed("transfer-intent", o)
      PROVE  SoundDeal(o, [v EXCEPT !.intent = TRUE])
  <2>1. PICK d : d = [v EXCEPT !.intent = TRUE]
    OBVIOUS
  <2>2. d \in Deal
    BY <1>0, <2>1, DealEdits
  <2>3. d.status = v.status /\ d.payTx = v.payTx /\ d.complete = v.complete /\ d.intent
    BY <1>0, <2>1 DEF Deal
  <2> QED  BY <1>1, <1>2, <2>1, <2>2, <2>3
<1>3. ASSUME v.intent
      PROVE  SoundDeal(o, [v EXCEPT !.moved = TRUE])
  <2>1. PICK d : d = [v EXCEPT !.moved = TRUE]
    OBVIOUS
  <2>2. d \in Deal
    BY <1>0, <2>1, DealEdits
  <2>3. /\ d.status = v.status /\ d.payTx = v.payTx /\ d.complete = v.complete
        /\ d.intent = v.intent
    BY <1>0, <2>1 DEF Deal
  <2> QED  BY <1>1, <1>3, <2>1, <2>2, <2>3 DEF SoundDeal
<1>4. ASSUME NEW w \in Roles
      PROVE  /\ SoundDeal(o, [v EXCEPT !.payBy = @ \cup {w}])
             /\ SoundDeal(o, [v EXCEPT !.assetBy = @ \cup {w}])
  <2>1. PICK d : d = [v EXCEPT !.payBy = @ \cup {w}]
    OBVIOUS
  <2>2. PICK e : e = [v EXCEPT !.assetBy = @ \cup {w}]
    OBVIOUS
  <2>3. d \in Deal /\ e \in Deal
    BY <1>0, <2>1, <2>2, DealEdits
  <2>4. /\ d.status = v.status /\ d.payTx = v.payTx /\ d.complete = v.complete
        /\ d.intent = v.intent /\ d.moved = v.moved
    BY <1>0, <2>1 DEF Deal
  <2>5. /\ e.status = v.status /\ e.payTx = v.payTx /\ e.complete = v.complete
        /\ e.intent = v.intent /\ e.moved = v.moved
    BY <1>0, <2>2 DEF Deal
  <2> QED  BY <1>1, <2>1, <2>2, <2>3, <2>4, <2>5 DEF SoundDeal
<1> QED  BY <1>2, <1>3, <1>4

\* Evidence is also accepted of a deal that is complete.
LEMMA EvidenceSound ==
  ASSUME NEW o \in Offers, NEW v, SoundDeal(o, v), NEW x \in Txs
  PROVE  /\ SoundDeal(o, [v EXCEPT !.feeTx = x])
         /\ o \in Pays[x] => SoundDeal(o, [v EXCEPT !.payTx = x])
<1>0. v \in Deal /\ x # None
  BY MarketConstants DEF SoundDeal
<1>1. PICK d : d = [v EXCEPT !.feeTx = x]
  OBVIOUS
<1>2. PICK e : e = [v EXCEPT !.payTx = x]
  OBVIOUS
<1>3. d \in Deal /\ e \in Deal
  BY <1>0, <1>1, <1>2, DealEdits
<1>4. /\ d.status = v.status /\ d.intent = v.intent /\ d.moved = v.moved /\ d.complete = v.complete
      /\ d.payTx = v.payTx /\ d.payBy = v.payBy /\ d.assetBy = v.assetBy /\ d.feeTx = x
  BY <1>0, <1>1 DEF Deal
<1>5. /\ e.status = v.status /\ e.intent = v.intent /\ e.moved = v.moved /\ e.complete = v.complete
      /\ e.payTx = x /\ e.payBy = v.payBy /\ e.assetBy = v.assetBy /\ e.feeTx = v.feeTx
  BY <1>0, <1>2 DEF Deal
<1>6. AllDone(o, v) => AllDone(o, d) /\ AllDone(o, e)
  BY <1>0, <1>4, <1>5 DEF AllDone, PaymentDone, AssetDone
<1>7. SoundDeal(o, d)
  BY <1>3, <1>4, <1>6 DEF SoundDeal
<1>8. o \in Pays[x] => SoundDeal(o, e)
  BY <1>3, <1>5, <1>6 DEF SoundDeal
<1> QED  BY <1>1, <1>2, <1>7, <1>8

LEMMA CompleteSound ==
  ASSUME NEW o \in Offers, NEW v, SoundDeal(o, v), v.status = "OPEN", AllDone(o, v),
         NEW w \in Roles
  PROVE  SoundDeal(o, WithComplete(o, v, w))
<1>1. PICK s : s = [v EXCEPT !.complete[w] = {StateHash(o, v)}]
  OBVIOUS
<1>2. PICK c : c = [s EXCEPT !.status = "COMPLETED"]
  OBVIOUS
<1>3. PICK d : d = WithComplete(o, v, w)
  OBVIOUS
<1>4. d = IF \A r \in Roles : s.complete[r] # {} THEN c ELSE s
  BY <1>1, <1>2, <1>3 DEF WithComplete
<1>5. v \in Deal /\ d \in Deal
  BY <1>3, WithCompleteType DEF SoundDeal
<1>6. /\ s.status = v.status /\ s.intent = v.intent /\ s.moved = v.moved
      /\ s.payTx = v.payTx /\ s.payBy = v.payBy /\ s.assetBy = v.assetBy /\ s.feeTx = v.feeTx
      /\ DOMAIN s = DOMAIN v
  BY <1>1, <1>5 DEF Deal
<1>7. /\ c.status = "COMPLETED" /\ c.intent = v.intent /\ c.moved = v.moved
      /\ c.payTx = v.payTx /\ c.payBy = v.payBy /\ c.assetBy = v.assetBy /\ c.feeTx = v.feeTx
      /\ c.complete = s.complete
  BY <1>2, <1>5, <1>6 DEF Deal
<1>8. d.status = "COMPLETED" => \A r \in Roles : d.complete[r] # {}
  BY <1>4, <1>6, <1>7
<1>9. /\ d.intent = v.intent /\ d.moved = v.moved /\ d.payTx = v.payTx
      /\ d.payBy = v.payBy /\ d.assetBy = v.assetBy /\ d.feeTx = v.feeTx
  BY <1>4, <1>6, <1>7
<1>10. AllDone(o, d)
  BY <1>9 DEF AllDone, PaymentDone, AssetDone
<1>11. ASSUME NEW r \in Roles, NEW x \in d.complete[r]
       PROVE  NothingPending(o, x)
  <2>1. NothingPending(o, StateHash(o, v))
    BY DEF AllDone, StateHash, NothingPending
  <2>2. d.complete[r] = IF r = w THEN {StateHash(o, v)} ELSE v.complete[r]
    BY <1>1, <1>4, <1>5, <1>7 DEF Deal
  <2> QED  BY <1>11, <2>1, <2>2 DEF SoundDeal
<1>12. SoundDeal(o, d)
  BY <1>5, <1>8, <1>9, <1>10, <1>11 DEF SoundDeal
<1> QED  BY <1>3, <1>12

\* A listing whose status changes.
LEMMA ListingSound ==
  ASSUME NEW l \in Listings, NEW v \in Listing, Consumed("list", l),
         NEW s \in ListingStatus, NEW d \in Offers \cup {None}
  PROVE  SoundListing(l, [v EXCEPT !.status = s]) /\ SoundListing(l, [status |-> s, deal |-> d])
BY DEF SoundListing, Listing

-----------------------------------------------------------------------------
(* Every write stores a sound record.                                      *)

\* What an invocation about to write k has read and done.
LEMMA WriteRests ==
  ASSUME NEW i, i # Idle, Knows(i), i.todo # <<>>, NEW k, Head(i.todo) = Put(k), k # Nonce(i.req)
  PROVE  /\ k \in Puts(i.req)
         /\ \A o \in Offers : i.req.kind = "accept" /\ k = TheOffer(o) => o = i.req.id \/ OfferSigned(o)
         /\ i.req.kind # "accept" \/ k \notin {TheOffer(o) : o \in Offers \ {i.req.id}} =>
              /\ Needs(i.req, k) \in DOMAIN i.mem
              /\ HasNonce(i.req) /\ ~(i.req.kind = "transfer-intent" /\ k = Listg(i.req)) =>
                   /\ \A kind : kind = i.req.kind => Consumed(kind, i.req.id)
                   /\ i.req.kind = "confirm-complete" => AllDone(i.req.id, i.mem[Deall(i.req)])
<1> DEFINE r == i.req
           m == i.mem
           q == i.todo
<1>1. q \in Seq(Ops) /\ 1 \in DOMAIN q /\ q[1] = Put(k) /\ r \in Requests
  BY DEF Knows
<1>2. Fits(r, Put(k))
  BY <1>1 DEF Knows
<1>3. \A op \in Before(r, k) : op \in DoneBy(r, m)
  <2>1. \A op \in Before(r, k) : op \in DoneBy(r, m) \/ \E h \in 1 .. 1 - 1 : q[h] = op
    BY <1>1, OpsOf DEF Knows, Ordered
  <2> QED  BY <2>1
<1>4. Get(Needs(r, k)) \in DoneBy(r, m) => Needs(r, k) \in DOMAIN m
  BY OpsOf DEF DoneBy, Put, Get
<1>5. Put(Nonce(r)) \in DoneBy(r, m) =>
        kv[Nonce(r)] /\ (r.kind = "confirm-complete" => AllDone(r.id, m[Deall(r)]))
  BY DEF DoneBy, Put, Get
<1>6. kv[Nonce(r)] => \A kind : kind = r.kind => Consumed(kind, r.id)
  BY <1>1 DEF Consumed
<1>7. k \in Puts(r) /\ \A o \in Offers : r.kind = "accept" /\ k = TheOffer(o) => o = r.id \/ OfferSigned(o)
  BY <1>2, OpsOf DEF Fits
<1>8. ASSUME r.kind # "accept" \/ k \notin {TheOffer(o) : o \in Offers \ {r.id}}
      PROVE  /\ Get(Needs(r, k)) \in Before(r, k)
             /\ HasNonce(r) /\ ~(r.kind = "transfer-intent" /\ k = Listg(r)) => Put(Nonce(r)) \in Before(r, k)
  BY <1>8 DEF Before
<1> QED  BY <1>3, <1>4, <1>5, <1>6, <1>7, <1>8

LEMMA WriteSound ==
  ASSUME NEW i, i # Idle, Knows(i), i.todo # <<>>, NEW k, Head(i.todo) = Put(k), k # Nonce(i.req)
  PROVE  Sound(k, New(i.req, k, i.mem))
<1> DEFINE r == i.req
           m == i.mem
<1>1. /\ r \in Requests /\ First(r) \in DOMAIN m
      /\ \A x \in DOMAIN m : Sound(x, m[x]) /\ Checked(r, x, m[x])
  BY DEF Knows
<1>2. k \in Puts(r)
  BY WriteRests
<1>3. r.kind # "accept" => /\ Needs(r, k) \in DOMAIN m
                           /\ r.kind # "payment-evidence" => k \in DOMAIN m
  BY WriteRests DEF Needs
<1>4. HasNonce(r) /\ r.kind \notin {"accept", "transfer-intent"} => Consumed(r.kind, r.id)
  BY WriteRests
<1> HIDE DEF r, m
<1> SUFFICES Sound(k, New(r, k, m))
  BY DEF r, m
<1>5. ASSUME r.kind \notin {"claim", "list", "cancel-listing", "offer", "accept", "reject"}
      PROVE  /\ SoundDeal(r.id, m[Deall(r)]) /\ m[Deall(r)].status # "ABSENT"
             /\ HasNonce(r) => m[Deall(r)].status = "OPEN"
             /\ r.kind = "transfer-accept" => m[Deall(r)].intent
             /\ OfferSigned(r.id) /\ Consumed("accept", r.id) /\ Consumed("list", L(r))
  <2>1. First(r) = Deall(r) /\ r.id \in Offers /\ L(r) = ListingOf[r.id]
    BY <1>1, <1>5, RequestKeys DEF First
  <2>2. SoundDeal(r.id, m[Deall(r)])
    BY <1>1, <2>1, SoundAt DEF Deall
  <2>3. Checked(r, Deall(r), m[Deall(r)])
    BY <1>1, <2>1
  <2>4. m[Deall(r)].status # "ABSENT" /\ (HasNonce(r) => m[Deall(r)].status = "OPEN")
        /\ (r.kind = "transfer-accept" => m[Deall(r)].intent)
    BY <2>3 DEF Checked
  <2> QED  BY <2>1, <2>2, <2>4 DEF SoundDeal, OfferSigned
<1>6. ASSUME k = Passp(r), k \in DOMAIN m
      PROVE  /\ SoundPassport(T(r), m[k]) /\ T(r) \in Tokens
             /\ \A v : SoundPassport(T(r), v) => Sound(k, v)
  BY <1>1, <1>6, RequestKeys, SoundAt DEF Passp
<1>7. ASSUME k = Listg(r), r.kind # "claim", Consumed("list", L(r))
      PROVE  /\ \A s \in ListingStatus, d \in Offers \cup {None} : Sound(k, [status |-> s, deal |-> d])
             /\ k \in DOMAIN m => \A s \in ListingStatus : Sound(k, [m[k] EXCEPT !.status = s])
  <2>1. L(r) \in Listings
    BY <1>1, <1>7, RequestKeys
  <2>2. \A s \in ListingStatus, d \in Offers \cup {None} : Sound(k, [status |-> s, deal |-> d])
    <3>1. PICK x : x = [status |-> "ABSENT", deal |-> None]
      OBVIOUS
    <3>2. x \in Listing
      BY <3>1 DEF Listing, ListingStatus
    <3> QED  BY <1>7, <2>1, <3>2, ListingSound, SoundAt DEF Listg
  <2>3. ASSUME k \in DOMAIN m, NEW s \in ListingStatus
        PROVE  Sound(k, [m[k] EXCEPT !.status = s])
    <3>1. m[k] \in Listing
      BY <1>1, <1>7, <2>1, <2>3, SoundAt DEF Listg, SoundListing
    <3>2. SoundListing(L(r), [m[k] EXCEPT !.status = s])
      BY <1>7, <2>1, <3>1, ListingSound
    <3> QED  BY <1>7, <2>1, <3>2, SoundAt DEF Listg
  <2> QED  BY <2>2, <2>3
<1>8. ASSUME r.kind \notin {"claim", "list", "cancel-listing"}, OfferSigned(r.id), k = Offr(r)
      PROVE  \A s \in OfferStatus : Sound(k, s)
  BY <1>1, <1>8, RequestKeys, SoundAt DEF Offr, SoundOffer
<1>9. ASSUME r.kind \notin {"claim", "list", "cancel-listing"}, k = Deall(r)
      PROVE  \A v : SoundDeal(r.id, v) => Sound(k, v)
  BY <1>1, <1>9, RequestKeys, SoundAt DEF Deall
<1>10. CASE r.kind = "claim"
  <2>1. k = Passp(r) /\ k \in DOMAIN m
    BY <1>2, <1>3, <1>10 DEF Puts
  <2>2. New(r, k, m) = WithClaim(m[k], r.by)
    BY <1>10, <2>1 DEF New, Passp, PassportOf, Nonce
  <2> QED  BY <1>1, <1>6, <1>10, <2>1, <2>2, ClaimSound, RequestKeys
<1>11. CASE r.kind = "list"
  <2>1. Consumed("list", L(r)) /\ k \in DOMAIN m /\ r.id \in Listings
    BY <1>1, <1>3, <1>4, <1>11, RequestKeys DEF HasNonce
  <2>2. CASE k = Listg(r)
    <3>1. New(r, k, m) = [status |-> "ACTIVE", deal |-> None]
      BY <1>11, <2>2 DEF New, Passp, PassportOf, Nonce, Listg, TheListing
    <3> QED  BY <1>7, <1>11, <2>1, <2>2, <3>1 DEF ListingStatus
  <2>3. CASE k = Passp(r)
    <3>1. New(r, k, m) = [m[k] EXCEPT !.listing = r.id]
      BY <1>11, <2>3 DEF New, Passp, PassportOf, Nonce, Listg, TheListing
    <3>2. m[k].operator # None
      <4>1. m[k].operator = SellerOf[r.id]
        BY <1>1, <1>11, <2>1, <2>3 DEF Checked
      <4>2. SellerOf[r.id] \in Wallets
        BY <2>1, MarketConstants
      <4> QED  BY <4>1, <4>2, MarketConstants
    <3> QED  BY <1>6, <2>1, <2>3, <3>1, <3>2, ListedSound
  <2> QED  BY <1>2, <1>11, <2>2, <2>3 DEF Puts
<1>12. CASE r.kind = "cancel-listing"
  <2>1. Consumed("list", L(r)) /\ L(r) \in Listings
    <3>1. First(r) = Listg(r) /\ L(r) \in Listings
      BY <1>1, <1>12, RequestKeys DEF First
    <3>2. SoundListing(L(r), m[Listg(r)])
      BY <1>1, <3>1, SoundAt DEF Listg
    <3>3. m[Listg(r)].status = "ACTIVE"
      BY <1>1, <1>12, <3>1 DEF Checked
    <3> QED  BY <3>1, <3>2, <3>3 DEF SoundListing
  <2>2. CASE k = Listg(r)
    <3>1. New(r, k, m) = [m[k] EXCEPT !.status = "CANCELLED"]
      BY <1>12, <2>2 DEF New, Passp, PassportOf, Nonce, Listg, TheListing
    <3> QED  BY <1>3, <1>7, <1>12, <2>1, <2>2, <3>1 DEF ListingStatus
  <2>3. CASE k = Passp(r)
    <3>1. New(r, k, m) = Unlisted(m[k], L(r))
      BY <1>12, <2>3 DEF New, Passp, PassportOf, Nonce, Listg, TheListing
    <3> QED  BY <1>3, <1>6, <1>12, <2>1, <2>3, <3>1, UnlistedSound
  <2> QED  BY <1>2, <1>12, <2>2, <2>3 DEF Puts
<1>13. CASE r.kind = "offer"
  <2>1. k = Offr(r)
    BY <1>2, <1>13 DEF Puts
  <2>2. New(r, k, m) = "PENDING"
    BY <1>13, <2>1 DEF New, Offr, TheOffer, Nonce
  <2>3. First(r) = Listg(r) /\ L(r) \in Listings /\ L(r) = ListingOf[r.id]
    BY <1>1, <1>13, RequestKeys DEF First
  <2>4. SoundListing(L(r), m[Listg(r)])
    BY <1>1, <2>3, SoundAt DEF Listg
  <2>5. m[Listg(r)].status = "ACTIVE"
    BY <1>1, <1>13, <2>3 DEF Checked
  <2>6. OfferSigned(r.id)
    BY <1>4, <1>13, <2>3, <2>4, <2>5 DEF OfferSigned, SoundListing, HasNonce
  <2> QED  BY <1>8, <1>13, <2>1, <2>2, <2>6 DEF OfferStatus
<1>14. CASE r.kind \in {"accept", "reject"}
  <2>1. r.id \in Offers /\ L(r) = ListingOf[r.id]
    BY <1>1, <1>14, RequestKeys
  <2>2. ASSUME Offr(r) \in DOMAIN m
        PROVE  OfferSigned(r.id) /\ Consumed("list", L(r))
    <3>1. SoundOffer(r.id, m[Offr(r)]) /\ m[Offr(r)] = "PENDING"
      BY <1>1, <1>14, <2>1, <2>2, SoundAt DEF Offr, Checked
    <3> QED  BY <2>1, <3>1 DEF SoundOffer, OfferSigned
  <2>3. CASE r.kind = "reject"
    <3>1. k = Offr(r) /\ k \in DOMAIN m
      BY <1>2, <1>3, <2>3 DEF Puts
    <3>2. New(r, k, m) = "REJECTED"
      BY <2>3, <3>1 DEF New, Offr, TheOffer, Nonce
    <3> QED  BY <1>8, <2>2, <2>3, <3>1, <3>2 DEF OfferStatus
  <2>4. CASE r.kind = "accept" /\ k \notin {TheOffer(o) : o \in Offers \ {r.id}}
    <3>1. Offr(r) \in DOMAIN m /\ Consumed("accept", r.id)
      BY <2>4, WriteRests DEF Needs, HasNonce, r, m
    <3>2. OfferSigned(r.id) /\ Consumed("list", L(r))
      BY <2>2, <3>1
    <3>3. k \in {Offr(r), Listg(r), Deall(r)}
      BY <1>2, <2>4 DEF Puts, Offr
    <3>4. CASE k = Offr(r)
      <4>1. New(r, k, m) = "ACCEPTED"
        BY <2>4, <3>4 DEF New, Offr, TheOffer, Nonce, Listg, TheListing, Deall, TheDeal
      <4> QED  BY <1>8, <2>4, <3>2, <3>4, <4>1 DEF OfferStatus
    <3>5. CASE k = Listg(r)
      <4>1. New(r, k, m) = [status |-> "OFFER_ACCEPTED", deal |-> r.id]
        BY <2>4, <3>5 DEF New, Offr, TheOffer, Nonce, Listg, TheListing, Deall, TheDeal
      <4> QED  BY <1>7, <2>1, <2>4, <3>2, <3>5, <4>1 DEF ListingStatus
    <3>6. CASE k = Deall(r)
      <4>1. New(r, k, m) = FreshDeal
        BY <2>4, <3>6 DEF New, Offr, TheOffer, Nonce, Listg, TheListing, Deall, TheDeal
      <4> QED  BY <1>9, <2>1, <2>4, <3>1, <3>2, <3>6, <4>1, FreshSound
    <3> QED  BY <3>3, <3>4, <3>5, <3>6
  <2>5. CASE r.kind = "accept" /\ k \in {TheOffer(o) : o \in Offers \ {r.id}}
    <3>1. PICK o \in Offers \ {r.id} : k = TheOffer(o)
      BY <2>5
    <3>2. OfferSigned(o)
      BY <2>5, <3>1, WriteRests DEF r
    <3>3. New(r, k, m) = "SUPERSEDED"
      BY <2>5, <3>1 DEF New, Offr, TheOffer, Nonce, Listg, TheListing, Deall, TheDeal
    <3> QED  BY <3>1, <3>2, <3>3, SoundAt DEF SoundOffer, OfferStatus
  <2> QED  BY <1>14, <2>3, <2>4, <2>5
<1>15. CASE r.kind = "transfer-intent"
  <2>1. k \in DOMAIN m /\ r.id \in Offers
    BY <1>1, <1>3, <1>15, RequestKeys
  <2>2. CASE k = Deall(r)
    <3>1. New(r, k, m) = [m[k] EXCEPT !.intent = TRUE]
      BY <1>15, <2>2 DEF New, Nonce, Listg, TheListing, Deall, TheDeal
    <3>2. Consumed("transfer-intent", r.id)
      BY <1>15, <2>2, WriteRests DEF HasNonce, Deall, TheDeal, Listg, TheListing, r
    <3>3. SoundDeal(r.id, m[k]) /\ m[k].status = "OPEN"
      BY <1>5, <1>15, <2>2 DEF HasNonce
    <3> QED  BY <1>9, <1>15, <2>1, <2>2, <3>1, <3>2, <3>3, OpenDealSound
  <2>3. CASE k = Listg(r)
    <3>1. New(r, k, m) = [m[k] EXCEPT !.status = "IN_TRANSFER"]
      BY <1>15, <2>3 DEF New, Nonce, Listg, TheListing, Deall, TheDeal
    <3> QED  BY <1>5, <1>7, <1>15, <2>1, <2>3, <3>1 DEF ListingStatus
  <2> QED  BY <1>2, <1>15, <2>2, <2>3 DEF Puts
<1>16. CASE r.kind = "transfer-accept"
  <2>1. k \in DOMAIN m /\ r.id \in Offers /\ T(r) = TokenIn(r.id)
    BY <1>1, <1>3, <1>16, RequestKeys
  <2>2. CASE k = Deall(r)
    <3>1. New(r, k, m) = [m[k] EXCEPT !.moved = TRUE]
      BY <1>16, <2>2 DEF New, Nonce, Passp, PassportOf, Deall, TheDeal
    <3>2. SoundDeal(r.id, m[k]) /\ m[k].status = "OPEN" /\ m[k].intent
      BY <1>5, <1>16, <2>2 DEF HasNonce
    <3> QED  BY <1>9, <1>16, <2>1, <2>2, <3>1, <3>2, OpenDealSound
  <2>3. CASE k = Passp(r)
    <3>1. New(r, k, m) = WithTransfer(m[k], r.id)
      BY <1>16, <2>3 DEF New, Nonce, Passp, PassportOf, Deall, TheDeal
    <3>2. m[k].operator = SellerIn(r.id)
      BY <1>1, <1>16, <2>1, <2>3 DEF Checked
    <3>3. TransferSigned(r.id)
      BY <1>4, <1>5, <1>16 DEF TransferSigned, SoundDeal, HasNonce
    <3> QED  BY <1>6, <2>1, <2>3, <3>1, <3>2, <3>3, TransferSound
  <2> QED  BY <1>2, <1>16, <2>2, <2>3 DEF Puts
<1>17. CASE r.kind = "fee-right-evidence"
  <2>1. k = Deall(r) /\ r.id \in Offers /\ r.tx \in Txs
    BY <1>1, <1>2, <1>17, RequestKeys DEF Puts, HasNonce
  <2>2. New(r, k, m) = [m[k] EXCEPT !.feeTx = r.tx]
    BY <1>17, <2>1 DEF New, Nonce, Deall, TheDeal
  <2>3. PICK v : v = m[k]
    OBVIOUS
  <2>4. PICK o \in Offers, x \in Txs : o = r.id /\ x = r.tx
    BY <2>1
  <2>5. SoundDeal(o, v)
    BY <1>5, <1>17, <2>1, <2>3, <2>4
  <2>6. SoundDeal(o, [v EXCEPT !.feeTx = x])
    BY <2>5, EvidenceSound
  <2>7. Sound(k, [v EXCEPT !.feeTx = x])
    BY <1>9, <1>17, <2>1, <2>4, <2>6
  <2> QED  BY <2>2, <2>3, <2>4, <2>7
<1>18. CASE r.kind = "payment-evidence"
  <2>1. r.id \in Offers /\ r.tx \in Txs
    BY <1>1, <1>18, RequestKeys DEF HasNonce
  <2>2. CASE k = Deall(r)
    <3>1. New(r, k, m) = [m[k] EXCEPT !.payTx = r.tx]
      BY <1>18, <2>2 DEF New, Nonce, Deall, TheDeal, PayTx
    <3>2. PayTx(r.tx) \in DOMAIN m
      BY <1>3, <1>18 DEF Needs
    <3>3. r.id \in Pays[r.tx]
      BY <1>1, <1>18, <3>2 DEF Checked
    <3>4. PICK v : v = m[k]
      OBVIOUS
    <3>5. PICK o \in Offers, x \in Txs : o = r.id /\ x = r.tx
      BY <2>1
    <3>6. SoundDeal(o, v) /\ o \in Pays[x]
      BY <1>5, <1>18, <2>1, <2>2, <3>3, <3>4, <3>5
    <3>7. SoundDeal(o, [v EXCEPT !.payTx = x])
      BY <3>6, EvidenceSound
    <3>8. Sound(k, [v EXCEPT !.payTx = x])
      BY <1>9, <1>18, <2>2, <3>5, <3>7
    <3> QED  BY <3>1, <3>4, <3>5, <3>8
  <2>3. CASE k = PayTx(r.tx)
    BY <2>1, <2>3, SoundAt
  <2> QED  BY <1>2, <1>18, <2>2, <2>3 DEF Puts
<1>19. CASE r.kind \in {"confirm-payment", "confirm-asset"}
  <2>1. k = Deall(r) /\ r.id \in Offers /\ r.by \in Roles
    BY <1>1, <1>2, <1>19, RequestKeys DEF Puts
  <2>2. \/ New(r, k, m) = [m[k] EXCEPT !.payBy = @ \cup {r.by}]
        \/ New(r, k, m) = [m[k] EXCEPT !.assetBy = @ \cup {r.by}]
    BY <1>19, <2>1 DEF New, Nonce, Deall, TheDeal
  <2>3. SoundDeal(r.id, m[k]) /\ m[k].status = "OPEN"
    BY <1>5, <1>19, <2>1 DEF HasNonce
  <2>4. /\ SoundDeal(r.id, [m[k] EXCEPT !.payBy = @ \cup {r.by}])
        /\ SoundDeal(r.id, [m[k] EXCEPT !.assetBy = @ \cup {r.by}])
    BY <2>1, <2>3, OpenDealSound
  <2> QED  BY <1>9, <1>19, <2>1, <2>2, <2>4
<1>20. CASE r.kind = "confirm-complete"
  <2>1. k \in DOMAIN m /\ r.id \in Offers /\ r.by \in Roles /\ L(r) \in Listings
    BY <1>1, <1>3, <1>20, RequestKeys
  <2>2. CASE k = Deall(r)
    <3>1. New(r, k, m) = WithComplete(r.id, m[k], r.by)
      BY <1>20, <2>2 DEF New, Nonce, Listg, TheListing, Passp, PassportOf, Deall, TheDeal
    <3>2. AllDone(r.id, m[k])
      BY <1>20, <2>2, WriteRests DEF HasNonce, r, m
    <3>3. SoundDeal(r.id, m[k]) /\ m[k].status = "OPEN"
      BY <1>5, <1>20, <2>2 DEF HasNonce
    <3> QED  BY <1>9, <1>20, <2>1, <2>2, <3>1, <3>2, <3>3, CompleteSound
  <2>3. CASE k = Listg(r)
    <3>1. New(r, k, m) = [m[k] EXCEPT !.status = "COMPLETED"]
      BY <1>20, <2>3 DEF New, Nonce, Listg, TheListing, Passp, PassportOf, Deall, TheDeal
    <3> QED  BY <1>5, <1>7, <1>20, <2>1, <2>3, <3>1 DEF ListingStatus
  <2>4. CASE k = Passp(r)
    <3>1. New(r, k, m) = Unlisted(m[k], L(r))
      BY <1>20, <2>4 DEF New, Nonce, Listg, TheListing, Passp, PassportOf, Deall, TheDeal
    <3> QED  BY <1>6, <2>1, <2>4, <3>1, UnlistedSound
  <2> QED  BY <1>2, <1>20, <2>2, <2>3, <2>4 DEF Puts
<1>21. CASE r.kind = "deal-cancel"
  <2>1. k \in DOMAIN m /\ r.id \in Offers
    BY <1>1, <1>3, <1>21, RequestKeys
  <2>2. CASE k = Listg(r)
    <3>1. New(r, k, m) = Reopened(m[Deall(r)], m[k])
      BY <1>21, <2>2 DEF New, Nonce, Listg, TheListing, Passp, PassportOf, Offr, TheOffer
    <3>2. \/ New(r, k, m) = [m[k] EXCEPT !.status = "CANCELLED"]
          \/ New(r, k, m) = [status |-> "ACTIVE", deal |-> None]
      BY <3>1 DEF Reopened
    <3> QED  BY <1>5, <1>7, <1>21, <2>1, <2>2, <3>2 DEF ListingStatus
  <2>3. CASE k = Offr(r)
    <3>1. New(r, k, m) = "DEAL_CANCELLED"
      BY <1>21, <2>3 DEF New, Nonce, Listg, TheListing, Passp, PassportOf, Offr, TheOffer
    <3> QED  BY <1>5, <1>8, <1>21, <2>3, <3>1 DEF OfferStatus
  <2>4. CASE k = Passp(r)
    <3>1. New(r, k, m) = m[k]
      BY <1>21, <2>4 DEF New, Nonce, Listg, TheListing, Passp, PassportOf, Offr, TheOffer
    <3> QED  BY <1>6, <2>1, <2>4, <3>1
  <2> QED  BY <1>2, <1>21, <2>2, <2>3, <2>4 DEF Puts
<1> QED
  BY <1>1, <1>10, <1>11, <1>12, <1>13, <1>14, <1>15, <1>16, <1>17, <1>18, <1>19, <1>20, <1>21,
     RequestKeys DEF Kinds

-----------------------------------------------------------------------------
(* The steps.                                                              *)

LEMMA InitInv == Init => Inv
<1> SUFFICES ASSUME Init PROVE Inv
  OBVIOUS
<1>1. kv = Empty /\ run = [s \in Slots |-> Idle]
  BY DEF Init
<1>2. \A i \in {run[s] : s \in Slots} : Knows(i)
  BY <1>1 DEF Knows
<1>3. run = [s \in Slots |-> run[s]]
  BY <1>1
<1>4. kv = [k \in Keys |-> kv[k]]
  <2> DEFINE e(k) == CASE k[1] = "passport" -> NoPassport
                       [] k[1] = "listing" -> [status |-> "ABSENT", deal |-> None]
                       [] k[1] = "offer" -> "ABSENT"
                       [] k[1] = "deal" -> NoDeal
                       [] k[1] = "paytx" -> None
                       [] k[1] \in {"offers", "listings"} -> {}
                       [] k[1] = "nonce" -> FALSE
  <2>1. kv = [k \in Keys |-> e(k)]
    BY <1>1 DEF Empty
  <2> HIDE DEF e
  <2> QED  BY <2>1
<1>5. \A t \in Tokens : SoundPassport(t, NoPassport)
  <2>1. NoPassport \in Passport /\ NoPassport.history = <<>>
    BY NoPassportType DEF NoPassport
  <2> QED  BY <2>1 DEF SoundPassport, Explained, Records
<1>6. \A l \in Listings : SoundListing(l, [status |-> "ABSENT", deal |-> None])
  BY DEF SoundListing, Listing, ListingStatus
<1>7. \A o \in Offers : SoundOffer(o, "ABSENT") /\ SoundDeal(o, NoDeal)
  <2>1. /\ NoDeal \in Deal /\ NoDeal.status = "ABSENT" /\ ~NoDeal.moved /\ NoDeal.payTx = None
        /\ ~NoDeal.intent /\ \A r \in Roles : NoDeal.complete[r] = {}
    BY FreshDealType DEF NoDeal, FreshDeal
  <2> QED  BY <2>1 DEF SoundOffer, SoundDeal, OfferStatus
<1>8. ASSUME NEW k \in Keys
      PROVE  Sound(k, kv[k])
  <2>1. ASSUME NEW t \in Tokens, k = PassportOf(t) PROVE kv[k] = NoPassport
    BY <1>1, <2>1 DEF Empty, PassportOf
  <2>2. ASSUME NEW l \in Listings, k = TheListing(l) PROVE kv[k] = [status |-> "ABSENT", deal |-> None]
    BY <1>1, <2>2 DEF Empty, TheListing
  <2>3. ASSUME NEW o \in Offers, k = TheOffer(o) PROVE kv[k] = "ABSENT"
    BY <1>1, <2>3 DEF Empty, TheOffer
  <2>4. ASSUME NEW o \in Offers, k = TheDeal(o) PROVE kv[k] = NoDeal
    BY <1>1, <2>4 DEF Empty, TheDeal
  <2>5. ASSUME k = Index \/ \E l \in Listings : k = OffersOn(l) PROVE kv[k] = {}
    <3>1. k[1] \in {"offers", "listings"}
      BY <2>5 DEF Index, OffersOn
    <3> QED  BY <1>1, <3>1 DEF Empty
  <2> QED  BY <1>5, <1>6, <1>7, <2>1, <2>2, <2>3, <2>4, <2>5, FS_EmptySet DEF Sound
<1> QED  BY <1>2, <1>3, <1>4, <1>8 DEF Inv

\* What is read passes the handler's checks, or the handler ends.
LEMMA MayChecks ==
  ASSUME NEW r \in Requests, NEW k, NEW m, May(r, Get(k), m)
  PROVE  Checked(r, k, m[k])
<1>1. Get(k)[2] = k /\ \A x : k = x => Get(k) = Get(x)
  BY OpsOf
<1> QED  BY <1>1 DEF May, Checked, HasNonce

\* A step of one invocation leaves the others what they know.
LEMMA OthersKnow ==
  ASSUME Inv, Forward, NEW s \in Slots, NEW i, run' = [run EXCEPT ![s] = i], Knows(i)'
  PROVE  /\ run' = [x \in Slots |-> run'[x]]
         /\ (\A y \in {run[x] : x \in Slots} : Knows(y))'
<1>1. run' = [x \in Slots |-> IF x = s THEN i ELSE run[x]]
  BY DEF Inv
<1>2. \A x \in Slots : run'[x] = i \/ \E y \in {run[z] : z \in Slots} : run'[x] = y
  BY <1>1
<1>3. \A y \in {run[x] : x \in Slots} : Knows(y)'
  BY KnowsStays DEF Inv
<1>4. ASSUME NEW y \in {run'[x] : x \in Slots}
      PROVE  Knows(y)'
  BY <1>2, <1>3, <1>4
<1> QED  BY <1>1, <1>4

\* A store whose new values are sound is sound after the step.
LEMMA StoreSound ==
  ASSUME Forward, \A x \in Keys : Sound(x, kv'[x])
  PROVE  (\A x \in Keys : Sound(x, kv[x]))'
<1>1. PICK f : f = kv'
  OBVIOUS
<1>2. \A x \in Keys : Sound(x, f[x])
  BY <1>1
<1>3. \A x \in Keys : Sound(x, f[x])'
  BY <1>2, SoundStays
<1> QED  BY <1>1, <1>3

LEMMA IdleKnows == Knows(Idle)'
  BY DEF Knows

\* An invocation that has made its next operation and holds m goes on, or ends.
LEMMA GoesOn ==
  ASSUME Inv, Forward, NEW s \in Slots, run[s].todo # <<>>, NEW m, Goes(s, m),
         NEW r, r = run[s].req, NEW op, op = Head(run[s].todo),
         \A x \in DOMAIN m : Sound(x, m[x]),
         DOMAIN m \subseteq Keys, First(r) \in DOMAIN m,
         op[1] = "get" => op[2] \in DOMAIN m,
         May(r, op, m) =>
           /\ DoneBy(r, run[s].mem) \subseteq DoneBy(r, m)'
           /\ Awaited(r, op) => op \in DoneBy(r, m)'
           /\ \A x \in DOMAIN m : Checked(r, x, m[x])
  PROVE  /\ run' = [x \in Slots |-> run'[x]]
         /\ (\A y \in {run[x] : x \in Slots} : Knows(y))'
<1>1. PICK i : i = run[s]
  OBVIOUS
<1>2. i # Idle /\ Knows(i) /\ r = i.req /\ op = Head(i.todo)
  BY <1>1 DEF Inv, Idle
<1>3. /\ r \in Requests /\ i.todo \in Seq(Ops) /\ \A j \in DOMAIN i.todo : Fits(r, i.todo[j])
      /\ Ordered(r, DoneBy(r, i.mem), i.todo)
  BY <1>2 DEF Knows
<1>4. i.todo # <<>> /\ 1 \in DOMAIN i.todo /\ op = i.todo[1] /\ op \in Ops /\ Fits(r, op)
  BY <1>1, <1>2, <1>3
<1>5. PICK a : a = Adds(r, op, m)
  OBVIOUS
<1>6. PICK q : q = a \o Tail(i.todo)
  OBVIOUS
<1>7. PICK n : n = IF ~May(r, op, m) \/ q = <<>> THEN Idle
                   ELSE [req |-> r, todo |-> q, mem |-> m]
  OBVIOUS
<1>8. run' = [run EXCEPT ![s] = n]
  BY <1>1, <1>2, <1>5, <1>6, <1>7 DEF Goes
<1>9. ASSUME May(r, op, m)
      PROVE  Knows([req |-> r, todo |-> q, mem |-> m])'
  <2>1. PICK E : E = DoneBy(r, m)'
    OBVIOUS
  <2>2. /\ a \in Seq(Ops) /\ \A j \in DOMAIN a : Fits(r, a[j])
        /\ Ordered(r, E, a)
    BY <1>3, <1>4, <1>5, <1>9, <2>1, AddsFit
  <2>3. /\ q \in Seq(Ops) /\ Ordered(r, E, q)
        /\ \A j \in DOMAIN q : \/ \E h \in DOMAIN a : q[j] = a[h]
                              \/ \E h \in DOMAIN i.todo : q[j] = i.todo[h]
    <3>1. PICK D : D = DoneBy(r, i.mem)
      OBVIOUS
    <3>2. D \subseteq E /\ (Awaited(r, op) => op \in E)
      BY <1>1, <1>9, <2>1, <3>1
    <3>3. Ordered(r, D, i.todo)
      BY <1>3, <3>1
    <3>4. PICK t : t = i.todo
      OBVIOUS
    <3>5. t \in Seq(Ops) /\ t # <<>> /\ Head(t) = op /\ q = a \o Tail(t) /\ Ordered(r, D, t)
      BY <1>2, <1>3, <1>4, <1>6, <3>3, <3>4
    <3>51. D \subseteq E /\ (Awaited(r, Head(t)) => Head(t) \in E)
      BY <3>2, <3>5
    <3>6. Continues(r, E, a, t)
      BY <2>2, <3>5, <3>51, OrderedNext
    <3> QED  BY <3>4, <3>5, <3>6 DEF Continues
  <2>4. \A j \in DOMAIN q : Fits(r, q[j])
    BY <1>3, <2>2, <2>3
  <2>5. \A j \in DOMAIN q : Fits(r, q[j])'
    BY <2>4, SignedStays DEF Fits
  <2>6. \A x \in DOMAIN m : Sound(x, m[x])'
    BY SoundStays
  <2>7. PICK w : w = [req |-> r, todo |-> q, mem |-> m]
    OBVIOUS
  <2>8. w.req = r /\ w.todo = q /\ w.mem = m
    BY <2>7
  <2>9. Knows(w)'
    BY <1>3, <1>9, <2>1, <2>3, <2>5, <2>6, <2>8 DEF Knows
  <2> QED  BY <2>7, <2>9
<1>10. Knows(n)'
  BY <1>7, <1>9, IdleKnows
<1> QED  BY <1>8, <1>10, OthersKnow

LEMMA StartKeeps ==
  ASSUME Inv, NEW s \in Slots, NEW r \in Requests, Start(s, r)
  PROVE  Inv'
<1>1. PICK m : m = [k \in {First(r)} |-> kv[k]]
  OBVIOUS
<1>2. PICK w : w = [req |-> r, todo |-> Tail(Plan(r)), mem |-> m]
  OBVIOUS
<1>3. /\ Plan(r) \in Seq(Ops) /\ Plan(r) # <<>> /\ Head(Plan(r)) = Get(First(r))
      /\ \A j \in DOMAIN Tail(Plan(r)) : Fits(r, Tail(Plan(r))[j])
      /\ Ordered(r, {Get(First(r))}, Tail(Plan(r)))
  BY PlanFacts DEF Planned
<1>4. /\ kv' = kv /\ run' = [run EXCEPT ![s] = w] /\ May(r, Get(First(r)), m)
  <2>1. Head(Plan(r)) = Get(First(r)) /\ Get(First(r))[2] = First(r)
    BY <1>3, OpsOf
  <2>2. [k \in {Head(Plan(r))[2]} |-> kv[k]] = m
    BY <1>1, <2>1
  <2>3. /\ May(r, Head(Plan(r)), m) /\ run' = [run EXCEPT ![s] = [req |-> r, todo |-> Tail(Plan(r)), mem |-> m]]
        /\ kv' = kv
    BY <2>2 DEF Start
  <2> QED  BY <1>2, <2>1, <2>3
<1>5. First(r) \in Keys
  <2>1. Head(Plan(r)) \in Ops
    BY <1>3
  <2> QED  BY <1>3, <2>1, OpsOf DEF Ops
<1>6. DOMAIN m = {First(r)} /\ m[First(r)] = kv[First(r)]
  BY <1>1
<1>7. Sound(First(r), m[First(r)]) /\ Checked(r, First(r), m[First(r)])
  BY <1>4, <1>5, <1>6, MayChecks DEF Inv
<1>8. Ordered(r, DoneBy(r, m), Tail(Plan(r)))
  <2>1. Get(First(r)) \in DoneBy(r, m)
    BY <1>6 DEF DoneBy
  <2> QED  BY <1>3, <2>1 DEF Ordered
<1>9. Tail(Plan(r)) \in Seq(Ops)
  BY <1>3
<1>10. w.req = r /\ w.todo = Tail(Plan(r)) /\ w.mem = m
  BY <1>2
<1>11. Knows(w)
  BY <1>3, <1>5, <1>6, <1>7, <1>8, <1>9, <1>10 DEF Knows
<1>12. Forward
  BY <1>4 DEF Forward
<1>13. Knows(w)'
  BY <1>11, <1>12, KnowsStays
<1>14. /\ run' = [x \in Slots |-> run'[x]]
       /\ (\A y \in {run[x] : x \in Slots} : Knows(y))'
  BY <1>4, <1>12, <1>13, OthersKnow
<1>15. kv' = [k \in Keys |-> kv'[k]] /\ \A k \in Keys : Sound(k, kv'[k])
  BY <1>4 DEF Inv
<1>16. (\A k \in Keys : Sound(k, kv[k]))'
  BY <1>12, <1>15, StoreSound
<1> QED  BY <1>14, <1>15, <1>16 DEF Inv

\* What is known of an invocation about to make an operation.
LEMMA NextOp ==
  ASSUME Inv, NEW s \in Slots, run[s].todo # <<>>
  PROVE  /\ run[s] # Idle /\ Knows(run[s]) /\ run[s].req \in Requests
         /\ Head(run[s].todo) \in Ops /\ Fits(run[s].req, Head(run[s].todo))
         /\ Head(run[s].todo)[2] \in Keys
         /\ \A verb : Head(run[s].todo)[1] = verb => Head(run[s].todo) = <<verb, Head(run[s].todo)[2]>>
<1>1. PICK i : i = run[s]
  OBVIOUS
<1>2. i # Idle /\ Knows(i) /\ i.todo # <<>>
  BY <1>1 DEF Inv, Idle
<1>3. i.req \in Requests /\ i.todo \in Seq(Ops) /\ \A j \in DOMAIN i.todo : Fits(i.req, i.todo[j])
  BY <1>2 DEF Knows
<1>4. Head(i.todo) = i.todo[1] /\ 1 \in DOMAIN i.todo
  BY <1>2, <1>3
<1>5. Head(i.todo) \in Ops /\ Fits(i.req, Head(i.todo))
  BY <1>3, <1>4
<1>6. Head(i.todo)[2] \in Keys /\ \A verb : Head(i.todo)[1] = verb => Head(i.todo) = <<verb, Head(i.todo)[2]>>
  BY <1>5 DEF Ops
<1> QED  BY <1>1, <1>2, <1>3, <1>5, <1>6

LEMMA ReadKeeps ==
  ASSUME Inv, NEW s \in Slots, Read(s)
  PROVE  Inv'
<1>1. PICK i : i = run[s]
  OBVIOUS
<1>2. PICK r : r = i.req
  OBVIOUS
<1>3. PICK op : op = Head(i.todo)
  OBVIOUS
<1>4. PICK k : k = op[2]
  OBVIOUS
<1>5. PICK m : m = Learn(i.mem, k, kv[k])
  OBVIOUS
<1>6. kv' = kv /\ i.todo # <<>> /\ Goes(s, m) /\ op[1] = "get"
  BY <1>1, <1>3, <1>4, <1>5 DEF Read, Doing
<1>7. i # Idle /\ Knows(i) /\ r \in Requests /\ Fits(r, op) /\ k \in Keys /\ op = Get(k)
  BY <1>1, <1>2, <1>3, <1>4, <1>6, NextOp DEF Get
<1>8. /\ DOMAIN i.mem \subseteq Keys /\ First(r) \in DOMAIN i.mem
      /\ \A x \in DOMAIN i.mem : Sound(x, i.mem[x]) /\ Checked(r, x, i.mem[x])
  BY <1>2, <1>7 DEF Knows
<1>9. /\ DOMAIN m = {k} \cup DOMAIN i.mem /\ m[k] = kv[k]
      /\ \A x \in DOMAIN i.mem : x # k => m[x] = i.mem[x]
  BY <1>5 DEF Learn
<1>10. Forward
  BY <1>6 DEF Forward
<1>11. \A x \in DOMAIN m : Sound(x, m[x])
  BY <1>7, <1>8, <1>9 DEF Inv
<1>12. DoneBy(r, i.mem) \subseteq DoneBy(r, m)'
  <2>1. r.kind = "confirm-complete" => m[Deall(r)] = i.mem[Deall(r)]
    <3>1. r.kind = "confirm-complete" => k # Deall(r) /\ First(r) = Deall(r)
      BY <1>7, OpsOf DEF Fits, First
    <3> QED  BY <1>8, <1>9, <3>1
  <2> QED  BY <1>6, <1>9, <2>1 DEF DoneBy
<1>13. op \in DoneBy(r, m)'
  BY <1>7, <1>9 DEF DoneBy
<1>14. May(r, op, m) => \A x \in DOMAIN m : Checked(r, x, m[x])
  BY <1>7, <1>8, <1>9, MayChecks
<1>15. /\ run' = [x \in Slots |-> run'[x]]
       /\ (\A y \in {run[x] : x \in Slots} : Knows(y))'
  BY <1>1, <1>2, <1>3, <1>4, <1>6, <1>7, <1>8, <1>9, <1>10, <1>11, <1>12, <1>13, <1>14, GoesOn
<1>16. kv' = [x \in Keys |-> kv'[x]] /\ \A x \in Keys : Sound(x, kv'[x])
  BY <1>6 DEF Inv
<1>17. (\A x \in Keys : Sound(x, kv[x]))'
  BY <1>10, <1>16, StoreSound
<1> QED  BY <1>15, <1>16, <1>17 DEF Inv

\* s, at op of request r, leaves its memory alone and writes a sound v to k.
Stores(s, r, op, k, v) ==
  /\ run[s].todo # <<>> /\ Goes(s, run[s].mem)
  /\ r = run[s].req /\ op = Head(run[s].todo) /\ op[1] # "get"
  /\ k \in Keys /\ Sound(k, v) /\ kv' = [kv EXCEPT ![k] = v]
  /\ \A x \in Requests : k = Nonce(x) => v = TRUE
  /\ op = Put(Nonce(r)) => k = Nonce(r)

LEMMA WriteGoesOn ==
  ASSUME Inv, NEW s \in Slots, NEW r, NEW op, NEW k, NEW v, Stores(s, r, op, k, v)
  PROVE  Inv'
<1>0. /\ run[s].todo # <<>> /\ Goes(s, run[s].mem)
      /\ r = run[s].req /\ op = Head(run[s].todo) /\ op[1] # "get"
      /\ k \in Keys /\ Sound(k, v) /\ kv' = [kv EXCEPT ![k] = v]
      /\ \A x \in Requests : k = Nonce(x) => v = TRUE
      /\ op = Put(Nonce(r)) => k = Nonce(r)
  BY DEF Stores
<1>1. PICK i : i = run[s]
  OBVIOUS
<1>2. i # Idle /\ Knows(i) /\ r \in Requests /\ r = i.req
  BY <1>0, <1>1, NextOp
<1>3. /\ DOMAIN i.mem \subseteq Keys /\ First(r) \in DOMAIN i.mem
      /\ \A x \in DOMAIN i.mem : Sound(x, i.mem[x]) /\ Checked(r, x, i.mem[x])
  BY <1>2 DEF Knows
<1>4. kv' = [x \in Keys |-> IF x = k THEN v ELSE kv[x]]
  BY <1>0 DEF Inv
<1>5. Forward
  <2>1. \A x \in Requests : Nonce(x) \in Keys
    BY RequestKeys
  <2> QED  BY <1>0, <1>4, <2>1 DEF Forward
<1>6. (\A x \in Keys : Sound(x, kv[x]))'
  <2>1. \A x \in Keys : Sound(x, kv'[x])
    BY <1>0, <1>4 DEF Inv
  <2> QED  BY <1>5, <2>1, StoreSound
<1>7. DoneBy(r, i.mem) \subseteq DoneBy(r, i.mem)'
  BY <1>2, <1>5, DoneStays
<1>8. ASSUME May(r, op, i.mem), Awaited(r, op)
      PROVE  op \in DoneBy(r, i.mem)'
  <2>1. op = Put(Nonce(r)) /\ kv'[Nonce(r)]
    <3>1. op = Put(Nonce(r))
      BY <1>0, <1>8 DEF Awaited
    <3>2. k = Nonce(r)
      BY <1>0, <3>1
    <3>3. v = TRUE /\ Nonce(r) \in Keys
      BY <1>0, <1>2, <3>2, RequestKeys
    <3> QED  BY <1>4, <3>1, <3>2, <3>3
  <2>2. r.kind = "confirm-complete" => AllDone(r.id, i.mem[Deall(r)])
    BY <1>8, <2>1 DEF May
  <2> QED  BY <2>1, <2>2 DEF DoneBy
<1>9. /\ run' = [x \in Slots |-> run'[x]]
      /\ (\A y \in {run[x] : x \in Slots} : Knows(y))'
  BY <1>0, <1>1, <1>2, <1>3, <1>5, <1>7, <1>8, GoesOn
<1>10. kv' = [x \in Keys |-> kv'[x]]
  BY <1>4
<1> QED  BY <1>6, <1>9, <1>10 DEF Inv

LEMMA PutsNoNonce ==
  ASSUME NEW r, r.kind \in Kinds, NEW k \in Puts(r)
  PROVE  \A x : k # Nonce(x)
BY DEF Puts, Kinds, Passp, Listg, Offr, Deall, PassportOf, TheListing, TheOffer, TheDeal, PayTx, Nonce

LEMMA WriteKeeps ==
  ASSUME Inv, NEW s \in Slots, Write(s)
  PROVE  Inv'
<1>1. PICK i : i = run[s]
  OBVIOUS
<1>2. PICK r : r = i.req
  OBVIOUS
<1>3. PICK op : op = Head(i.todo)
  OBVIOUS
<1>4. PICK k : k = op[2]
  OBVIOUS
<1>5. PICK v : v = New(r, k, i.mem)
  OBVIOUS
<1>6. kv' = [kv EXCEPT ![k] = v] /\ i.todo # <<>> /\ Goes(s, i.mem) /\ op[1] = "put"
  BY <1>1, <1>2, <1>3, <1>4, <1>5 DEF Write, Doing
<1>7. i # Idle /\ Knows(i) /\ r \in Requests /\ Fits(r, op) /\ k \in Keys /\ op = Put(k)
  BY <1>1, <1>2, <1>3, <1>4, <1>6, NextOp DEF Put
<1>8. Sound(k, v) /\ \A x \in Requests : k = Nonce(x) => v = TRUE
  <2>1. CASE k = Nonce(r)
    <3>1. v = TRUE
      BY <1>5, <2>1 DEF New, Nonce, Passp, Listg, Offr, Deall, PassportOf, TheListing, TheOffer,
                       TheDeal, PayTx
    <3> QED  BY <1>7, <2>1, <3>1, SoundAt
  <2>2. CASE k # Nonce(r)
    <3>1. k \in Puts(r)
      BY <1>6, <1>7, <2>2, OpsOf DEF Fits
    <3>2. \A x \in Requests : k # Nonce(x)
      BY <1>7, <3>1, PutsNoNonce, RequestKeys
    <3> QED  BY <1>2, <1>3, <1>5, <1>6, <1>7, <2>2, <3>2, WriteSound
  <2> QED  BY <2>1, <2>2
<1>9. op = Put(Nonce(r)) => k = Nonce(r)
  BY <1>4, OpsOf
<1>10. op[1] # "get" /\ r = run[s].req /\ op = Head(run[s].todo)
  BY <1>1, <1>2, <1>3, <1>6
<1>11. Stores(s, r, op, k, v)
  BY <1>1, <1>6, <1>7, <1>8, <1>9, <1>10 DEF Stores
<1> QED  BY <1>11, WriteGoesOn

LEMMA AddKeeps ==
  ASSUME Inv, NEW s \in Slots, AddToSet(s)
  PROVE  Inv'
<1>1. PICK i : i = run[s]
  OBVIOUS
<1>2. PICK r : r = i.req
  OBVIOUS
<1>3. PICK op : op = Head(i.todo)
  OBVIOUS
<1>4. PICK k : k = op[2]
  OBVIOUS
<1>5. PICK v : v = kv[k] \cup {r.id}
  OBVIOUS
<1>6. i.todo # <<>> /\ Goes(s, i.mem) /\ op[1] = "add"
  BY <1>1, <1>3 DEF AddToSet, Doing
<1>7. i # Idle /\ Knows(i) /\ r \in Requests /\ Fits(r, op) /\ k \in Keys
  BY <1>1, <1>2, <1>3, <1>4, <1>6, NextOp
<1>8. kv' = [kv EXCEPT ![k] = v]
  BY <1>1, <1>2, <1>3, <1>4, <1>5, <1>7 DEF AddToSet, Inv
<1>9. Sound(k, kv[k])
  BY <1>7 DEF Inv
<1>10. Sound(k, v)
  <2>1. CASE r.kind = "list" /\ k = Index
    <3>1. kv[k] \subseteq Listings /\ IsFiniteSet(kv[k]) /\ r.id \in Listings
      BY <1>7, <1>9, <2>1, SoundAt, RequestKeys
    <3> QED  BY <1>5, <2>1, <3>1, SoundAt, FS_AddElement
  <2>2. CASE r.kind = "offer" /\ k = OffersOn(L(r))
    <3>1. L(r) \in Listings /\ r.id \in Offers
      BY <1>7, <2>2, RequestKeys
    <3>2. kv[k] \subseteq Offers /\ IsFiniteSet(kv[k])
      BY <1>9, <2>2, <3>1, SoundAt
    <3>3. v \subseteq Offers /\ IsFiniteSet(v)
      BY <1>5, <3>1, <3>2, FS_AddElement
    <3> QED  BY <2>2, <3>1, <3>3, SoundAt
  <2> QED  BY <1>4, <1>6, <1>7, <2>1, <2>2 DEF Fits
<1>11. \A x \in Requests : k # Nonce(x)
  BY <1>4, <1>6, <1>7 DEF Fits, Index, OffersOn, Nonce
<1>12. op # Put(Nonce(r))
  BY <1>6, OpsOf
<1>13. op[1] # "get" /\ r = run[s].req /\ op = Head(run[s].todo)
  BY <1>1, <1>2, <1>3, <1>6
<1>14. Stores(s, r, op, k, v)
  BY <1>1, <1>6, <1>7, <1>8, <1>10, <1>11, <1>12, <1>13 DEF Stores
<1> QED  BY <1>14, WriteGoesOn

LEMMA CrashKeeps ==
  ASSUME Inv, NEW s \in Slots, Crash(s)
  PROVE  Inv'
<1>1. kv' = kv /\ run' = [run EXCEPT ![s] = Idle]
  BY DEF Crash
<1>2. Forward
  BY <1>1 DEF Forward
<1>3. /\ run' = [x \in Slots |-> run'[x]]
      /\ (\A y \in {run[x] : x \in Slots} : Knows(y))'
  BY <1>1, <1>2, IdleKnows, OthersKnow
<1>4. kv' = [x \in Keys |-> kv'[x]] /\ \A x \in Keys : Sound(x, kv'[x])
  BY <1>1 DEF Inv
<1>5. (\A x \in Keys : Sound(x, kv[x]))'
  BY <1>2, <1>4, StoreSound
<1> QED  BY <1>3, <1>4, <1>5 DEF Inv

LEMMA StutterKeeps ==
  ASSUME Inv, UNCHANGED vars
  PROVE  Inv'
<1>1. kv' = kv /\ run' = run
  BY DEF vars
<1>2. Forward
  BY <1>1 DEF Forward
<1>3. kv' = [x \in Keys |-> kv'[x]] /\ \A x \in Keys : Sound(x, kv'[x])
  BY <1>1 DEF Inv
<1>4. (\A x \in Keys : Sound(x, kv[x]))'
  BY <1>2, <1>3, StoreSound
<1>5. \A y \in {run[x] : x \in Slots} : Knows(y)'
  BY <1>2, KnowsStays DEF Inv
<1>6. run' = [x \in Slots |-> run'[x]] /\ (\A y \in {run[x] : x \in Slots} : Knows(y))'
  BY <1>1, <1>5 DEF Inv
<1> QED  BY <1>3, <1>4, <1>6 DEF Inv

LEMMA StepInv == Inv /\ [Next]_vars => Inv'
  BY StartKeeps, ReadKeeps, WriteKeeps, AddKeeps, CrashKeeps, StutterKeeps DEF Next

-----------------------------------------------------------------------------
(* The theorems.                                                           *)

\* Whatever invocations run at the same time, and wherever they are cut short:
\* every record stored, and every record an invocation still works from, is
\* sound by itself, and every invocation has done what its writes rest on.
THEOREM AsyncInvariant == Spec => []Inv
  BY InitInv, StepInv, PTL DEF Spec

\* Every Passport ever stored explains its operator: an unbroken chain of
\* transfers by deals on its token, from the first claim.
THEOREM HistorySoundTheorem == Spec => []HistoryIsSound
<1>1. Inv => HistoryIsSound
  <2> SUFFICES ASSUME Inv, NEW t \in Tokens PROVE Explained(t, kv[PassportOf(t)])
    BY DEF HistoryIsSound
  <2>1. PassportOf(t) \in Keys
    BY DEF Keys
  <2>2. Sound(PassportOf(t), kv[PassportOf(t)])
    BY <2>1 DEF Inv
  <2> QED  BY <2>2, SoundAt DEF SoundPassport
<1> QED  BY <1>1, AsyncInvariant, PTL

\* Every deal ever stored is sound: a completed one has all its items done and
\* both signatures, each over a state with nothing pending, one with a transfer has an intent, one with a payment has
\* one that pays it.
THEOREM DealSoundTheorem == Spec => []DealIsSound
<1>1. Inv => DealIsSound
  <2>1. ASSUME Inv, NEW o \in Offers
        PROVE  SoundDeal(o, kv[TheDeal(o)])
    <3>1. TheDeal(o) \in Keys
      BY DEF Keys
    <3>2. Sound(TheDeal(o), kv[TheDeal(o)])
      BY <2>1, <3>1 DEF Inv
    <3> QED  BY <3>2, SoundAt
  <2> QED  BY <2>1 DEF DealIsSound, SoundDeal
<1> QED  BY <1>1, AsyncInvariant, PTL

\* No Passport moves by a deal unless listing, offer, acceptance, intent and
\* transfer were all signed, each with a nonce that is spent by then.
THEOREM SignedTheorem == Spec => []TransferIsSigned
<1>1. Inv => TransferIsSigned
  <2> SUFFICES ASSUME Inv, NEW o \in Offers, Records(kv[PassportOf(TokenIn(o))], o)
               PROVE  TransferSigned(o)
    BY DEF TransferIsSigned, TransferSigned, OfferSigned
  <2>1. TokenIn(o) \in Tokens
    <3>1. ListingOf[o] \in Listings
      BY MarketConstants
    <3> QED  BY <3>1, MarketConstants DEF TokenIn
  <2>2. PassportOf(TokenIn(o)) \in Keys
    BY <2>1 DEF Keys
  <2>3. Sound(PassportOf(TokenIn(o)), kv[PassportOf(TokenIn(o))])
    BY <2>2 DEF Inv
  <2> QED  BY <2>1, <2>3, SoundAt DEF SoundPassport
<1> QED  BY <1>1, AsyncInvariant, PTL

-----------------------------------------------------------------------------
(***************************************************************************)
(* MarketplaceSerial: one invocation at a time.  An invocation that runs    *)
(* alone finds in the store what its base, the store as it began, had.     *)
(* The argument is one of progress: the store is at any time the base with *)
(* the invocation's writes made, except those that the operations it has   *)
(* left will still make.                                                   *)
(***************************************************************************)

\* One invocation runs at a time.
OneAtATime == \A s, q \in Slots : s = q

-----------------------------------------------------------------------------
(* A handler on the base c.                                                *)

\* The records it reads before it spends its nonce, or writes.
FrontKeys(r) ==
  CASE r.kind = "list" -> {Listg(r), Index} \cup {TheListing(l) : l \in Listings}
    [] r.kind \in {"offer", "accept", "reject"} -> {Offr(r)}
    [] r.kind \in {"transfer-intent", "transfer-accept"} -> {Passp(r)}
    [] r.kind = "payment-evidence" -> {PayTx(r.tx)}
    [] OTHER -> {}

\* The plan after that.
Rest(r) ==
  CASE r.kind = "claim" -> <<Put(Passp(r))>>
    [] r.kind = "list" -> <<Put(Listg(r)), Add(Index), Put(Passp(r))>>
    [] r.kind = "cancel-listing" -> <<Put(Listg(r)), Get(Passp(r)), Put(Passp(r))>>
    [] r.kind = "offer" -> <<Put(Offr(r)), Add(OffersOn(L(r)))>>
    [] r.kind = "accept" -> <<Get(OffersOn(L(r))), Put(Offr(r)), Put(Listg(r)), Put(Deall(r))>>
    [] r.kind = "reject" -> <<Put(Offr(r))>>
    [] r.kind = "transfer-intent" -> <<Put(Deall(r)), Get(Listg(r))>>
    [] r.kind = "transfer-accept" -> <<Put(Deall(r)), Put(Passp(r))>>
    [] r.kind = "payment-evidence" -> <<Put(PayTx(r.tx)), Put(Deall(r))>>
    [] r.kind = "deal-cancel" -> <<Get(Listg(r)), Put(Listg(r)), Get(Offr(r)), Put(Offr(r)),
                                   Get(Passp(r)), Put(Passp(r))>>
    [] OTHER -> <<Put(Deall(r))>>

Nonces(r) == IF HasNonce(r) THEN {Nonce(r)} ELSE {}
Spend(r) == IF HasNonce(r) THEN Consume(r) ELSE <<>>

\* An operation after which the handler may refuse.
Asks(r, op) ==
  op \in {Get(First(r)), Get(Deall(r)), Get(Nonce(r)), Put(Nonce(r))} \cup {Get(k) : k \in FrontKeys(r)}

\* The other offers that an acceptance decides.
Superseded(r, c) ==
  {TheOffer(o) : o \in {x \in c[OffersOn(L(r))] \ {r.id} : c[TheOffer(x)] = "PENDING"}}

\* The keys that op writes, or has the handler write, once the nonce is spent.
Leads(r, c, op) ==
  {k \in {op[2]} : op[1] # "get"}
  \cup {k \in Superseded(r, c) : r.kind = "accept" /\ op = Get(OffersOn(L(r)))}
  \cup {k \in {TheOffer(o) : o \in Offers \ {r.id}} : r.kind = "accept" /\ op = Get(k) /\ c[k] = "PENDING"}
  \cup {k \in {Listg(r)} : r.kind = "transfer-intent" /\ op = Get(k) /\ c[k].status = "OFFER_ACCEPTED"}
Left(r, c, q) == UNION {Leads(r, c, q[j]) : j \in DOMAIN q}

\* The operations that the second completion adds.
Closing(r, c) ==
  IF r.kind = "confirm-complete" /\ Completes(r, c)
  THEN <<Get(Listg(r)), Put(Listg(r)), Get(Passp(r)), Put(Passp(r))>> ELSE <<>>

\* The keys it writes when nothing refuses it.
Writes(r, c) == Nonces(r) \cup Left(r, c, Closing(r, c)) \cup Left(r, c, Rest(r))

Value(r, c, k) ==
  IF k = Index \/ (r.kind = "offer" /\ k = OffersOn(L(r))) THEN c[k] \cup {r.id} ELSE New(r, k, c)

\* The base with the keys X written.
StoreAt(r, c, X) == [k \in Keys |-> IF k \in X THEN Value(r, c, k) ELSE c[k]]

\* Every record that it asks for, and what it asks of them.
MustRead(r, c) ==
  {First(r)}
  \cup IF r.kind = "list" THEN {Listg(r), Index} \cup {TheListing(l) : l \in c[Index]}
       ELSE FrontKeys(r)
Cleared(r, c) == \A k \in MustRead(r, c) : May(r, Get(k), c)
Granted(r, c) == Cleared(r, c) /\ (r.kind = "confirm-complete" => AllDone(r.id, c[Deall(r)]))

-----------------------------------------------------------------------------
(* Where it is, with q left to do, holding m, in the store v.              *)

Remembers(r, c, m) ==
  /\ DOMAIN m \subseteq Keys /\ First(r) \in DOMAIN m
  /\ \A k \in DOMAIN m : m[k] = c[k]

\* The records it still has to ask for, when it holds m.
Unasked(r, c, m) ==
  MustRead(r, c) \ (DOMAIN m \cup IF r.kind = "list" /\ Index \notin DOMAIN m
                                  THEN {TheListing(l) : l \in c[Index]} \ {Listg(r)} ELSE {})

\* Holding m, it is granted what it has read, and a reads what it still asks for.
Asking(r, c, a, m) ==
  /\ \A k \in DOMAIN m : May(r, Get(k), c)
  /\ \A h \in DOMAIN a : \E k \in FrontKeys(r) : a[h] = Get(k)
  /\ \A k \in Unasked(r, c, m) : \E h \in DOMAIN a : a[h] = Get(k)

\* a, and then the nonce and the rest.
Onward(r, a) == a \o (Spend(r) \o Rest(r))

\* It reads a, and then has Spend and Rest before it.
Reading(r, c, q, m, v) ==
  /\ v = c
  /\ \E a \in Seq(Ops) :
       /\ q = Onward(r, a)
       /\ a # <<>> \/ HasNonce(r)
       /\ Asking(r, c, a, m)

\* It is about to spend its nonce.
Spending(r, c, q, v) ==
  /\ v = c /\ Cleared(r, c) /\ HasNonce(r)
  /\ q = <<Put(Nonce(r))>> \o Rest(r)

\* A key is written once, no record is read after it is written, and nothing
\* that is left can be refused.
Tame(r, c, q) ==
  /\ q \in Seq(Ops)
  /\ \A j \in DOMAIN q : ~Asks(r, q[j])
  /\ \A i, j \in DOMAIN q : Leads(r, c, q[i]) \cap Leads(r, c, q[j]) # {} => i = j
  /\ \A j \in DOMAIN q : q[j][1] = "get" /\ q[j][2] \in Writes(r, c) =>
       \E h \in DOMAIN q : h >= j /\ q[j][2] \in Leads(r, c, q[h])

\* The key x is written before y.
Precedes(r, x, y) ==
  \/ r.kind = "transfer-accept" /\ x = Deall(r) /\ y = Passp(r)
  \/ r.kind = "payment-evidence" /\ x = PayTx(r.tx) /\ y = Deall(r)
  \/ r.kind = "accept" /\ x = Offr(r) /\ y = Deall(r)

InOrder(r, c, q) ==
  \A x, y \in Keys : Precedes(r, x, y) =>
    \A i \in DOMAIN q : x \in Leads(r, c, q[i]) =>
      \E j \in DOMAIN q : j > i /\ y \in Leads(r, c, q[j])

Writing(r, c, q, v) ==
  /\ Granted(r, c) /\ Tame(r, c, q) /\ InOrder(r, c, q)
  /\ Left(r, c, q) \subseteq Writes(r, c)
  /\ v = StoreAt(r, c, Writes(r, c) \ Left(r, c, q))

Stage(r, c, q, m, v) ==
  /\ Remembers(r, c, m)
  /\ q \in Seq(Ops) /\ q # <<>>
  /\ Reading(r, c, q, m, v) \/ Spending(r, c, q, v) \/ Writing(r, c, q, v)

\* It has ended: refused, or with all its writes made.
Ended(r, c, v) ==
  \/ v = c
  \/ HasNonce(r) /\ v = StoreAt(r, c, {Nonce(r)})
  \/ Granted(r, c) /\ v = StoreAt(r, c, Writes(r, c))

-----------------------------------------------------------------------------
(* What is true of a base.                                                 *)

Shaped(c) ==
  /\ c = [k \in Keys |-> c[k]]
  /\ \A t \in Tokens : c[PassportOf(t)] \in Passport
  /\ \A l \in Listings : /\ c[TheListing(l)] \in Listing
                         /\ c[OffersOn(l)] \subseteq Offers /\ IsFiniteSet(c[OffersOn(l)])
  /\ \A o \in Offers : c[TheOffer(o)] \in OfferStatus /\ c[TheDeal(o)] \in Deal
  /\ c[Index] \subseteq Listings /\ IsFiniteSet(c[Index])

\* What the order of the writes keeps true, at every moment.
InStep(c) ==
  \A o \in Offers :
    /\ Records(c[PassportOf(TokenIn(o))], o) => c[TheDeal(o)].moved
    /\ c[TheDeal(o)].payTx # None => c[PayTx(c[TheDeal(o)].payTx)] = o
    /\ IF c[TheDeal(o)].status = "ABSENT" THEN c[TheDeal(o)] = NoDeal
       ELSE c[TheOffer(o)] \in {"ACCEPTED", "DEAL_CANCELLED"}

\* What a finished invocation leaves true: the lists hold the ids of the
\* records that exist.
Registered(c) ==
  /\ \A l \in Listings : IF c[TheListing(l)].status = "ABSENT" THEN c[TheListing(l)].deal = None
                         ELSE l \in c[Index]
  /\ \A o \in Offers : c[TheOffer(o)] # "ABSENT" =>
       o \in c[OffersOn(ListingOf[o])] /\ c[TheListing(ListingOf[o])].status # "ABSENT"
  /\ \A l \in Listings : \A o \in c[OffersOn(l)] : ListingOf[o] = l

\* c is the store as the invocation that runs, if any, began.
Base(c) ==
  /\ Shaped(c) /\ InStep(c)
  /\ Quiet => kv = c
  /\ \A s \in Slots : run[s] # Idle =>
       WellFormed(run[s].req) /\ Stage(run[s].req, c, run[s].todo, run[s].mem, kv)

\* Until one is cut short, calm is that store.
Calm(c) == crashes = 0 => calm = c /\ Registered(c)

OrderInv == Inv /\ crashes \in Nat /\ \E c : Base(c)
SerialInv == Inv /\ crashes \in Nat /\ \E c : Base(c) /\ Calm(c)

-----------------------------------------------------------------------------
(* Sequences of operations.                                                *)

LEMMA TailAt ==
  ASSUME NEW q \in Seq(Ops), q # <<>>
  PROVE  /\ Tail(q) \in Seq(Ops) /\ Head(q) = q[1] /\ 1 \in DOMAIN q /\ Head(q) \in Ops
         /\ \A h \in DOMAIN Tail(q) : h \in Nat /\ h + 1 \in DOMAIN q /\ Tail(q)[h] = q[h + 1]
         /\ \A j \in DOMAIN q : j \in Nat /\ (j = 1 \/ j - 1 \in DOMAIN Tail(q))
<1>1. PICK t : t = Tail(q)
  OBVIOUS
<1>2. /\ t \in Seq(Ops) /\ Len(q) \in Nat /\ Len(q) # 0 /\ Len(t) = Len(q) - 1
      /\ \A h \in 1 .. Len(t) : t[h] = q[h + 1]
      /\ Head(q) = q[1] /\ Head(q) \in Ops
      /\ DOMAIN q = 1 .. Len(q) /\ DOMAIN t = 1 .. Len(t) /\ Len(t) \in Nat
  BY <1>1
<1>3. \A h \in 1 .. Len(t) : h \in Nat /\ h + 1 \in 1 .. Len(q)
  BY <1>2
<1>4. \A j \in 1 .. Len(q) : j \in Nat /\ (j = 1 \/ j - 1 \in 1 .. Len(t))
  BY <1>2
<1>5. 1 \in 1 .. Len(q)
  BY <1>2
<1> QED  BY <1>1, <1>2, <1>3, <1>4, <1>5

LEMMA JoinAt ==
  ASSUME NEW a \in Seq(Ops), NEW t \in Seq(Ops)
  PROVE  /\ a \o t \in Seq(Ops)
         /\ \A h \in DOMAIN a : h \in DOMAIN (a \o t) /\ (a \o t)[h] = a[h]
         /\ \A h \in DOMAIN t : Len(a) + h \in DOMAIN (a \o t) /\ (a \o t)[Len(a) + h] = t[h]
         /\ \A j \in DOMAIN (a \o t) : j \in DOMAIN a \/ \E h \in DOMAIN t : j = Len(a) + h
         /\ Len(a) \in Nat /\ DOMAIN a \subseteq 1 .. Len(a) /\ DOMAIN t \subseteq Nat \ {0}
         /\ a \o t = <<>> <=> a = <<>> /\ t = <<>>
<1>1. PICK x : x = a \o t
  OBVIOUS
<1>2. /\ x \in Seq(Ops) /\ Len(x) = Len(a) + Len(t)
      /\ \A h \in 1 .. Len(a) + Len(t) : x[h] = IF h <= Len(a) THEN a[h] ELSE t[h - Len(a)]
  BY <1>1, ConcatProperties
<1>3. /\ Len(a) \in Nat /\ Len(t) \in Nat /\ DOMAIN a = 1 .. Len(a) /\ DOMAIN t = 1 .. Len(t)
  OBVIOUS
<1>4. DOMAIN x = 1 .. Len(a) + Len(t)
  BY <1>2
<1>5. \A h \in 1 .. Len(a) : h \in 1 .. Len(a) + Len(t) /\ h <= Len(a)
  BY <1>3
<1>6. \A h \in 1 .. Len(t) : Len(a) + h \in 1 .. Len(a) + Len(t) /\ ~(Len(a) + h <= Len(a))
                             /\ (Len(a) + h) - Len(a) = h
  BY <1>3
<1>7. \A j \in 1 .. Len(a) + Len(t) :
        j \in 1 .. Len(a) \/ (j - Len(a) \in 1 .. Len(t) /\ j = Len(a) + (j - Len(a)))
  BY <1>3
<1>8. x = <<>> <=> a = <<>> /\ t = <<>>
  BY <1>1, ConcatEqualIffEmpty, EmptySeq
<1>9. \A h \in DOMAIN a : h \in DOMAIN x /\ x[h] = a[h]
  BY <1>2, <1>3, <1>4, <1>5
<1>10. \A h \in DOMAIN t : Len(a) + h \in DOMAIN x /\ x[Len(a) + h] = t[h]
  BY <1>2, <1>3, <1>4, <1>6
<1>11. \A j \in DOMAIN x : j \in DOMAIN a \/ \E h \in DOMAIN t : j = Len(a) + h
  BY <1>3, <1>4, <1>7
<1> QED  BY <1>1, <1>2, <1>3, <1>8, <1>9, <1>10, <1>11

\* The operations of d are those of b and t.
Joined(b, t, d) ==
  /\ d \in Seq(Ops)
  /\ \A h \in DOMAIN b : \E j \in DOMAIN d : d[j] = b[h]
  /\ \A h \in DOMAIN t : \E j \in DOMAIN d : d[j] = t[h]
  /\ \A j \in DOMAIN d : (\E h \in DOMAIN b : d[j] = b[h]) \/ (\E h \in DOMAIN t : d[j] = t[h])

LEMMA JoinSame ==
  ASSUME NEW b \in Seq(Ops), NEW t \in Seq(Ops), NEW d, d = b \o t
  PROVE  Joined(b, t, d)
<1>1. /\ d \in Seq(Ops)
      /\ \A h \in DOMAIN b : h \in DOMAIN d /\ d[h] = b[h]
      /\ \A h \in DOMAIN t : Len(b) + h \in DOMAIN d /\ d[Len(b) + h] = t[h]
      /\ \A j \in DOMAIN d : j \in DOMAIN b \/ \E h \in DOMAIN t : j = Len(b) + h
  BY JoinAt
<1> QED  BY <1>1 DEF Joined

LEMMA OneThen ==
  ASSUME NEW op \in Ops, NEW t \in Seq(Ops)
  PROVE  /\ <<op>> \o t \in Seq(Ops) /\ <<op>> \o t # <<>>
         /\ Head(<<op>> \o t) = op /\ Tail(<<op>> \o t) = t
<1>1. PICK x : x = <<op>> \o t
  OBVIOUS
<1>2. <<op>> \in Seq(Ops) /\ Len(<<op>>) = 1 /\ <<op>>[1] = op /\ Len(t) \in Nat
  OBVIOUS
<1>3. /\ x \in Seq(Ops) /\ Len(x) = 1 + Len(t)
      /\ \A h \in 1 .. 1 + Len(t) : x[h] = IF h <= 1 THEN <<op>>[h] ELSE t[h - 1]
  BY <1>1, <1>2, ConcatProperties
<1>4. x # <<>> /\ Head(x) = op
  BY <1>2, <1>3
<1>5. /\ Tail(x) \in Seq(Ops) /\ Len(Tail(x)) = Len(t)
      /\ \A h \in 1 .. Len(t) : Tail(x)[h] = x[h + 1]
  BY <1>2, <1>3, <1>4
<1>6. \A h \in 1 .. Len(t) : x[h + 1] = t[h]
  <2>1. \A h \in 1 .. Len(t) : h + 1 \in 1 .. 1 + Len(t) /\ ~(h + 1 <= 1) /\ (h + 1) - 1 = h
    BY <1>2
  <2> QED  BY <1>3, <2>1
<1>7. Tail(x) = t
  <2>1. PICK y : y = Tail(x)
    OBVIOUS
  <2>2. y \in Seq(Ops) /\ Len(y) = Len(t) /\ \A h \in 1 .. Len(y) : y[h] = t[h]
    BY <1>5, <1>6, <2>1
  <2>3. y = t
    BY <2>2, SeqEqual
  <2> QED  BY <2>1, <2>3
<1> QED  BY <1>1, <1>3, <1>4, <1>7

\* A sequence is its head and its tail.
LEMMA HeadThen ==
  ASSUME NEW q \in Seq(Ops), q # <<>>
  PROVE  q = <<Head(q)>> \o Tail(q) /\ Head(q) \in Ops /\ Tail(q) \in Seq(Ops)
<1>1. PICK x : x = <<Head(q)>> \o Tail(q)
  OBVIOUS
<1>2. Head(q) \in Ops /\ Tail(q) \in Seq(Ops) /\ Len(Tail(q)) = Len(q) - 1 /\ Head(q) = q[1]
      /\ \A h \in 1 .. Len(Tail(q)) : Tail(q)[h] = q[h + 1]
  OBVIOUS
<1>3. <<Head(q)>> \in Seq(Ops) /\ Len(<<Head(q)>>) = 1 /\ <<Head(q)>>[1] = Head(q)
  BY <1>2
<1>4. /\ x \in Seq(Ops) /\ Len(x) = 1 + Len(Tail(q))
      /\ \A h \in 1 .. 1 + Len(Tail(q)) : x[h] = IF h <= 1 THEN <<Head(q)>>[h] ELSE Tail(q)[h - 1]
  BY <1>1, <1>2, <1>3, ConcatProperties
<1>5. Len(x) = Len(q) /\ Len(q) \in Nat
  BY <1>2, <1>4
<1>6. \A h \in 1 .. Len(x) : x[h] = q[h]
  <2>1. ASSUME NEW h \in 1 .. Len(x)
        PROVE  x[h] = q[h]
    <3>1. CASE h = 1
      BY <1>2, <1>3, <1>4, <1>5, <2>1, <3>1
    <3>2. CASE h # 1
      <4>1. h \in 1 .. 1 + Len(Tail(q)) /\ ~(h <= 1) /\ h - 1 \in 1 .. Len(Tail(q)) /\ (h - 1) + 1 = h
        BY <1>2, <1>5, <2>1, <3>2
      <4> QED  BY <1>2, <1>4, <4>1
    <3> QED  BY <3>1, <3>2
  <2> QED  BY <2>1
<1>7. x = q
  BY <1>4, <1>5, <1>6, SeqEqual
<1> QED  BY <1>1, <1>2, <1>7

LEMMA JoinTail ==
  ASSUME NEW a \in Seq(Ops), a # <<>>, NEW t \in Seq(Ops)
  PROVE  Head(a \o t) = Head(a) /\ Tail(a \o t) = Tail(a) \o t
<1>1. a = <<Head(a)>> \o Tail(a) /\ Head(a) \in Ops /\ Tail(a) \in Seq(Ops)
  BY HeadThen
<1>2. <<Head(a)>> \in Seq(Ops)
  BY <1>1
<1>3. (<<Head(a)>> \o Tail(a)) \o t = <<Head(a)>> \o (Tail(a) \o t)
  BY <1>1, <1>2, ConcatAssociative
<1>4. Tail(a) \o t \in Seq(Ops)
  BY <1>1, ConcatProperties
<1>5. PICK h, x : h = Head(a) /\ x = Tail(a) \o t
  OBVIOUS
<1>6. a \o t = <<h>> \o x
  BY <1>1, <1>3, <1>5
<1>7. Head(<<h>> \o x) = h /\ Tail(<<h>> \o x) = x
  BY <1>1, <1>4, <1>5, OneThen
<1> QED  BY <1>5, <1>6, <1>7

\* SetToSeq(S) holds each element of S, once.
LEMMA EachOnce ==
  ASSUME NEW S, IsFiniteSet(S)
  PROVE  /\ SetToSeq(S) \in Seq(S)
         /\ \A x \in S : \E j \in DOMAIN SetToSeq(S) : SetToSeq(S)[j] = x
         /\ \A i, j \in DOMAIN SetToSeq(S) : SetToSeq(S)[i] = SetToSeq(S)[j] => i = j
<1>1. PICK n : n = Cardinality(S)
  OBVIOUS
<1>2. n \in Nat /\ ExistsBijection(1 .. n, S)
  BY <1>1, FS_CardinalityType
<1>3. \E f \in [1 .. n -> S] : IsInjective(f)
  BY <1>2 DEF ExistsBijection, Bijection, Injection
<1>4. PICK f : f = SetToSeq(S)
  OBVIOUS
<1>5. f \in [1 .. n -> S] /\ IsInjective(f)
  BY <1>1, <1>3, <1>4 DEF SetToSeq
<1>6. f \in Injection(1 .. n, S)
  BY <1>5 DEF Injection
<1>7. IsFiniteSet(1 .. n) /\ Cardinality(1 .. n) = n
  BY <1>2, FS_Interval
<1>8. f \in Surjection(1 .. n, S)
  BY <1>1, <1>6, <1>7, FS_Injection
<1>9. \A x \in S : \E j \in 1 .. n : f[j] = x
  BY <1>8 DEF Surjection
<1>10. f \in Seq(S) /\ DOMAIN f = 1 .. n
  BY <1>2, <1>5
<1>11. \A i, j \in DOMAIN f : f[i] = f[j] => i = j
  BY <1>5 DEF IsInjective
<1> QED  BY <1>4, <1>9, <1>10, <1>11

-----------------------------------------------------------------------------
(* What is left to do, after an operation and with others added.           *)

LEMMA PutLeads ==
  ASSUME NEW r, NEW c, NEW k
  PROVE  Leads(r, c, Put(k)) = {k} /\ Leads(r, c, Add(k)) = {k}
<1>1. /\ Put(k)[1] # "get" /\ Put(k)[2] = k /\ Add(k)[1] # "get" /\ Add(k)[2] = k
      /\ \A x : Put(k) # Get(x) /\ Add(k) # Get(x)
  BY OpsOf
<1> QED  BY <1>1 DEF Leads

\* A read that adds nothing, by the kind of the request.
LEMMA GetLeads ==
  ASSUME NEW r, NEW c, NEW k,
         r.kind = "accept" => k \notin {OffersOn(L(r))} \cup {TheOffer(o) : o \in Offers},
         r.kind = "transfer-intent" => k # Listg(r)
  PROVE  Leads(r, c, Get(k)) = {}
<1>1. Get(k)[1] = "get" /\ \A x : Get(k) = Get(x) => k = x
  BY OpsOf
<1> QED  BY <1>1 DEF Leads

LEMMA LeftTail ==
  ASSUME NEW r, NEW c, NEW q \in Seq(Ops), q # <<>>
  PROVE  Left(r, c, q) = Leads(r, c, Head(q)) \cup Left(r, c, Tail(q))
<1>1. PICK t : t = Tail(q)
  OBVIOUS
<1>2. /\ Head(q) = q[1] /\ 1 \in DOMAIN q
      /\ \A h \in DOMAIN t : h + 1 \in DOMAIN q /\ t[h] = q[h + 1]
      /\ \A j \in DOMAIN q : j = 1 \/ (j - 1 \in DOMAIN t /\ t[j - 1] = q[j])
  <2>1. /\ Head(q) = q[1] /\ 1 \in DOMAIN q
        /\ \A h \in DOMAIN t : h + 1 \in DOMAIN q /\ t[h] = q[h + 1]
        /\ \A j \in DOMAIN q : j \in Nat /\ (j = 1 \/ j - 1 \in DOMAIN t)
    BY <1>1, TailAt
  <2>2. \A j \in Nat : (j - 1) + 1 = j
    OBVIOUS
  <2> QED  BY <2>1, <2>2
<1>3. ASSUME NEW k \in Left(r, c, q)
      PROVE  k \in Leads(r, c, q[1]) \cup Left(r, c, t)
  <2>1. PICK j \in DOMAIN q : k \in Leads(r, c, q[j])
    BY <1>3 DEF Left
  <2>2. CASE j = 1
    BY <2>1, <2>2
  <2>3. CASE j # 1
    <3>1. j - 1 \in DOMAIN t /\ k \in Leads(r, c, t[j - 1])
      BY <1>2, <2>1, <2>3
    <3> QED  BY <3>1 DEF Left
  <2> QED  BY <2>2, <2>3
<1>4. ASSUME NEW k \in Left(r, c, t)
      PROVE  k \in Left(r, c, q)
  <2>1. PICK h \in DOMAIN t : k \in Leads(r, c, t[h])
    BY <1>4 DEF Left
  <2>2. h + 1 \in DOMAIN q /\ k \in Leads(r, c, q[h + 1])
    BY <1>2, <2>1
  <2> QED  BY <2>2 DEF Left
<1>5. Leads(r, c, q[1]) \subseteq Left(r, c, q)
  BY <1>2 DEF Left
<1> QED  BY <1>1, <1>2, <1>3, <1>4, <1>5

LEMMA TameTail ==
  ASSUME NEW r, NEW c, NEW q, Tame(r, c, q), q # <<>>
  PROVE  /\ Tame(r, c, Tail(q))
         /\ Leads(r, c, Head(q)) \cap Left(r, c, Tail(q)) = {}
         /\ InOrder(r, c, q) => InOrder(r, c, Tail(q))
         /\ ~Asks(r, Head(q))
         /\ Head(q)[1] = "get" /\ Head(q)[2] \in Writes(r, c) => Head(q)[2] \in Left(r, c, q)
<1>1. PICK t : t = Tail(q)
  OBVIOUS
<1>2. q \in Seq(Ops)
  BY DEF Tame
<1>3. /\ t \in Seq(Ops) /\ Head(q) = q[1] /\ 1 \in DOMAIN q
      /\ \A h \in DOMAIN t : h \in Nat /\ h + 1 \in DOMAIN q /\ t[h] = q[h + 1] /\ h \in Nat \ {0}
      /\ \A j \in DOMAIN q : j \in Nat /\ (j = 1 \/ j - 1 \in DOMAIN t)
  <2>1. t \in Seq(Ops)
    BY <1>1, <1>2, TailAt
  <2>2. DOMAIN t \subseteq Nat \ {0}
    BY <2>1
  <2> QED  BY <1>1, <1>2, <2>1, <2>2, TailAt
<1>4. \A i, j \in DOMAIN t : i + 1 = j + 1 => i = j
  BY <1>3
<1>5. \A j \in DOMAIN t : ~Asks(r, t[j])
  BY <1>3 DEF Tame
<1>6. \A i, j \in DOMAIN t : Leads(r, c, t[i]) \cap Leads(r, c, t[j]) # {} => i = j
  BY <1>3, <1>4 DEF Tame
<1>7. ASSUME NEW j \in DOMAIN t, NEW h \in DOMAIN q, h >= j + 1
      PROVE  h - 1 \in DOMAIN t /\ h - 1 >= j /\ t[h - 1] = q[h]
  <2>1. h \in Nat /\ j \in Nat \ {0} /\ h # 1
    BY <1>3, <1>7
  <2>2. h - 1 \in DOMAIN t /\ (h - 1) + 1 = h /\ h - 1 >= j
    BY <1>3, <1>7, <2>1
  <2> QED  BY <1>3, <2>2
<1>8. \A j \in DOMAIN t : t[j][1] = "get" /\ t[j][2] \in Writes(r, c) =>
        \E h \in DOMAIN t : h >= j /\ t[j][2] \in Leads(r, c, t[h])
  <2>1. ASSUME NEW j \in DOMAIN t, t[j][1] = "get", t[j][2] \in Writes(r, c)
        PROVE  \E h \in DOMAIN t : h >= j /\ t[j][2] \in Leads(r, c, t[h])
    <3>1. j + 1 \in DOMAIN q /\ t[j] = q[j + 1]
      BY <1>3
    <3>2. PICK h \in DOMAIN q : h >= j + 1 /\ t[j][2] \in Leads(r, c, q[h])
      BY <2>1, <3>1 DEF Tame
    <3>3. h - 1 \in DOMAIN t /\ h - 1 >= j /\ t[h - 1] = q[h]
      BY <1>7, <3>2
    <3> QED  BY <3>2, <3>3
  <2> QED  BY <2>1
<1>9. Leads(r, c, q[1]) \cap Left(r, c, t) = {}
  <2>1. ASSUME NEW k \in Leads(r, c, q[1]), k \in Left(r, c, t)
        PROVE  FALSE
    <3>1. PICK h \in DOMAIN t : k \in Leads(r, c, t[h])
      BY <2>1 DEF Left
    <3>2. h + 1 \in DOMAIN q /\ k \in Leads(r, c, q[h + 1]) /\ h + 1 # 1
      BY <1>3, <3>1
    <3> QED  BY <1>3, <2>1, <3>2 DEF Tame
  <2> QED  BY <2>1
<1>10. ASSUME InOrder(r, c, q)
       PROVE  InOrder(r, c, t)
  <2>1. ASSUME NEW x \in Keys, NEW y \in Keys, Precedes(r, x, y), NEW i \in DOMAIN t, x \in Leads(r, c, t[i])
        PROVE  \E j \in DOMAIN t : j > i /\ y \in Leads(r, c, t[j])
    <3>1. i + 1 \in DOMAIN q /\ x \in Leads(r, c, q[i + 1]) /\ i \in Nat
      BY <1>3, <2>1
    <3>2. PICK j \in DOMAIN q : j > i + 1 /\ y \in Leads(r, c, q[j])
      BY <1>10, <2>1, <3>1 DEF InOrder
    <3>3. j \in Nat /\ j >= i + 1 /\ j - 1 > i
      BY <1>3, <3>1, <3>2
    <3>4. j - 1 \in DOMAIN t /\ t[j - 1] = q[j]
      BY <1>7, <3>3
    <3> QED  BY <3>2, <3>3, <3>4
  <2> QED  BY <2>1 DEF InOrder
<1>11. ~Asks(r, q[1])
  BY <1>3 DEF Tame
<1>12. q[1][1] = "get" /\ q[1][2] \in Writes(r, c) => q[1][2] \in Left(r, c, q)
  BY <1>3 DEF Tame, Left
<1> QED  BY <1>1, <1>3, <1>5, <1>6, <1>8, <1>9, <1>10, <1>11, <1>12 DEF Tame

LEMMA LeftJoin ==
  ASSUME NEW r, NEW c, NEW a \in Seq(Ops), NEW t \in Seq(Ops)
  PROVE  Left(r, c, a \o t) = Left(r, c, a) \cup Left(r, c, t)
<1>1. PICK x : x = a \o t
  OBVIOUS
<1>2. /\ \A h \in DOMAIN a : h \in DOMAIN x /\ x[h] = a[h]
      /\ \A h \in DOMAIN t : Len(a) + h \in DOMAIN x /\ x[Len(a) + h] = t[h]
      /\ \A j \in DOMAIN x : j \in DOMAIN a \/ \E h \in DOMAIN t : j = Len(a) + h
  BY <1>1, JoinAt
<1>3. \A j \in DOMAIN x : (\E h \in DOMAIN a : x[j] = a[h]) \/ (\E h \in DOMAIN t : x[j] = t[h])
  BY <1>2
<1>4. \A h \in DOMAIN a : \E j \in DOMAIN x : x[j] = a[h]
  BY <1>2
<1>5. \A h \in DOMAIN t : \E j \in DOMAIN x : x[j] = t[h]
  BY <1>2
<1>6. Left(r, c, x) \subseteq Left(r, c, a) \cup Left(r, c, t)
  BY <1>3 DEF Left
<1>7. Left(r, c, a) \subseteq Left(r, c, x) /\ Left(r, c, t) \subseteq Left(r, c, x)
  BY <1>4, <1>5 DEF Left
<1> QED  BY <1>1, <1>6, <1>7

LEMMA TameJoin ==
  ASSUME NEW r, NEW c, NEW a, Tame(r, c, a), NEW t, Tame(r, c, t),
         Left(r, c, a) \cap Left(r, c, t) = {}
  PROVE  /\ Tame(r, c, a \o t)
         /\ InOrder(r, c, t) /\ (\A x, y \in Keys : Precedes(r, x, y) => x \notin Left(r, c, a))
              => InOrder(r, c, a \o t)
<1>1. PICK q : q = a \o t
  OBVIOUS
<1>2. a \in Seq(Ops) /\ t \in Seq(Ops)
  BY DEF Tame
<1>3. /\ q \in Seq(Ops)
      /\ \A h \in DOMAIN a : h \in DOMAIN q /\ q[h] = a[h]
      /\ \A h \in DOMAIN t : Len(a) + h \in DOMAIN q /\ q[Len(a) + h] = t[h]
      /\ \A j \in DOMAIN q : j \in DOMAIN a \/ \E h \in DOMAIN t : j = Len(a) + h
      /\ Len(a) \in Nat /\ DOMAIN a \subseteq 1 .. Len(a) /\ DOMAIN t \subseteq Nat \ {0}
  BY <1>1, <1>2, JoinAt
<1>4. \A j \in DOMAIN q : ~Asks(r, q[j])
  <2>1. /\ \A h \in DOMAIN a : ~Asks(r, a[h])
        /\ \A h \in DOMAIN t : ~Asks(r, t[h])
    BY DEF Tame
  <2>2. \A j \in DOMAIN q : (\E h \in DOMAIN a : q[j] = a[h]) \/ (\E h \in DOMAIN t : q[j] = t[h])
    BY <1>3
  <2> QED  BY <2>1, <2>2
<1>5. \A h \in DOMAIN a : Leads(r, c, a[h]) \subseteq Left(r, c, a)
  BY DEF Left
<1>6. \A h \in DOMAIN t : Leads(r, c, t[h]) \subseteq Left(r, c, t)
  BY DEF Left
<1>7. ASSUME NEW i \in DOMAIN q, NEW j \in DOMAIN q, NEW k,
             k \in Leads(r, c, q[i]), k \in Leads(r, c, q[j])
      PROVE  i = j
  <2>1. CASE i \in DOMAIN a /\ j \in DOMAIN a
    <3>1. k \in Leads(r, c, a[i]) /\ k \in Leads(r, c, a[j])
      BY <1>3, <1>7, <2>1
    <3> QED  BY <2>1, <3>1 DEF Tame
  <2>2. ASSUME NEW h \in DOMAIN t, i = Len(a) + h, NEW g \in DOMAIN t, j = Len(a) + g
        PROVE  i = j
    <3>1. k \in Leads(r, c, t[h]) /\ k \in Leads(r, c, t[g])
      BY <1>3, <1>7, <2>2
    <3>2. h = g
      BY <3>1 DEF Tame
    <3> QED  BY <2>2, <3>2
  <2>3. ASSUME i \in DOMAIN a, NEW g \in DOMAIN t, j = Len(a) + g
        PROVE  FALSE
    <3>1. k \in Leads(r, c, a[i]) /\ k \in Leads(r, c, t[g])
      BY <1>3, <1>7, <2>3
    <3> QED  BY <1>5, <1>6, <2>3, <3>1
  <2>4. ASSUME j \in DOMAIN a, NEW h \in DOMAIN t, i = Len(a) + h
        PROVE  FALSE
    <3>1. k \in Leads(r, c, a[j]) /\ k \in Leads(r, c, t[h])
      BY <1>3, <1>7, <2>4
    <3> QED  BY <1>5, <1>6, <2>4, <3>1
  <2> QED  BY <1>3, <2>1, <2>2, <2>3, <2>4
<1>8. ASSUME NEW j \in DOMAIN q, q[j][1] = "get", q[j][2] \in Writes(r, c)
      PROVE  \E h \in DOMAIN q : h >= j /\ q[j][2] \in Leads(r, c, q[h])
  <2>1. CASE j \in DOMAIN a
    <3>1. q[j] = a[j]
      BY <1>3, <2>1
    <3>2. PICK h \in DOMAIN a : h >= j /\ a[j][2] \in Leads(r, c, a[h])
      BY <1>8, <2>1, <3>1 DEF Tame
    <3> QED  BY <1>3, <3>1, <3>2
  <2>2. ASSUME NEW g \in DOMAIN t, j = Len(a) + g
        PROVE  \E h \in DOMAIN q : h >= j /\ q[j][2] \in Leads(r, c, q[h])
    <3>1. q[j] = t[g]
      BY <1>3, <2>2
    <3>2. PICK h \in DOMAIN t : h >= g /\ t[g][2] \in Leads(r, c, t[h])
      BY <1>8, <2>2, <3>1 DEF Tame
    <3>3. Len(a) + h \in DOMAIN q /\ q[Len(a) + h] = t[h] /\ Len(a) + h >= j
      BY <1>3, <2>2, <3>2
    <3> QED  BY <3>1, <3>2, <3>3
  <2> QED  BY <1>3, <2>1, <2>2
<1>9. Tame(r, c, q)
  BY <1>3, <1>4, <1>7, <1>8 DEF Tame
<1>10. ASSUME InOrder(r, c, t), \A x, y \in Keys : Precedes(r, x, y) => x \notin Left(r, c, a)
       PROVE  InOrder(r, c, q)
  <2>1. ASSUME NEW x \in Keys, NEW y \in Keys, Precedes(r, x, y), NEW i \in DOMAIN q, x \in Leads(r, c, q[i])
        PROVE  \E j \in DOMAIN q : j > i /\ y \in Leads(r, c, q[j])
    <3>1. i \notin DOMAIN a
      BY <1>3, <1>5, <1>10, <2>1
    <3>2. PICK h \in DOMAIN t : i = Len(a) + h
      BY <1>3, <3>1
    <3>3. x \in Leads(r, c, t[h])
      BY <1>3, <2>1, <3>2
    <3>4. PICK g \in DOMAIN t : g > h /\ y \in Leads(r, c, t[g])
      BY <1>10, <2>1, <3>3 DEF InOrder
    <3>5. Len(a) + g \in DOMAIN q /\ q[Len(a) + g] = t[g] /\ Len(a) + g > i
      BY <1>3, <3>2, <3>4
    <3> QED  BY <3>4, <3>5
  <2> QED  BY <2>1 DEF InOrder
<1> QED  BY <1>1, <1>9, <1>10

-----------------------------------------------------------------------------
(* The plans again.                                                        *)

LEMMA KeyTags ==
  /\ \A t : PassportOf(t)[1] = "passport"
  /\ \A l : TheListing(l)[1] = "listing" /\ OffersOn(l)[1] = "offers"
  /\ \A o : TheOffer(o)[1] = "offer" /\ TheDeal(o)[1] = "deal"
  /\ \A x : PayTx(x)[1] = "paytx"
  /\ Index[1] = "listings"
  /\ \A x : Nonce(x)[1] = "nonce"
  /\ \A r : /\ Passp(r)[1] = "passport" /\ Listg(r)[1] = "listing" /\ Offr(r)[1] = "offer"
            /\ Deall(r)[1] = "deal"
BY DEF PassportOf, TheListing, OffersOn, TheOffer, TheDeal, PayTx, Index, Nonce, Passp, Listg, Offr, Deall

LEMMA NotAsked ==
  ASSUME NEW r
  PROVE  /\ \A k : k # Nonce(r) => ~Asks(r, Put(k))
         /\ \A k : ~Asks(r, Add(k))
         /\ \A k : k \notin {First(r), Deall(r), Nonce(r)} \cup FrontKeys(r) => ~Asks(r, Get(k))
<1>1. \A j, k : Put(k) # Get(j) /\ Add(k) # Get(j) /\ Add(k) # Put(j) /\ (Put(k) = Put(j) => k = j)
  BY DEF Put, Get, Add
<1>2. \A k : k # Nonce(r) => ~Asks(r, Put(k))
  BY <1>1 DEF Asks
<1>3. \A k : ~Asks(r, Add(k))
  BY <1>1 DEF Asks
<1>4. \A k : k \notin {First(r), Deall(r), Nonce(r)} \cup FrontKeys(r) => ~Asks(r, Get(k))
  BY <1>1, OpsOf DEF Asks
<1> QED  BY <1>2, <1>3, <1>4

\* A sequence of operations that each write a key, or read one that it does
\* not write.
LEMMA TameBy ==
  ASSUME NEW r, NEW c, NEW q \in Seq(Ops),
         \A j \in DOMAIN q : ~Asks(r, q[j]),
         \A i, j \in DOMAIN q : Leads(r, c, q[i]) \cap Leads(r, c, q[j]) # {} => i = j,
         \A j \in DOMAIN q : q[j][1] = "get" =>
           \/ q[j][2] \notin Writes(r, c)
           \/ \E h \in DOMAIN q : h >= j /\ q[j][2] \in Leads(r, c, q[h])
  PROVE  Tame(r, c, q)
BY DEF Tame

\* The plan after the nonce, with what it writes.
RestIs(r, c) ==
  /\ Tame(r, c, Rest(r)) /\ InOrder(r, c, Rest(r)) /\ Rest(r) # <<>>
  /\ Nonce(r) \notin Left(r, c, Rest(r))

\* One that only writes.
LEMMA PutsRest ==
  ASSUME NEW r \in Requests, NEW c, NEW q \in Seq(Ops), q # <<>>, q = Rest(r),
         \A j \in DOMAIN q : q[j][1] # "get" /\ q[j][2] # Nonce(r)
                             /\ (q[j] = Put(q[j][2]) \/ q[j] = Add(q[j][2])),
         \A i, j \in DOMAIN q : q[i][2] = q[j][2] => i = j,
         \A x, y \in Keys : Precedes(r, x, y) =>
           \A i \in DOMAIN q : x = q[i][2] => \E j \in DOMAIN q : j > i /\ y = q[j][2]
  PROVE  RestIs(r, c)
<1>1. \A j \in DOMAIN q : Leads(r, c, q[j]) = {q[j][2]}
  BY PutLeads
<1>2. \A j \in DOMAIN q : ~Asks(r, q[j])
  BY NotAsked
<1>3. Tame(r, c, q)
  BY <1>1, <1>2 DEF Tame
<1>4. InOrder(r, c, q)
  BY <1>1 DEF InOrder
<1>5. Nonce(r) \notin Left(r, c, q)
  BY <1>1 DEF Left
<1> QED  BY <1>3, <1>4, <1>5 DEF RestIs

LEMMA RestTame ==
  ASSUME NEW r \in Requests, NEW c
  PROVE  RestIs(r, c)
<1>1. CASE r.kind \in {"claim", "reject", "fee-right-evidence", "confirm-payment", "confirm-asset",
                       "confirm-complete"}
  <2>1. PICK k \in Keys : Rest(r) = <<Put(k)>> /\ k # Nonce(r)
    <3>1. Passp(r) # Nonce(r) /\ Offr(r) # Nonce(r) /\ Deall(r) # Nonce(r)
      BY KeyTags
    <3> QED  BY <1>1, <3>1, RequestKeys DEF Rest
  <2>2. PICK q : q = Rest(r)
    OBVIOUS
  <2>3. q \in Seq(Ops) /\ q # <<>> /\ DOMAIN q = {1} /\ q[1] = Put(k)
    BY <2>1, <2>2, OpsOf
  <2>4. \A x, y : ~Precedes(r, x, y)
    BY <1>1 DEF Precedes
  <2>5. q[1][1] # "get" /\ q[1][2] = k
    BY <2>3, OpsOf
  <2> QED  BY <2>1, <2>2, <2>3, <2>4, <2>5, PutsRest
<1>2. CASE r.kind = "list"
  <2>1. PICK q : q = <<Put(Listg(r)), Add(Index), Put(Passp(r))>>
    OBVIOUS
  <2>2. q = Rest(r) /\ q \in Seq(Ops) /\ q # <<>> /\ DOMAIN q = {1, 2, 3}
    BY <1>2, <2>1, RequestKeys, OpsOf DEF Rest
  <2>3. /\ q[1][2] = Listg(r) /\ q[2][2] = Index /\ q[3][2] = Passp(r)
        /\ q[1] = Put(Listg(r)) /\ q[2] = Add(Index) /\ q[3] = Put(Passp(r))
        /\ q[1][1] # "get" /\ q[2][1] # "get" /\ q[3][1] # "get"
    BY <2>1, OpsOf
  <2>4. \A j \in DOMAIN q : q[j][1] # "get" /\ q[j][2] # Nonce(r)
                            /\ (q[j] = Put(q[j][2]) \/ q[j] = Add(q[j][2]))
    BY <2>2, <2>3, KeyTags
  <2>5. \A i, j \in DOMAIN q : q[i][2] = q[j][2] => i = j
    BY <2>2, <2>3, KeyTags
  <2>6. \A x, y : ~Precedes(r, x, y)
    BY <1>2 DEF Precedes
  <2> QED  BY <2>2, <2>4, <2>5, <2>6, PutsRest
<1>3. CASE r.kind = "offer"
  <2>1. PICK q : q = <<Put(Offr(r)), Add(OffersOn(L(r)))>>
    OBVIOUS
  <2>2. q = Rest(r) /\ q \in Seq(Ops) /\ q # <<>> /\ DOMAIN q = {1, 2}
    BY <1>3, <2>1, RequestKeys, OpsOf DEF Rest
  <2>3. /\ q[1][2] = Offr(r) /\ q[2][2] = OffersOn(L(r))
        /\ q[1] = Put(Offr(r)) /\ q[2] = Add(OffersOn(L(r)))
        /\ q[1][1] # "get" /\ q[2][1] # "get"
    BY <2>1, OpsOf
  <2>4. \A j \in DOMAIN q : q[j][1] # "get" /\ q[j][2] # Nonce(r)
                            /\ (q[j] = Put(q[j][2]) \/ q[j] = Add(q[j][2]))
    BY <2>2, <2>3, KeyTags
  <2>5. \A i, j \in DOMAIN q : q[i][2] = q[j][2] => i = j
    BY <2>2, <2>3, KeyTags
  <2>6. \A x, y : ~Precedes(r, x, y)
    BY <1>3 DEF Precedes
  <2> QED  BY <2>2, <2>4, <2>5, <2>6, PutsRest
<1>4. CASE r.kind \in {"transfer-accept", "payment-evidence"}
  <2>1. PICK x, y : Rest(r) = <<Put(x), Put(y)>> /\ x \in Keys /\ y \in Keys /\ x # y
                    /\ x # Nonce(r) /\ y # Nonce(r)
                    /\ \A u, w : Precedes(r, u, w) => u = x /\ w = y
    <3>1. CASE r.kind = "transfer-accept"
      <4>1. Rest(r) = <<Put(Deall(r)), Put(Passp(r))>> /\ Deall(r) \in Keys /\ Passp(r) \in Keys
        BY <3>1, RequestKeys DEF Rest
      <4>2. \A u, w : Precedes(r, u, w) => u = Deall(r) /\ w = Passp(r)
        BY <3>1 DEF Precedes
      <4> QED  BY <4>1, <4>2, KeyTags
    <3>2. CASE r.kind = "payment-evidence"
      <4>1. Rest(r) = <<Put(PayTx(r.tx)), Put(Deall(r))>> /\ Deall(r) \in Keys /\ PayTx(r.tx) \in Keys
        BY <3>2, RequestKeys DEF Rest, HasNonce
      <4>2. \A u, w : Precedes(r, u, w) => u = PayTx(r.tx) /\ w = Deall(r)
        BY <3>2 DEF Precedes
      <4> QED  BY <4>1, <4>2, KeyTags
    <3> QED  BY <1>4, <3>1, <3>2
  <2>2. PICK q : q = Rest(r)
    OBVIOUS
  <2>3. q \in Seq(Ops) /\ q # <<>> /\ DOMAIN q = {1, 2} /\ q[1] = Put(x) /\ q[2] = Put(y)
    BY <2>1, <2>2, OpsOf
  <2>4. q[1][2] = x /\ q[2][2] = y /\ q[1][1] # "get" /\ q[2][1] # "get"
    BY <2>3, OpsOf
  <2>5. \A j \in DOMAIN q : q[j][1] # "get" /\ q[j][2] # Nonce(r)
                            /\ (q[j] = Put(q[j][2]) \/ q[j] = Add(q[j][2]))
    BY <2>1, <2>3, <2>4
  <2>6. \A i, j \in DOMAIN q : q[i][2] = q[j][2] => i = j
    BY <2>1, <2>3, <2>4
  <2>7. 2 > 1 /\ \A i \in DOMAIN q : x = q[i][2] => i = 1
    BY <2>1, <2>3, <2>4
  <2>8. \A u, w \in Keys : Precedes(r, u, w) =>
          \A i \in DOMAIN q : u = q[i][2] => \E j \in DOMAIN q : j > i /\ w = q[j][2]
    BY <2>1, <2>3, <2>4, <2>7
  <2> QED  BY <2>2, <2>3, <2>5, <2>6, <2>8, PutsRest
<1>5. CASE r.kind = "cancel-listing"
  <2>1. PICK q : q = <<Put(Listg(r)), Get(Passp(r)), Put(Passp(r))>>
    OBVIOUS
  <2>2. q = Rest(r) /\ q \in Seq(Ops) /\ q # <<>> /\ DOMAIN q = {1, 2, 3}
    BY <1>5, <2>1, RequestKeys, OpsOf DEF Rest
  <2>3. q[1] = Put(Listg(r)) /\ q[2] = Get(Passp(r)) /\ q[3] = Put(Passp(r))
    BY <2>1
  <2>4. Leads(r, c, q[1]) = {Listg(r)} /\ Leads(r, c, q[2]) = {} /\ Leads(r, c, q[3]) = {Passp(r)}
    BY <1>5, <2>3, PutLeads, GetLeads
  <2>5. First(r) = Listg(r) /\ FrontKeys(r) = {}
    BY <1>5 DEF First, FrontKeys
  <2>6. \A j \in DOMAIN q : ~Asks(r, q[j])
    BY <2>2, <2>3, <2>5, NotAsked, KeyTags
  <2>7. \A i, j \in DOMAIN q : Leads(r, c, q[i]) \cap Leads(r, c, q[j]) # {} => i = j
    BY <2>2, <2>4, KeyTags
  <2>8. \A j \in DOMAIN q : q[j][1] = "get" => \E h \in DOMAIN q : h >= j /\ q[j][2] \in Leads(r, c, q[h])
    BY <2>2, <2>3, <2>4, OpsOf
  <2>9. Tame(r, c, q)
    BY <2>2, <2>6, <2>7, <2>8, TameBy
  <2>10. \A x, y : ~Precedes(r, x, y)
    BY <1>5 DEF Precedes
  <2>11. Nonce(r) \notin Left(r, c, q)
    BY <2>2, <2>4, KeyTags DEF Left
  <2> QED  BY <2>2, <2>9, <2>10, <2>11 DEF RestIs, InOrder
<1>6. CASE r.kind = "accept"
  <2>1. PICK q : q = <<Get(OffersOn(L(r))), Put(Offr(r)), Put(Listg(r)), Put(Deall(r))>>
    OBVIOUS
  <2>2. q = Rest(r) /\ q \in Seq(Ops) /\ q # <<>> /\ DOMAIN q = {1, 2, 3, 4}
    BY <1>6, <2>1, RequestKeys, OpsOf DEF Rest
  <2>3. /\ q[1] = Get(OffersOn(L(r))) /\ q[2] = Put(Offr(r)) /\ q[3] = Put(Listg(r)) /\ q[4] = Put(Deall(r))
    BY <2>1
  <2>4. /\ Leads(r, c, q[1]) = Superseded(r, c) /\ Leads(r, c, q[2]) = {Offr(r)}
        /\ Leads(r, c, q[3]) = {Listg(r)} /\ Leads(r, c, q[4]) = {Deall(r)}
    <3>1. Leads(r, c, Get(OffersOn(L(r)))) = Superseded(r, c)
      <4>1. /\ Get(OffersOn(L(r)))[1] = "get"
            /\ \A k : k[1] # "offers" => Get(OffersOn(L(r))) # Get(k)
        BY OpsOf, KeyTags
      <4> QED  BY <1>6, <4>1, KeyTags DEF Leads
    <3> QED  BY <2>3, <3>1, PutLeads
  <2>5. First(r) = Listg(r) /\ FrontKeys(r) = {Offr(r)}
    BY <1>6 DEF First, FrontKeys
  <2>6. \A j \in DOMAIN q : ~Asks(r, q[j])
    BY <2>2, <2>3, <2>5, NotAsked, KeyTags
  <2>7. \A k \in Superseded(r, c) : k[1] = "offer" /\ k # Offr(r)
    BY KeyTags, KeysDiffer DEF Superseded
  <2>8. \A i, j \in DOMAIN q : Leads(r, c, q[i]) \cap Leads(r, c, q[j]) # {} => i = j
    BY <2>2, <2>4, <2>7, KeyTags
  <2>9. Left(r, c, q) = Superseded(r, c) \cup {Offr(r), Listg(r), Deall(r)}
    <3>1. Left(r, c, q) = UNION {Leads(r, c, q[1]), Leads(r, c, q[2]), Leads(r, c, q[3]), Leads(r, c, q[4])}
      BY <2>2 DEF Left
    <3> QED  BY <2>4, <3>1
  <2>10. OffersOn(L(r)) \notin Writes(r, c)
    <3>1. Closing(r, c) = <<>>
      BY <1>6 DEF Closing
    <3>2. Left(r, c, <<>>) = {}
      BY DEF Left
    <3> QED  BY <2>2, <2>7, <2>9, <3>1, <3>2, KeyTags DEF Writes, Nonces
  <2>11. \A j \in DOMAIN q : q[j][1] = "get" => q[j][2] \notin Writes(r, c)
    BY <2>2, <2>3, <2>10, OpsOf
  <2>12. Tame(r, c, q)
    BY <2>2, <2>6, <2>8, <2>11, TameBy
  <2>13. Nonce(r) \notin Left(r, c, q)
    BY <2>7, <2>9, KeyTags
  <2>14. InOrder(r, c, q)
    <3>1. \A x, y : Precedes(r, x, y) => x = Offr(r) /\ y = Deall(r)
      BY <1>6 DEF Precedes
    <3>2. \A i \in DOMAIN q : Offr(r) \in Leads(r, c, q[i]) => i = 2
      BY <2>2, <2>4, <2>7, KeyTags
    <3>3. 4 > 2 /\ 4 \in DOMAIN q /\ Deall(r) \in Leads(r, c, q[4])
      BY <2>2, <2>4
    <3> QED  BY <3>1, <3>2, <3>3 DEF InOrder
  <2> QED  BY <2>2, <2>12, <2>13, <2>14 DEF RestIs
<1>7. CASE r.kind = "transfer-intent"
  <2>1. PICK q : q = <<Put(Deall(r)), Get(Listg(r))>>
    OBVIOUS
  <2>2. q = Rest(r) /\ q \in Seq(Ops) /\ q # <<>> /\ DOMAIN q = {1, 2}
    BY <1>7, <2>1, RequestKeys, OpsOf DEF Rest
  <2>3. q[1] = Put(Deall(r)) /\ q[2] = Get(Listg(r))
    BY <2>1
  <2>4. /\ Leads(r, c, q[1]) = {Deall(r)}
        /\ Leads(r, c, q[2]) = {Listg(r)} \/ Leads(r, c, q[2]) = {}
    <3>1. Leads(r, c, Get(Listg(r))) \in {{Listg(r)}, {}}
      BY <1>7, OpsOf DEF Leads
    <3> QED  BY <2>3, <3>1, PutLeads
  <2>5. First(r) = Deall(r) /\ FrontKeys(r) = {Passp(r)}
    BY <1>7 DEF First, FrontKeys
  <2>6. \A j \in DOMAIN q : ~Asks(r, q[j])
    BY <2>2, <2>3, <2>5, NotAsked, KeyTags
  <2>7. \A i, j \in DOMAIN q : Leads(r, c, q[i]) \cap Leads(r, c, q[j]) # {} => i = j
    BY <2>2, <2>4, KeyTags
  <2>8. Left(r, c, q) = Leads(r, c, q[1]) \cup Leads(r, c, q[2])
    BY <2>2 DEF Left
  <2>9. Listg(r) \in Writes(r, c) => Listg(r) \in Leads(r, c, q[2])
    <3>1. Closing(r, c) = <<>>
      BY <1>7 DEF Closing
    <3>2. Left(r, c, <<>>) = {}
      BY DEF Left
    <3> QED  BY <2>2, <2>4, <2>8, <3>1, <3>2, KeyTags DEF Writes, Nonces
  <2>10. \A j \in DOMAIN q : q[j][1] = "get" => q[j][2] \notin Writes(r, c)
                            \/ \E h \in DOMAIN q : h >= j /\ q[j][2] \in Leads(r, c, q[h])
    BY <2>2, <2>3, <2>9, OpsOf
  <2>11. Tame(r, c, q)
    BY <2>2, <2>6, <2>7, <2>10, TameBy
  <2>12. Nonce(r) \notin Left(r, c, q)
    BY <2>4, <2>8, KeyTags
  <2>13. \A x, y : ~Precedes(r, x, y)
    BY <1>7 DEF Precedes
  <2> QED  BY <2>2, <2>11, <2>12, <2>13 DEF RestIs, InOrder
<1>8. CASE r.kind = "deal-cancel"
  <2>1. PICK q : q = <<Get(Listg(r)), Put(Listg(r)), Get(Offr(r)), Put(Offr(r)), Get(Passp(r)), Put(Passp(r))>>
    OBVIOUS
  <2>2. q = Rest(r) /\ q \in Seq(Ops) /\ q # <<>> /\ DOMAIN q = {1, 2, 3, 4, 5, 6}
    BY <1>8, <2>1, RequestKeys, OpsOf DEF Rest
  <2>3. /\ q[1] = Get(Listg(r)) /\ q[2] = Put(Listg(r)) /\ q[3] = Get(Offr(r)) /\ q[4] = Put(Offr(r))
        /\ q[5] = Get(Passp(r)) /\ q[6] = Put(Passp(r))
    BY <2>1
  <2>4. /\ Leads(r, c, q[1]) = {} /\ Leads(r, c, q[2]) = {Listg(r)} /\ Leads(r, c, q[3]) = {}
        /\ Leads(r, c, q[4]) = {Offr(r)} /\ Leads(r, c, q[5]) = {} /\ Leads(r, c, q[6]) = {Passp(r)}
    BY <1>8, <2>3, PutLeads, GetLeads
  <2>5. First(r) = Deall(r) /\ FrontKeys(r) = {}
    BY <1>8 DEF First, FrontKeys
  <2>6. \A j \in DOMAIN q : ~Asks(r, q[j])
    BY <2>2, <2>3, <2>5, NotAsked, KeyTags
  <2>7. \A i, j \in DOMAIN q : Leads(r, c, q[i]) \cap Leads(r, c, q[j]) # {} => i = j
    BY <2>2, <2>4, KeyTags
  <2>8. \A j \in DOMAIN q : q[j][1] = "get" => \E h \in DOMAIN q : h >= j /\ q[j][2] \in Leads(r, c, q[h])
    BY <2>2, <2>3, <2>4, OpsOf
  <2>9. Tame(r, c, q)
    BY <2>2, <2>6, <2>7, <2>8, TameBy
  <2>10. \A x, y : ~Precedes(r, x, y)
    BY <1>8 DEF Precedes
  <2>11. Nonce(r) \notin Left(r, c, q)
    BY <2>2, <2>4, KeyTags DEF Left
  <2> QED  BY <2>2, <2>9, <2>10, <2>11 DEF RestIs, InOrder
<1> QED  BY <1>1, <1>2, <1>3, <1>4, <1>5, <1>6, <1>7, <1>8, RequestKeys DEF Kinds

\* What the second completion adds.
LEMMA ClosingTame ==
  ASSUME NEW r \in Requests, NEW c
  PROVE  /\ Tame(r, c, Closing(r, c))
         /\ Left(r, c, Closing(r, c)) \cap Left(r, c, Rest(r)) = {}
         /\ Nonce(r) \notin Left(r, c, Closing(r, c))
         /\ \A x, y : ~(Precedes(r, x, y) /\ x \in Left(r, c, Closing(r, c)))
         /\ r.kind # "confirm-complete" \/ ~Completes(r, c) => Closing(r, c) = <<>>
         /\ Left(r, c, <<>>) = {}
         /\ r.kind = "confirm-complete" /\ Completes(r, c) => Left(r, c, Closing(r, c)) = {Listg(r), Passp(r)}
<1>1. CASE r.kind # "confirm-complete" \/ ~Completes(r, c)
  <2>1. Closing(r, c) = <<>>
    BY <1>1 DEF Closing
  <2>2. Left(r, c, <<>>) = {}
    BY DEF Left
  <2>3. Tame(r, c, <<>>)
    BY DEF Tame
  <2> QED  BY <1>1, <2>1, <2>2, <2>3
<1>2. CASE r.kind = "confirm-complete" /\ Completes(r, c)
  <2>1. PICK q : q = <<Get(Listg(r)), Put(Listg(r)), Get(Passp(r)), Put(Passp(r))>>
    OBVIOUS
  <2>2. q = Closing(r, c) /\ q \in Seq(Ops) /\ DOMAIN q = {1, 2, 3, 4}
    BY <1>2, <2>1, RequestKeys, OpsOf DEF Closing
  <2>3. q[1] = Get(Listg(r)) /\ q[2] = Put(Listg(r)) /\ q[3] = Get(Passp(r)) /\ q[4] = Put(Passp(r))
    BY <2>1
  <2>4. /\ Leads(r, c, q[1]) = {} /\ Leads(r, c, q[2]) = {Listg(r)}
        /\ Leads(r, c, q[3]) = {} /\ Leads(r, c, q[4]) = {Passp(r)}
    BY <1>2, <2>3, PutLeads, GetLeads
  <2>5. First(r) = Deall(r) /\ FrontKeys(r) = {}
    BY <1>2 DEF First, FrontKeys
  <2>6. \A j \in DOMAIN q : ~Asks(r, q[j])
    BY <2>2, <2>3, <2>5, NotAsked, KeyTags
  <2>7. \A i, j \in DOMAIN q : Leads(r, c, q[i]) \cap Leads(r, c, q[j]) # {} => i = j
    BY <2>2, <2>4, KeyTags
  <2>8. \A j \in DOMAIN q : q[j][1] = "get" => \E h \in DOMAIN q : h >= j /\ q[j][2] \in Leads(r, c, q[h])
    BY <2>2, <2>3, <2>4, OpsOf
  <2>9. Tame(r, c, q)
    BY <2>2, <2>6, <2>7, <2>8, TameBy
  <2>10. \A x, y : ~Precedes(r, x, y)
    BY <1>2 DEF Precedes
  <2>11. Left(r, c, q) = {Listg(r), Passp(r)}
    BY <2>2, <2>4 DEF Left
  <2>12. Left(r, c, Rest(r)) = {Deall(r)}
    <3>1. Rest(r) = <<Put(Deall(r))>>
      BY <1>2 DEF Rest
    <3>2. Leads(r, c, Put(Deall(r))) = {Deall(r)}
      BY PutLeads
    <3> QED  BY <3>1, <3>2 DEF Left
  <2>13. Left(r, c, <<>>) = {}
    BY DEF Left
  <2> QED  BY <1>2, <2>2, <2>9, <2>10, <2>11, <2>12, <2>13, KeyTags
<1> QED  BY <1>1, <1>2

\* The records that the plan names to be read first.
Fronts(r) == IF r.kind = "list" THEN {Listg(r), Index} ELSE FrontKeys(r)

LEMMA SpendRest ==
  ASSUME NEW r \in Requests
  PROVE  /\ Spend(r) \in Seq(Ops) /\ Rest(r) \in Seq(Ops) /\ Spend(r) \o Rest(r) \in Seq(Ops)
         /\ Spend(r) \o Rest(r) # <<>>
         /\ HasNonce(r) => Spend(r) \o Rest(r) = <<Get(Nonce(r))>> \o (<<Put(Nonce(r))>> \o Rest(r))
         /\ ~HasNonce(r) => Spend(r) \o Rest(r) = Rest(r)
<1>1. Rest(r) \in Seq(Ops) /\ Rest(r) # <<>>
  BY RestTame DEF RestIs, Tame
<1>2. PICK g, p : g = Get(Nonce(r)) /\ p = Put(Nonce(r)) /\ g \in Ops /\ p \in Ops
  BY RequestKeys, OpsOf
<1>3. <<g, p>> \in Seq(Ops) /\ <<g>> \in Seq(Ops) /\ <<p>> \in Seq(Ops)
  BY <1>2
<1>4. CASE HasNonce(r)
  <2>1. Spend(r) = <<g, p>>
    BY <1>2, <1>4 DEF Spend, Consume
  <2>2. <<g, p>> = <<g>> \o <<p>>
    BY <1>2
  <2>3. PICK w : w = Rest(r)
    OBVIOUS
  <2>4. <<g, p>> \o w = <<g>> \o (<<p>> \o w)
    BY <1>1, <1>3, <2>2, <2>3, ConcatAssociative
  <2>5. <<p>> \o w \in Seq(Ops)
    BY <1>1, <1>3, <2>3, ConcatProperties
  <2>6. <<g>> \o (<<p>> \o w) \in Seq(Ops) /\ <<g>> \o (<<p>> \o w) # <<>>
    BY <1>2, <2>5, OneThen
  <2> QED  BY <1>1, <1>2, <1>3, <1>4, <2>1, <2>3, <2>4, <2>6
<1>5. CASE ~HasNonce(r)
  <2>1. Spend(r) = <<>>
    BY <1>5 DEF Spend
  <2>2. <<>> \o Rest(r) = Rest(r)
    BY <1>1, ConcatEmptySeq
  <2>3. <<>> \in Seq(Ops)
    OBVIOUS
  <2> QED  BY <1>1, <1>5, <2>1, <2>2, <2>3
<1> QED  BY <1>4, <1>5

Covers(r, a) ==
  /\ \A h \in DOMAIN a : \E k \in FrontKeys(r) : a[h] = Get(k)
  /\ \A k \in Fronts(r) : \E h \in DOMAIN a : a[h] = Get(k)

\* The plan reads the first record and then a.
PlanIs(r, a) ==
  /\ Plan(r) # <<>> /\ Head(Plan(r)) = Get(First(r)) /\ a \in Seq(Ops)
  /\ Tail(Plan(r)) = a \o (Spend(r) \o Rest(r))
  /\ Covers(r, a)

LEMMA PlanBy ==
  ASSUME NEW r \in Requests, NEW s \in Seq(Ops), s # <<>>, Head(s) = Get(First(r)),
         Plan(r) = s \o (Spend(r) \o Rest(r)), NEW a, a = Tail(s), Covers(r, a)
  PROVE  PlanIs(r, a)
<1>1. PICK w : w = Spend(r) \o Rest(r)
  OBVIOUS
<1>2. w \in Seq(Ops)
  BY <1>1, SpendRest
<1>3. Head(s \o w) = Head(s) /\ Tail(s \o w) = Tail(s) \o w
  BY <1>2, JoinTail
<1>4. s \o w # <<>> /\ a \in Seq(Ops)
  BY <1>2, JoinAt, HeadThen
<1> QED  BY <1>1, <1>3, <1>4 DEF PlanIs

LEMMA PlanShape ==
  ASSUME NEW r \in Requests
  PROVE  \E a : PlanIs(r, a)
<1>1. ASSUME HasNonce(r), NEW s \in Seq(Ops), Plan(r) = s \o Consume(r) \o Rest(r)
      PROVE  Plan(r) = s \o (Spend(r) \o Rest(r))
  <2>1. Spend(r) = Consume(r)
    BY <1>1 DEF Spend
  <2>2. PICK w, x : w = Rest(r) /\ x = Consume(r)
    OBVIOUS
  <2>3. w \in Seq(Ops) /\ x \in Seq(Ops)
    BY <2>1, <2>2, SpendRest
  <2>4. (s \o x) \o w = s \o (x \o w)
    BY <2>3, ConcatAssociative
  <2> QED  BY <1>1, <2>1, <2>2, <2>4
<1>2. CASE r.kind \in {"claim", "cancel-listing", "confirm-payment", "confirm-asset",
                       "confirm-complete", "deal-cancel"}
  <2>1. PICK s : s = <<Get(First(r))>>
    OBVIOUS
  <2>2. HasNonce(r) /\ Plan(r) = s \o Consume(r) \o Rest(r) /\ First(r) \in Keys
    BY <1>2, <2>1, RequestKeys DEF HasNonce, Plan, First, Rest
  <2>3. s \in Seq(Ops) /\ s # <<>> /\ Head(s) = Get(First(r)) /\ Tail(s) = <<>>
    BY <2>1, <2>2, OpsOf
  <2>4. Plan(r) = s \o (Spend(r) \o Rest(r))
    BY <1>1, <2>2, <2>3
  <2>5. Fronts(r) = {}
    BY <1>2 DEF Fronts, FrontKeys
  <2>6. Covers(r, <<>>)
    BY <2>5 DEF Covers
  <2> QED  BY <2>3, <2>4, <2>6, PlanBy
<1>3. CASE r.kind \in {"offer", "accept", "reject", "transfer-intent", "transfer-accept"}
  <2>1. PICK k \in Keys : /\ FrontKeys(r) = {k} /\ HasNonce(r) /\ First(r) \in Keys
                         /\ Plan(r) = <<Get(First(r)), Get(k)>> \o Consume(r) \o Rest(r)
    <3>1. CASE r.kind \in {"offer", "accept", "reject"}
      BY <3>1, RequestKeys DEF HasNonce, Plan, AcceptPlan, First, Rest, FrontKeys
    <3>2. CASE r.kind \in {"transfer-intent", "transfer-accept"}
      BY <3>2, RequestKeys DEF HasNonce, Plan, TransferPlan, First, Rest, FrontKeys
    <3> QED  BY <1>3, <3>1, <3>2
  <2>2. PICK s : s = <<Get(First(r)), Get(k)>>
    OBVIOUS
  <2>3. /\ s \in Seq(Ops) /\ s # <<>> /\ Head(s) = Get(First(r)) /\ Tail(s) = <<Get(k)>>
    BY <2>1, <2>2, OpsOf
  <2>4. Plan(r) = s \o (Spend(r) \o Rest(r))
    BY <1>1, <2>1, <2>2, <2>3
  <2>5. Fronts(r) = {k}
    BY <1>3, <2>1 DEF Fronts
  <2>6. PICK a : a = <<Get(k)>>
    OBVIOUS
  <2>7. DOMAIN a = {1} /\ a[1] = Get(k)
    BY <2>6
  <2>8. Covers(r, a)
    BY <2>1, <2>5, <2>7 DEF Covers
  <2> QED  BY <2>3, <2>4, <2>6, <2>8, PlanBy
<1>4. CASE r.kind = "list"
  <2>1. PICK s : s = <<Get(Passp(r)), Get(Listg(r)), Get(Index)>>
    OBVIOUS
  <2>2. HasNonce(r) /\ Plan(r) = s \o Consume(r) \o Rest(r) /\ First(r) = Passp(r)
    BY <1>4, <2>1 DEF HasNonce, Plan, First, Rest
  <2>3. /\ s \in Seq(Ops) /\ s # <<>> /\ Head(s) = Get(First(r)) /\ Tail(s) = <<Get(Listg(r)), Get(Index)>>
    BY <1>4, <2>1, <2>2, RequestKeys, OpsOf
  <2>4. Plan(r) = s \o (Spend(r) \o Rest(r))
    BY <1>1, <2>2, <2>3
  <2>5. Fronts(r) = {Listg(r), Index} /\ Fronts(r) \subseteq FrontKeys(r)
    BY <1>4 DEF Fronts, FrontKeys
  <2>6. PICK a : a = <<Get(Listg(r)), Get(Index)>>
    OBVIOUS
  <2>7. DOMAIN a = {1, 2} /\ a[1] = Get(Listg(r)) /\ a[2] = Get(Index)
    BY <2>6
  <2>8. Covers(r, a)
    BY <2>5, <2>7 DEF Covers
  <2> QED  BY <2>3, <2>4, <2>6, <2>8, PlanBy
<1>5. CASE r.kind = "fee-right-evidence"
  <2>1. ~HasNonce(r) /\ Plan(r) = <<Get(Deall(r)), Put(Deall(r))>> /\ Rest(r) = <<Put(Deall(r))>>
        /\ First(r) = Deall(r) /\ Deall(r) \in Keys
    BY <1>5, RequestKeys DEF HasNonce, Plan, Rest, First
  <2>2. PICK s : s = <<Get(First(r))>>
    OBVIOUS
  <2>3. s \in Seq(Ops) /\ s # <<>> /\ Head(s) = Get(First(r)) /\ Tail(s) = <<>>
    BY <2>1, <2>2, OpsOf
  <2>4. Spend(r) \o Rest(r) = Rest(r)
    BY <2>1, SpendRest
  <2>5. Plan(r) = s \o (Spend(r) \o Rest(r))
    BY <2>1, <2>2, <2>4
  <2>6. Fronts(r) = {}
    BY <1>5 DEF Fronts, FrontKeys
  <2>7. Covers(r, <<>>)
    BY <2>6 DEF Covers
  <2> QED  BY <2>3, <2>5, <2>7, PlanBy
<1>6. CASE r.kind = "payment-evidence"
  <2>1. PICK g, h, p, w : g = Get(Deall(r)) /\ h = Get(PayTx(r.tx)) /\ p = Put(PayTx(r.tx)) /\ w = Put(Deall(r))
    OBVIOUS
  <2>2. /\ ~HasNonce(r) /\ Plan(r) = <<g, h, p, w>> /\ Rest(r) = <<p, w>> /\ g = Get(First(r))
        /\ g \in Ops /\ h \in Ops /\ p \in Ops /\ w \in Ops
    BY <1>6, <2>1, RequestKeys, OpsOf DEF HasNonce, Plan, PaymentPlan, Rest, First
  <2>3. PICK s : s = <<g, h>>
    OBVIOUS
  <2>4. s \in Seq(Ops) /\ s # <<>> /\ Head(s) = Get(First(r)) /\ Tail(s) = <<h>>
    BY <2>2, <2>3
  <2>5. Spend(r) \o Rest(r) = Rest(r)
    BY <2>2, SpendRest
  <2>6. Plan(r) = s \o (Spend(r) \o Rest(r))
    <3>1. <<g, h>> \o <<p, w>> = <<g, h, p, w>>
      <4>1. PICK x, y, z : x = <<g, h>> /\ y = <<p, w>> /\ z = <<g, h, p, w>>
        OBVIOUS
      <4>2. x \in Seq(Ops) /\ y \in Seq(Ops) /\ z \in Seq(Ops) /\ Len(x) = 2 /\ Len(y) = 2 /\ Len(z) = 4
        BY <2>2, <4>1
      <4>3. /\ x \o y \in Seq(Ops) /\ Len(x \o y) = 4
            /\ \A i \in 1 .. 4 : (x \o y)[i] = IF i <= 2 THEN x[i] ELSE y[i - 2]
        <5>1. /\ x \o y \in Seq(Ops) /\ Len(x \o y) = Len(x) + Len(y)
              /\ \A i \in 1 .. Len(x) + Len(y) : (x \o y)[i] = IF i <= Len(x) THEN x[i] ELSE y[i - Len(x)]
          BY <4>2, ConcatProperties
        <5> QED  BY <4>2, <5>1
      <4>4. \A i \in 1 .. 4 : (x \o y)[i] = z[i]
        BY <4>1, <4>3
      <4>5. x \o y = z
        BY <4>2, <4>3, <4>4, SeqEqual
      <4> QED  BY <4>1, <4>5
    <3> QED  BY <2>2, <2>3, <2>5, <3>1
  <2>7. Fronts(r) = {PayTx(r.tx)} /\ FrontKeys(r) = {PayTx(r.tx)}
    BY <1>6 DEF Fronts, FrontKeys
  <2>8. PICK a : a = <<h>>
    OBVIOUS
  <2>9. DOMAIN a = {1} /\ a[1] = Get(PayTx(r.tx))
    BY <2>1, <2>8
  <2>10. Covers(r, a)
    BY <2>7, <2>9 DEF Covers
  <2> QED  BY <2>4, <2>6, <2>8, <2>10, PlanBy
<1> QED  BY <1>2, <1>3, <1>4, <1>5, <1>6, RequestKeys DEF Kinds

-----------------------------------------------------------------------------
(* What a handler that finds the base's records makes of them.             *)

LEMMA MaySame ==
  ASSUME NEW r, NEW c, NEW m, Remembers(r, c, m), NEW k \in DOMAIN m
  PROVE  May(r, Get(k), m) <=> May(r, Get(k), c)
<1>1. m[k] = c[k] /\ Get(k)[2] = k /\ \A x : Get(k) # Put(x) /\ (Get(k) = Get(x) => k = x)
  BY OpsOf DEF Remembers
<1>2. r.kind = "accept" => m[Listg(r)] = c[Listg(r)]
  BY DEF Remembers, First
<1> QED  BY <1>1, <1>2 DEF May

LEMMA MaySpend ==
  ASSUME NEW r, NEW m
  PROVE  May(r, Put(Nonce(r)), m) <=> (r.kind = "confirm-complete" => AllDone(r.id, m[Deall(r)]))
<1>1. \A x : Put(Nonce(r)) # Get(x)
  BY OpsOf
<1> QED  BY <1>1 DEF May

LEMMA MayFree ==
  ASSUME NEW r, NEW op, ~Asks(r, op), NEW m
  PROVE  May(r, op, m)
<1>1. op # Put(Nonce(r)) /\ op # Get(Nonce(r)) /\ op # Get(Deall(r)) /\ op # Get(First(r))
      /\ \A k \in FrontKeys(r) : op # Get(k)
  BY DEF Asks
<1>2. CASE r.kind \in {"claim", "cancel-listing"}
  BY <1>1, <1>2 DEF May, First
<1>3. CASE r.kind = "list"
  <2>1. op \notin {Get(TheListing(l)) : l \in Listings} /\ op # Get(Listg(r)) /\ op # Get(Passp(r))
    BY <1>1, <1>3 DEF FrontKeys, First
  <2> QED  BY <1>1, <1>3, <2>1 DEF May
<1>4. CASE r.kind \in {"offer", "accept", "reject"}
  BY <1>1, <1>4 DEF May, First, FrontKeys
<1>5. CASE r.kind \in {"transfer-intent", "transfer-accept", "payment-evidence"}
  BY <1>1, <1>5 DEF May, FrontKeys
<1>6. CASE r.kind \notin {"claim", "cancel-listing", "list", "offer", "accept", "reject",
                          "transfer-intent", "transfer-accept", "payment-evidence"}
  BY <1>1, <1>6 DEF May
<1> QED  BY <1>2, <1>3, <1>4, <1>5, <1>6

LEMMA NewSame ==
  ASSUME NEW r, NEW c, NEW m, Remembers(r, c, m), NEW k,
         r.kind = "accept" \/ Needs(r, k) \in DOMAIN m
  PROVE  New(r, k, m) = New(r, k, c)
<1>1. CASE r.kind = "accept"
  BY <1>1 DEF New
<1>2. CASE r.kind # "accept" /\ k \in DOMAIN m
  <2>1. m[k] = c[k]
    BY <1>2 DEF Remembers
  <2>2. r.kind = "deal-cancel" => m[Deall(r)] = c[Deall(r)]
    BY DEF Remembers, First
  <2> QED  BY <2>1, <2>2 DEF New
<1>3. CASE r.kind # "accept" /\ k \notin DOMAIN m
  <2>1. r.kind = "payment-evidence"
    BY <1>3 DEF Needs
  <2>2. k # Deall(r)
    BY <1>3, <2>1 DEF Remembers, First
  <2> QED  BY <2>1, <2>2 DEF New
<1> QED  BY <1>1, <1>2, <1>3

LEMMA ValueIs ==
  ASSUME NEW r \in Requests, NEW c
  PROVE  /\ \A k \in Puts(r) : Value(r, c, k) = New(r, k, c)
         /\ Value(r, c, Nonce(r)) = TRUE
         /\ Value(r, c, Index) = c[Index] \cup {r.id}
         /\ r.kind = "offer" => Value(r, c, OffersOn(L(r))) = c[OffersOn(L(r))] \cup {r.id}
<1>1. \A k \in Puts(r) : k[1] # "listings" /\ k[1] # "offers"
  BY RequestKeys, KeyTags DEF Puts, Kinds
<1>2. Nonce(r) # Index /\ Nonce(r) # OffersOn(L(r)) /\ Index # OffersOn(L(r))
      /\ \A k : k[1] # "listings" /\ k[1] # "offers" => k # Index /\ k # OffersOn(L(r))
  BY KeyTags
<1>3. PICK v : v = New(r, Nonce(r), c)
  OBVIOUS
<1>4. v = TRUE
  BY <1>3 DEF New, Nonce, Passp, Listg, Offr, Deall, PassportOf, TheListing, TheOffer, TheDeal, PayTx
<1>5. Value(r, c, Nonce(r)) = v
  BY <1>2, <1>3 DEF Value
<1>6. \A k \in Puts(r) : Value(r, c, k) = New(r, k, c)
  BY <1>1, <1>2 DEF Value
<1>7. Value(r, c, Index) = c[Index] \cup {r.id}
  BY DEF Value
<1>8. r.kind = "offer" => Value(r, c, OffersOn(L(r))) = c[OffersOn(L(r))] \cup {r.id}
  BY <1>2 DEF Value
<1>9. Value(r, c, Nonce(r)) = TRUE
  BY <1>4, <1>5
<1> QED  BY <1>6, <1>7, <1>8, <1>9

\* The store v with x at k.
Stored(v, k, x) == [v EXCEPT ![k] = x]

LEMMA StoreStep ==
  ASSUME NEW r, NEW c, NEW X, NEW k \in Keys
  PROVE  Stored(StoreAt(r, c, X), k, Value(r, c, k)) = StoreAt(r, c, X \cup {k})
BY DEF StoreAt, Stored

LEMMA StoreNone ==
  ASSUME NEW r, NEW c, Shaped(c)
  PROVE  StoreAt(r, c, {}) = c
BY DEF StoreAt, Shaped

-----------------------------------------------------------------------------
(* The operations that are added.                                          *)

\* The rows that a read of the index adds.
Rows(r, c, k) ==
  IF r.kind = "list" /\ k = Index THEN SetToSeq({Get(TheListing(l)) : l \in c[Index]}) ELSE <<>>

\* What a read of the front adds.
LEMMA AddsFront ==
  ASSUME NEW r, NEW c, NEW m, NEW k \in FrontKeys(r) \cup {Nonce(r)}, m[k] = c[k]
  PROVE  Adds(r, Get(k), m) = Rows(r, c, k)
<1>1. Get(k)[2] = k /\ \A x : Get(k) # Put(x) /\ (Get(k) = Get(x) => k = x)
  BY OpsOf
<1>2. CASE r.kind = "list"
  BY <1>1, <1>2 DEF Adds, Rows
<1>3. CASE r.kind = "accept"
  <2>1. k \in {Offr(r), Nonce(r)}
    BY <1>3 DEF FrontKeys
  <2>2. k # OffersOn(L(r)) /\ \A o \in Offers \ {r.id} : k # TheOffer(o)
    BY <2>1, KeyTags, KeysDiffer
  <2>3. Get(k) \notin {Get(TheOffer(o)) : o \in Offers \ {r.id}} /\ Get(k) # Get(OffersOn(L(r)))
    BY <1>1, <2>2
  <2> QED  BY <1>3, <2>3 DEF Adds, Rows
<1>4. CASE r.kind = "transfer-intent"
  <2>1. k \in {Passp(r), Nonce(r)}
    BY <1>4 DEF FrontKeys
  <2>2. Get(k) # Get(Listg(r))
    BY <1>1, <2>1, KeyTags
  <2> QED  BY <1>4, <2>2 DEF Adds, Rows
<1>5. CASE r.kind \notin {"list", "accept", "transfer-intent"}
  BY <1>1, <1>5 DEF Adds, Rows
<1> QED  BY <1>2, <1>3, <1>4, <1>5

\* What spending the nonce adds.
LEMMA AddsSpend ==
  ASSUME NEW r, NEW c, NEW m, Remembers(r, c, m)
  PROVE  Adds(r, Put(Nonce(r)), m) = Closing(r, c)
<1>1. \A x : Put(Nonce(r)) # Get(x)
  BY OpsOf
<1>2. CASE r.kind = "confirm-complete"
  <2>1. m[Deall(r)] = c[Deall(r)]
    BY <1>2 DEF Remembers, First
  <2>2. Completes(r, m) <=> Completes(r, c)
    BY <2>1 DEF Completes
  <2> QED  BY <1>1, <1>2, <2>2 DEF Adds, Closing
<1>3. CASE r.kind # "confirm-complete"
  <2>1. Put(Nonce(r)) \notin {Get(TheOffer(o)) : o \in Offers \ {r.id}}
    BY <1>1
  <2> QED  BY <1>1, <1>3, <2>1 DEF Adds, Closing
<1> QED  BY <1>2, <1>3

-----------------------------------------------------------------------------
(* What each handler writes, and what an operation after the nonce adds.   *)

LEMMA LeftOf ==
  ASSUME NEW r, NEW c
  PROVE  /\ \A a : Left(r, c, <<a>>) = Leads(r, c, a)
         /\ \A a, b : Left(r, c, <<a, b>>) = Leads(r, c, a) \cup Leads(r, c, b)
         /\ \A a, b, d : Left(r, c, <<a, b, d>>) = Leads(r, c, a) \cup Leads(r, c, b) \cup Leads(r, c, d)
         /\ \A a, b, d, e : Left(r, c, <<a, b, d, e>>) =
              Leads(r, c, a) \cup Leads(r, c, b) \cup Leads(r, c, d) \cup Leads(r, c, e)
         /\ \A a, b, d, e, f, g : Left(r, c, <<a, b, d, e, f, g>>) =
              Leads(r, c, a) \cup Leads(r, c, b) \cup Leads(r, c, d)
              \cup Leads(r, c, e) \cup Leads(r, c, f) \cup Leads(r, c, g)
<1>1. ASSUME NEW a PROVE Left(r, c, <<a>>) = Leads(r, c, a)
  BY DEF Left
<1>2. ASSUME NEW a, NEW b PROVE Left(r, c, <<a, b>>) = Leads(r, c, a) \cup Leads(r, c, b)
  BY DEF Left
<1>3. ASSUME NEW a, NEW b, NEW d
      PROVE  Left(r, c, <<a, b, d>>) = Leads(r, c, a) \cup Leads(r, c, b) \cup Leads(r, c, d)
  BY DEF Left
<1>4. ASSUME NEW a, NEW b, NEW d, NEW e
      PROVE  Left(r, c, <<a, b, d, e>>) =
               Leads(r, c, a) \cup Leads(r, c, b) \cup Leads(r, c, d) \cup Leads(r, c, e)
  BY DEF Left
<1>5. ASSUME NEW a, NEW b, NEW d, NEW e, NEW f, NEW g
      PROVE  Left(r, c, <<a, b, d, e, f, g>>) =
               Leads(r, c, a) \cup Leads(r, c, b) \cup Leads(r, c, d)
               \cup Leads(r, c, e) \cup Leads(r, c, f) \cup Leads(r, c, g)
  BY DEF Left
<1> QED  BY <1>1, <1>2, <1>3, <1>4, <1>5

\* The read of the listing's offers, and of one of them.
LEMMA OfferLeads ==
  ASSUME NEW r, r.kind = "accept", NEW c
  PROVE  /\ Leads(r, c, Get(OffersOn(L(r)))) = Superseded(r, c)
         /\ \A o \in Offers \ {r.id} :
              Leads(r, c, Get(TheOffer(o))) = {k \in {TheOffer(o)} : c[k] = "PENDING"}
<1>1. /\ \A k : Get(k)[1] = "get" /\ Get(k)[2] = k
      /\ \A x, k : Get(x) = Get(k) <=> x = k
      /\ \A o : OffersOn(L(r)) # TheOffer(o) /\ (\A p : TheOffer(o) = TheOffer(p) => o = p)
  <2>1. \A o : OffersOn(L(r)) # TheOffer(o)
    BY KeyTags
  <2>2. \A o, p : TheOffer(o) = TheOffer(p) => o = p
    BY DEF TheOffer
  <2> QED  BY <2>1, <2>2, OpsOf
<1>2. Leads(r, c, Get(OffersOn(L(r)))) = Superseded(r, c)
  BY <1>1 DEF Leads
<1>3. ASSUME NEW o \in Offers \ {r.id}
      PROVE  Leads(r, c, Get(TheOffer(o))) = {k \in {TheOffer(o)} : c[k] = "PENDING"}
  BY <1>1, <1>3 DEF Leads
<1> QED  BY <1>2, <1>3

LEMMA ListingLeads ==
  ASSUME NEW r, r.kind = "transfer-intent", NEW c
  PROVE  Leads(r, c, Get(Listg(r))) = {k \in {Listg(r)} : c[k].status = "OFFER_ACCEPTED"}
BY OpsOf DEF Leads

LEMMA WritesAre ==
  ASSUME NEW r \in Requests, NEW c
  PROVE  /\ r.kind = "claim" => Writes(r, c) = {Nonce(r), Passp(r)}
         /\ r.kind = "list" => Writes(r, c) = {Nonce(r), Listg(r), Index, Passp(r)}
         /\ r.kind = "cancel-listing" => Writes(r, c) = {Nonce(r), Listg(r), Passp(r)}
         /\ r.kind = "offer" => Writes(r, c) = {Nonce(r), Offr(r), OffersOn(L(r))}
         /\ r.kind = "accept" =>
              Writes(r, c) = {Nonce(r), Offr(r), Listg(r), Deall(r)} \cup Superseded(r, c)
         /\ r.kind = "reject" => Writes(r, c) = {Nonce(r), Offr(r)}
         /\ r.kind = "transfer-intent" =>
              Writes(r, c) = {Nonce(r), Deall(r)} \cup {k \in {Listg(r)} : c[k].status = "OFFER_ACCEPTED"}
         /\ r.kind = "transfer-accept" => Writes(r, c) = {Nonce(r), Deall(r), Passp(r)}
         /\ r.kind = "fee-right-evidence" => Writes(r, c) = {Deall(r)}
         /\ r.kind = "payment-evidence" => Writes(r, c) = {PayTx(r.tx), Deall(r)}
         /\ r.kind \in {"confirm-payment", "confirm-asset"} => Writes(r, c) = {Nonce(r), Deall(r)}
         /\ r.kind = "confirm-complete" =>
              Writes(r, c) = {Nonce(r), Deall(r)}
                             \cup {k \in {Listg(r), Passp(r)} : Completes(r, c)}
         /\ r.kind = "deal-cancel" => Writes(r, c) = {Nonce(r), Listg(r), Offr(r), Passp(r)}
<1>1. r.kind # "confirm-complete" \/ ~Completes(r, c) => Left(r, c, Closing(r, c)) = {}
  BY ClosingTame
<1>2. \A k : Leads(r, c, Put(k)) = {k} /\ Leads(r, c, Add(k)) = {k}
  BY PutLeads
<1>3. r.kind \notin {"accept", "transfer-intent"} => \A k : Leads(r, c, Get(k)) = {}
  BY GetLeads
<1>4. r.kind \notin {"fee-right-evidence", "payment-evidence"} => Nonces(r) = {Nonce(r)}
  BY DEF Nonces, HasNonce
<1>5. r.kind \in {"fee-right-evidence", "payment-evidence"} => Nonces(r) = {}
  BY DEF Nonces, HasNonce
<1>6. CASE r.kind \in {"claim", "reject", "confirm-payment", "confirm-asset", "fee-right-evidence"}
  <2>1. \E k : /\ Left(r, c, Rest(r)) = {k}
               /\ k = IF r.kind = "claim" THEN Passp(r) ELSE IF r.kind = "reject" THEN Offr(r) ELSE Deall(r)
    BY <1>2, <1>6, LeftOf DEF Rest
  <2> QED  BY <1>1, <1>4, <1>5, <1>6, <2>1 DEF Writes
<1>7. CASE r.kind = "list"
  <2>1. Left(r, c, Rest(r)) = {Listg(r), Index, Passp(r)}
    BY <1>2, <1>7, LeftOf DEF Rest
  <2> QED  BY <1>1, <1>4, <1>7, <2>1 DEF Writes
<1>8. CASE r.kind = "cancel-listing"
  <2>1. Left(r, c, Rest(r)) = {Listg(r), Passp(r)}
    BY <1>2, <1>3, <1>8, LeftOf DEF Rest
  <2> QED  BY <1>1, <1>4, <1>8, <2>1 DEF Writes
<1>9. CASE r.kind = "offer"
  <2>1. Left(r, c, Rest(r)) = {Offr(r), OffersOn(L(r))}
    BY <1>2, <1>9, LeftOf DEF Rest
  <2> QED  BY <1>1, <1>4, <1>9, <2>1 DEF Writes
<1>10. CASE r.kind = "accept"
  <2>1. Left(r, c, Rest(r)) = Superseded(r, c) \cup {Offr(r), Listg(r), Deall(r)}
    BY <1>2, <1>10, LeftOf, OfferLeads DEF Rest
  <2> QED  BY <1>1, <1>4, <1>10, <2>1 DEF Writes
<1>11. CASE r.kind = "transfer-intent"
  <2>1. Left(r, c, Rest(r)) = {Deall(r)} \cup {k \in {Listg(r)} : c[k].status = "OFFER_ACCEPTED"}
    BY <1>2, <1>11, LeftOf, ListingLeads DEF Rest
  <2> QED  BY <1>1, <1>4, <1>11, <2>1 DEF Writes
<1>12. CASE r.kind = "transfer-accept"
  <2>1. Left(r, c, Rest(r)) = {Deall(r), Passp(r)}
    BY <1>2, <1>12, LeftOf DEF Rest
  <2> QED  BY <1>1, <1>4, <1>12, <2>1 DEF Writes
<1>13. CASE r.kind = "payment-evidence"
  <2>1. Left(r, c, Rest(r)) = {PayTx(r.tx), Deall(r)}
    BY <1>2, <1>13, LeftOf DEF Rest
  <2> QED  BY <1>1, <1>5, <1>13, <2>1 DEF Writes
<1>14. CASE r.kind = "confirm-complete"
  <2>1. Left(r, c, Rest(r)) = {Deall(r)}
    BY <1>2, <1>14, LeftOf DEF Rest
  <2>2. Left(r, c, Closing(r, c)) = {k \in {Listg(r), Passp(r)} : Completes(r, c)}
    BY <1>1, <1>14, ClosingTame
  <2> QED  BY <1>4, <1>14, <2>1, <2>2 DEF Writes
<1>15. CASE r.kind = "deal-cancel"
  <2>1. Left(r, c, Rest(r)) = {Listg(r), Offr(r), Passp(r)}
    BY <1>2, <1>3, <1>15, LeftOf DEF Rest
  <2> QED  BY <1>1, <1>4, <1>15, <2>1 DEF Writes
<1> QED  BY <1>6, <1>7, <1>8, <1>9, <1>10, <1>11, <1>12, <1>13, <1>14, <1>15, RequestKeys DEF Kinds

\* What an operation after the nonce adds, a: what a read leads to.
Adding(r, c, op, a) ==
  /\ Tame(r, c, a)
  /\ Left(r, c, a) = {k \in Leads(r, c, op) : op[1] = "get"}
  /\ \A x, y \in Keys : Precedes(r, x, y) => x \notin Left(r, c, a)

LEMMA AddsNone ==
  ASSUME NEW r, NEW c, NEW op, op[1] = "get" => Leads(r, c, op) = {}
  PROVE  Adding(r, c, op, <<>>)
<1>1. Left(r, c, <<>>) = {} /\ Tame(r, c, <<>>)
  BY DEF Left, Tame
<1> QED  BY <1>1 DEF Adding

\* One write, of what was read.
LEMMA AddsOne ==
  ASSUME NEW r, NEW c, NEW k \in Keys, k # Nonce(r), Leads(r, c, Get(k)) = {k},
         \A x, y \in Keys : Precedes(r, x, y) => x # k
  PROVE  Adding(r, c, Get(k), <<Put(k)>>)
<1>1. PICK q : q = <<Put(k)>>
  OBVIOUS
<1>2. q \in Seq(Ops) /\ DOMAIN q = {1} /\ q[1] = Put(k) /\ q[1][1] = "put"
  BY <1>1, OpsOf
<1>3. Leads(r, c, Put(k)) = {k}
  BY PutLeads
<1>4. Left(r, c, q) = {k}
  BY <1>1, <1>3, LeftOf
<1>5. ~Asks(r, q[1])
  BY <1>2, NotAsked
<1>6. Tame(r, c, q)
  BY <1>2, <1>5, TameBy
<1>7. Left(r, c, q) = {x \in Leads(r, c, Get(k)) : Get(k)[1] = "get"}
  BY <1>4, OpsOf
<1> QED  BY <1>1, <1>4, <1>6, <1>7 DEF Adding

\* The other offers on the listing.
LEMMA AddsRows ==
  ASSUME NEW r \in Requests, r.kind = "accept", NEW c, Shaped(c)
  PROVE  Adding(r, c, Get(OffersOn(L(r))), SetToSeq({Get(TheOffer(o)) : o \in c[OffersOn(L(r))] \ {r.id}}))
<1>1. PICK S : S = c[OffersOn(L(r))] \ {r.id}
  OBVIOUS
<1>2. L(r) \in Listings
  BY RequestKeys
<1>3. S \subseteq Offers \ {r.id} /\ IsFiniteSet(S)
  BY <1>1, <1>2, FS_Subset DEF Shaped
<1>4. PICK R : R = {Get(TheOffer(o)) : o \in S}
  OBVIOUS
<1>5. IsFiniteSet(R)
  BY <1>3, <1>4, ImagesAreFinite
<1>6. PICK a : a = SetToSeq(R)
  OBVIOUS
<1>7. /\ a \in Seq(R)
      /\ \A x \in R : \E j \in DOMAIN a : a[j] = x
      /\ \A i, j \in DOMAIN a : a[i] = a[j] => i = j
  BY <1>5, <1>6, EachOnce
<1>8. \A o \in S : TheOffer(o) \in Keys /\ Get(TheOffer(o)) \in Ops
  <2>1. \A o \in S : TheOffer(o) \in Keys
    BY <1>3 DEF Keys
  <2> QED  BY <2>1, OpsOf
<1>9. R \subseteq Ops
  BY <1>4, <1>8
<1>10. a \in Seq(Ops)
  BY <1>7, <1>9
<1>11. \A j \in DOMAIN a : \E o \in S : a[j] = Get(TheOffer(o))
  BY <1>4, <1>7
<1>12. \A o \in S : \E j \in DOMAIN a : a[j] = Get(TheOffer(o))
  BY <1>4, <1>7
<1>13. \A o \in S : Leads(r, c, Get(TheOffer(o))) = {k \in {TheOffer(o)} : c[k] = "PENDING"}
  BY <1>3, OfferLeads
<1>14. \A o \in S : ~Asks(r, Get(TheOffer(o)))
  <2>1. First(r) = Listg(r) /\ FrontKeys(r) = {Offr(r)}
    BY DEF First, FrontKeys
  <2>2. \A o \in S : TheOffer(o) \notin {First(r), Deall(r), Nonce(r)} \cup FrontKeys(r)
    BY <1>3, <2>1, KeysDiffer
  <2> QED  BY <2>2, NotAsked
<1>15. \A o, p : TheOffer(o) = TheOffer(p) => o = p
  BY DEF TheOffer
<1>16. ASSUME NEW i \in DOMAIN a, NEW j \in DOMAIN a, Leads(r, c, a[i]) \cap Leads(r, c, a[j]) # {}
       PROVE  i = j
  <2>1. PICK o \in S, p \in S : a[i] = Get(TheOffer(o)) /\ a[j] = Get(TheOffer(p))
    BY <1>11
  <2>2. TheOffer(o) = TheOffer(p)
    BY <1>13, <1>16, <2>1
  <2> QED  BY <1>7, <2>1, <2>2
<1>17. ASSUME NEW o \in S, TheOffer(o) \in Writes(r, c)
       PROVE  TheOffer(o) \in Leads(r, c, Get(TheOffer(o)))
  <2>1. Writes(r, c) = {Nonce(r), Offr(r), Listg(r), Deall(r)} \cup Superseded(r, c)
    BY WritesAre
  <2>2. TheOffer(o) \in Superseded(r, c)
    BY <1>3, <1>17, <2>1, KeysDiffer
  <2>3. c[TheOffer(o)] = "PENDING"
    BY <2>2 DEF Superseded
  <2> QED  BY <1>13, <2>3
<1>18. \A j \in DOMAIN a : a[j][2] \in Writes(r, c) => \E h \in DOMAIN a : h >= j /\ a[j][2] \in Leads(r, c, a[h])
  <2>1. ASSUME NEW j \in DOMAIN a, a[j][2] \in Writes(r, c)
        PROVE  j >= j /\ a[j][2] \in Leads(r, c, a[j])
    <3>1. PICK o \in S : a[j] = Get(TheOffer(o))
      BY <1>11
    <3>2. a[j][2] = TheOffer(o) /\ j \in Nat
      BY <1>10, <3>1, OpsOf
    <3> QED  BY <1>17, <2>1, <3>1, <3>2
  <2> QED  BY <2>1
<1>19. Tame(r, c, a)
  <2>1. \A j \in DOMAIN a : ~Asks(r, a[j])
    BY <1>11, <1>14
  <2> QED  BY <1>10, <1>16, <1>18, <2>1, TameBy
<1>20. Left(r, c, a) = Superseded(r, c)
  <2>1. Superseded(r, c) = {TheOffer(o) : o \in {x \in S : c[TheOffer(x)] = "PENDING"}}
    BY <1>1 DEF Superseded
  <2>2. ASSUME NEW k \in Left(r, c, a)
        PROVE  k \in Superseded(r, c)
    <3>1. PICK j \in DOMAIN a : k \in Leads(r, c, a[j])
      BY <2>2 DEF Left
    <3>2. PICK o \in S : a[j] = Get(TheOffer(o))
      BY <1>11
    <3> QED  BY <1>13, <2>1, <3>1, <3>2
  <2>3. ASSUME NEW k \in Superseded(r, c)
        PROVE  k \in Left(r, c, a)
    <3>1. PICK o \in S : k = TheOffer(o) /\ c[k] = "PENDING"
      BY <2>1, <2>3
    <3>2. PICK j \in DOMAIN a : a[j] = Get(TheOffer(o))
      BY <1>12
    <3>3. k \in Leads(r, c, a[j])
      BY <1>13, <3>1, <3>2
    <3> QED  BY <3>3 DEF Left
  <2> QED  BY <2>2, <2>3
<1>21. Left(r, c, a) = {k \in Leads(r, c, Get(OffersOn(L(r)))) : Get(OffersOn(L(r)))[1] = "get"}
  BY <1>20, OfferLeads, OpsOf
<1>22. \A x, y : Precedes(r, x, y) => x \notin Superseded(r, c)
  <2>1. \A x, y : Precedes(r, x, y) => x = Offr(r)
    BY DEF Precedes
  <2>2. Offr(r) \notin Superseded(r, c)
    BY KeysDiffer DEF Superseded
  <2> QED  BY <2>1, <2>2
<1>23. Adding(r, c, Get(OffersOn(L(r))), a)
  BY <1>19, <1>20, <1>21, <1>22 DEF Adding
<1> QED  BY <1>1, <1>4, <1>6, <1>23

LEMMA AddsFree ==
  ASSUME NEW r \in Requests, NEW c, Shaped(c), NEW op \in Ops, ~Asks(r, op),
         NEW m, op[1] = "get" => m[op[2]] = c[op[2]]
  PROVE  Adding(r, c, op, Adds(r, op, m))
<1>1. op[2] \in Keys /\ (op[1] = "get" => op = Get(op[2]))
  BY DEF Ops, Get
<1>2. op # Get(First(r)) /\ op # Get(Nonce(r)) /\ op # Put(Nonce(r)) /\ \A k \in FrontKeys(r) : op # Get(k)
  BY DEF Asks
<1>3. \A k : op = Get(k) => op[1] = "get" /\ op[2] = k /\ m[k] = c[k]
  BY OpsOf
<1>4. CASE r.kind \notin {"accept", "transfer-intent"}
  <2>1. r.kind = "list" => op # Get(Index)
    BY <1>2 DEF FrontKeys
  <2>2. Adds(r, op, m) = <<>>
    BY <1>2, <1>4, <2>1 DEF Adds
  <2>3. op[1] = "get" => Leads(r, c, op) = {}
    BY <1>1, <1>4, GetLeads
  <2> QED  BY <2>2, <2>3, AddsNone
<1>5. CASE r.kind = "transfer-intent" /\ op = Get(Listg(r))
  <2>1. Listg(r) \in Keys /\ Listg(r) # Nonce(r) /\ op[2] = Listg(r) /\ m[Listg(r)] = c[Listg(r)]
    BY <1>3, <1>5, RequestKeys, KeyTags
  <2>2. CASE c[Listg(r)].status = "OFFER_ACCEPTED"
    <3>1. Adds(r, op, m) = <<Put(Listg(r))>>
      BY <1>5, <2>1, <2>2 DEF Adds
    <3>2. Leads(r, c, Get(Listg(r))) = {Listg(r)}
      BY <1>5, <2>2, ListingLeads
    <3>3. \A x, y : ~Precedes(r, x, y)
      BY <1>5 DEF Precedes
    <3> QED  BY <1>5, <2>1, <3>1, <3>2, <3>3, AddsOne
  <2>3. CASE c[Listg(r)].status # "OFFER_ACCEPTED"
    <3>1. Adds(r, op, m) = <<>>
      BY <1>5, <2>1, <2>3 DEF Adds
    <3>2. Leads(r, c, op) = {}
      BY <1>5, <2>3, ListingLeads
    <3> QED  BY <3>1, <3>2, AddsNone
  <2> QED  BY <2>2, <2>3
<1>6. CASE r.kind = "transfer-intent" /\ op # Get(Listg(r))
  <2>1. Adds(r, op, m) = <<>>
    BY <1>6 DEF Adds
  <2>2. op[1] = "get" => op[2] # Listg(r)
    BY <1>1, <1>6
  <2>3. op[1] = "get" => Leads(r, c, op) = {}
    BY <1>1, <1>6, <2>2, GetLeads
  <2> QED  BY <2>1, <2>3, AddsNone
<1>7. CASE r.kind = "accept" /\ op = Get(OffersOn(L(r)))
  <2>1. op[2] = OffersOn(L(r)) /\ m[OffersOn(L(r))] = c[OffersOn(L(r))]
    BY <1>3, <1>7
  <2>2. Adds(r, op, m) = SetToSeq({Get(TheOffer(o)) : o \in c[OffersOn(L(r))] \ {r.id}})
    BY <1>7, <2>1 DEF Adds
  <2> QED  BY <1>7, <2>2, AddsRows
<1>8. ASSUME r.kind = "accept", NEW o \in Offers \ {r.id}, op = Get(TheOffer(o))
      PROVE  Adding(r, c, op, Adds(r, op, m))
  <2>1. /\ TheOffer(o) \in Keys /\ TheOffer(o) # Nonce(r) /\ TheOffer(o) # Offr(r)
        /\ op[2] = TheOffer(o) /\ m[TheOffer(o)] = c[TheOffer(o)]
        /\ op # Get(OffersOn(L(r)))
    <3>1. TheOffer(o) \in Keys
      BY DEF Keys
    <3>2. TheOffer(o) # OffersOn(L(r))
      BY KeyTags
    <3> QED  BY <1>3, <1>8, <3>1, <3>2, KeysDiffer
  <2>2. Leads(r, c, Get(TheOffer(o))) = {k \in {TheOffer(o)} : c[k] = "PENDING"}
    BY <1>8, OfferLeads
  <2>3. Adds(r, op, m) = IF c[TheOffer(o)] = "PENDING" THEN <<Put(TheOffer(o))>> ELSE <<>>
    BY <1>8, <2>1 DEF Adds
  <2>4. \A x, y : Precedes(r, x, y) => x = Offr(r)
    BY <1>8 DEF Precedes
  <2>5. CASE c[TheOffer(o)] = "PENDING"
    <3>1. Leads(r, c, Get(TheOffer(o))) = {TheOffer(o)}
      BY <2>2, <2>5
    <3> QED  BY <1>8, <2>1, <2>3, <2>4, <2>5, <3>1, AddsOne
  <2>6. CASE c[TheOffer(o)] # "PENDING"
    <3>1. Leads(r, c, op) = {}
      BY <1>8, <2>2, <2>6
    <3> QED  BY <2>3, <2>6, <3>1, AddsNone
  <2> QED  BY <2>5, <2>6
<1>9. CASE r.kind = "accept" /\ op # Get(OffersOn(L(r))) /\ \A o \in Offers \ {r.id} : op # Get(TheOffer(o))
  <2>1. op \notin {Get(TheOffer(o)) : o \in Offers \ {r.id}}
    BY <1>9
  <2>2. Adds(r, op, m) = <<>>
    BY <1>9, <2>1 DEF Adds
  <2>3. op # Get(Offr(r)) /\ TheOffer(r.id) = Offr(r)
    BY <1>2, <1>9 DEF FrontKeys, Offr
  <2>4. op[1] = "get" => op[2] \notin {OffersOn(L(r))} \cup {TheOffer(o) : o \in Offers}
    BY <1>1, <1>9, <2>3
  <2>5. op[1] = "get" => Leads(r, c, op) = {}
    BY <1>1, <1>9, <2>4, GetLeads
  <2> QED  BY <2>2, <2>5, AddsNone
<1> QED  BY <1>4, <1>5, <1>6, <1>7, <1>8, <1>9

-----------------------------------------------------------------------------
(* Every operation takes the invocation on to the next of these stages, or  *)
(* to its end.                                                             *)

\* After op, the first of q, when it holds m and the store is v.
GoesWell(r, c, op, q, m, v) ==
  LET rest == Adds(r, op, m) \o Tail(q)
  IN IF ~May(r, op, m) \/ rest = <<>> THEN Ended(r, c, v) ELSE Stage(r, c, rest, m, v)

LEMMA StoreHas ==
  ASSUME NEW r, NEW c, NEW X, NEW k \in Keys
  PROVE  StoreAt(r, c, X)[k] = IF k \in X THEN Value(r, c, k) ELSE c[k]
BY DEF StoreAt

\* With p left to do and its reads behind it, it holds and stores what it should.
LEMMA NowWriting ==
  ASSUME NEW r, NEW c, NEW p, NEW m, NEW v,
         Granted(r, c), Tame(r, c, p), InOrder(r, c, p), Left(r, c, p) \subseteq Writes(r, c),
         v = StoreAt(r, c, Writes(r, c) \ Left(r, c, p)), Remembers(r, c, m)
  PROVE  IF p = <<>> THEN Ended(r, c, v) ELSE Stage(r, c, p, m, v)
<1>1. CASE p = <<>>
  <2>1. Left(r, c, p) = {}
    BY <1>1 DEF Left
  <2>2. Writes(r, c) \ Left(r, c, p) = Writes(r, c)
    BY <2>1
  <2> QED  BY <1>1, <2>2 DEF Ended
<1>2. CASE p # <<>>
  <2>1. Writing(r, c, p, v)
    BY DEF Writing
  <2>2. p \in Seq(Ops)
    BY DEF Tame
  <2> QED  BY <1>2, <2>1, <2>2 DEF Stage
<1> QED  BY <1>1, <1>2

\* An operation after the nonce, or of the evidence.
LEMMA WritingGoes ==
  ASSUME NEW r \in Requests, NEW c, Shaped(c), NEW q, q # <<>>, NEW v, Writing(r, c, q, v),
         NEW op, op = Head(q), NEW m, Remembers(r, c, m), op[1] = "get" => op[2] \in DOMAIN m,
         NEW w, w = IF op[1] = "get" THEN v ELSE Stored(v, op[2], Value(r, c, op[2]))
  PROVE  GoesWell(r, c, op, q, m, w)
<1>1. /\ Granted(r, c) /\ Tame(r, c, q) /\ InOrder(r, c, q) /\ Left(r, c, q) \subseteq Writes(r, c)
      /\ v = StoreAt(r, c, Writes(r, c) \ Left(r, c, q))
  BY DEF Writing
<1>2. q \in Seq(Ops)
  BY <1>1 DEF Tame
<1>3. op \in Ops
  BY <1>2, HeadThen
<1>4. PICK t : t = Tail(q)
  OBVIOUS
<1>5. /\ Tame(r, c, t) /\ Leads(r, c, op) \cap Left(r, c, t) = {} /\ InOrder(r, c, t) /\ ~Asks(r, op)
  BY <1>1, <1>4, TameTail
<1>6. Left(r, c, q) = Leads(r, c, op) \cup Left(r, c, t)
  BY <1>2, <1>4, LeftTail
<1>7. May(r, op, m)
  BY <1>5, MayFree
<1>8. PICK a : a = Adds(r, op, m)
  OBVIOUS
<1>9. op[1] = "get" => m[op[2]] = c[op[2]]
  BY DEF Remembers
<1>10. Adding(r, c, op, a)
  BY <1>3, <1>5, <1>8, <1>9, AddsFree
<1>11. /\ Tame(r, c, a) /\ Left(r, c, a) = {k \in Leads(r, c, op) : op[1] = "get"}
       /\ \A x, y \in Keys : Precedes(r, x, y) => x \notin Left(r, c, a)
  BY <1>10 DEF Adding
<1>12. PICK p : p = a \o t
  OBVIOUS
<1>13. Left(r, c, a) \cap Left(r, c, t) = {}
  BY <1>5, <1>11
<1>14. Tame(r, c, p) /\ InOrder(r, c, p)
  BY <1>5, <1>11, <1>12, <1>13, TameJoin
<1>15. Left(r, c, p) = Left(r, c, a) \cup Left(r, c, t)
  BY <1>5, <1>11, <1>12, LeftJoin DEF Tame
<1>16. Left(r, c, p) \subseteq Writes(r, c)
  BY <1>1, <1>6, <1>11, <1>15
<1>17. w = StoreAt(r, c, Writes(r, c) \ Left(r, c, p))
  <2>1. CASE op[1] = "get"
    <3>1. Left(r, c, p) = Left(r, c, q)
      BY <1>6, <1>11, <1>15, <2>1
    <3> QED  BY <1>1, <2>1, <3>1
  <2>2. CASE op[1] # "get"
    <3>1. Left(r, c, a) = {}
      BY <1>11, <2>2
    <3>2. PICK k \in Keys : k = op[2]
      BY <1>3 DEF Ops
    <3>3. Leads(r, c, op) = {k}
      <4>1. op = Put(k) \/ op = Add(k)
        BY <1>3, <2>2, <3>2 DEF Ops, Put, Add
      <4> QED  BY <4>1, PutLeads
    <3>4. (Writes(r, c) \ Left(r, c, q)) \cup {k} = Writes(r, c) \ Left(r, c, p)
      BY <1>1, <1>5, <1>6, <1>15, <3>1, <3>3
    <3>5. PICK X : X = Writes(r, c) \ Left(r, c, q)
      OBVIOUS
    <3>6. w = Stored(StoreAt(r, c, X), k, Value(r, c, k))
      BY <1>1, <2>2, <3>2, <3>5
    <3>7. w = StoreAt(r, c, X \cup {k})
      BY <3>6, StoreStep
    <3> QED  BY <3>4, <3>5, <3>7
  <2> QED  BY <2>1, <2>2
<1>18. IF p = <<>> THEN Ended(r, c, w) ELSE Stage(r, c, p, m, w)
  BY <1>1, <1>14, <1>16, <1>17, NowWriting
<1> QED  BY <1>4, <1>7, <1>8, <1>12, <1>18 DEF GoesWell

\* What it reads and writes there is of its base.
LEMMA WritingReads ==
  ASSUME NEW r, NEW c, NEW q, q # <<>>, NEW v, Writing(r, c, q, v), NEW k \in Keys,
         Head(q) = Get(k) \/ Head(q) = Add(k)
  PROVE  v[k] = c[k]
<1>1. q \in Seq(Ops) /\ Tame(r, c, q)
  BY DEF Writing, Tame
<1>2. k \notin Writes(r, c) \ Left(r, c, q)
  <2>1. CASE Head(q) = Get(k)
    <3>1. Head(q)[1] = "get" /\ Head(q)[2] \in Writes(r, c) => Head(q)[2] \in Left(r, c, q)
      BY <1>1, TameTail
    <3>2. Head(q)[1] = "get" /\ Head(q)[2] = k
      BY <2>1, OpsOf
    <3> QED  BY <3>1, <3>2
  <2>2. CASE Head(q) = Add(k)
    <3>1. Leads(r, c, Head(q)) = {k}
      BY <2>2, PutLeads
    <3>2. Left(r, c, q) = Leads(r, c, Head(q)) \cup Left(r, c, Tail(q))
      BY <1>1, LeftTail
    <3> QED  BY <3>1, <3>2
  <2> QED  BY <2>1, <2>2
<1> QED  BY <1>2, StoreHas DEF Writing

\* The nonce is spent.
LEMMA SpendingGoes ==
  ASSUME NEW r \in Requests, NEW c, Shaped(c), NEW q, q # <<>>, NEW v, Spending(r, c, q, v),
         NEW m, Remembers(r, c, m), Deall(r) \in DOMAIN m \/ r.kind # "confirm-complete",
         NEW w, w = Stored(v, Nonce(r), Value(r, c, Nonce(r)))
  PROVE  Head(q) = Put(Nonce(r)) /\ GoesWell(r, c, Put(Nonce(r)), q, m, w)
<1>1. v = c /\ Cleared(r, c) /\ HasNonce(r) /\ q = <<Put(Nonce(r))>> \o Rest(r)
  BY DEF Spending
<1>2. Nonce(r) \in Keys /\ Put(Nonce(r)) \in Ops
  BY RequestKeys, OpsOf
<1>3. PICK p, t : p = Put(Nonce(r)) /\ t = Rest(r)
  OBVIOUS
<1>4. t \in Seq(Ops) /\ Tame(r, c, t) /\ InOrder(r, c, t) /\ Nonce(r) \notin Left(r, c, t)
  BY <1>3, RestTame DEF RestIs, Tame
<1>5. Head(q) = p /\ Tail(q) = t
  BY <1>1, <1>2, <1>3, <1>4, OneThen
<1>6. v = StoreAt(r, c, {})
  BY <1>1, StoreNone
<1>7. w = StoreAt(r, c, {Nonce(r)})
  <2>1. PICK k \in Keys : k = Nonce(r)
    BY <1>2
  <2>2. w = Stored(StoreAt(r, c, {}), k, Value(r, c, k))
    BY <1>6, <2>1
  <2>3. w = StoreAt(r, c, {} \cup {k})
    BY <2>2, StoreStep
  <2>4. {} \cup {k} = {Nonce(r)}
    BY <2>1
  <2> QED  BY <2>3, <2>4
<1>8. Adds(r, p, m) = Closing(r, c)
  BY <1>3, AddsSpend
<1>9. CASE ~May(r, p, m)
  <2>1. Ended(r, c, w)
    BY <1>7 DEF Ended, Spending
  <2> QED  BY <1>3, <1>5, <1>9, <2>1 DEF GoesWell
<1>10. CASE May(r, p, m)
  <2>1. Granted(r, c)
    <3>1. r.kind = "confirm-complete" => m[Deall(r)] = c[Deall(r)]
      BY DEF Remembers
    <3> QED  BY <1>1, <1>3, <1>10, <3>1, MaySpend DEF Granted
  <2>2. PICK a : a = Closing(r, c)
    OBVIOUS
  <2>3. /\ Tame(r, c, a) /\ Left(r, c, a) \cap Left(r, c, t) = {} /\ Nonce(r) \notin Left(r, c, a)
        /\ \A x, y : ~(Precedes(r, x, y) /\ x \in Left(r, c, a))
    BY <1>3, <2>2, ClosingTame
  <2>4. PICK x : x = a \o t
    OBVIOUS
  <2>5. Tame(r, c, x) /\ InOrder(r, c, x)
    BY <1>4, <2>3, <2>4, TameJoin
  <2>6. Left(r, c, x) = Left(r, c, a) \cup Left(r, c, t)
    BY <1>4, <2>3, <2>4, LeftJoin DEF Tame
  <2>7. Writes(r, c) = {Nonce(r)} \cup Left(r, c, a) \cup Left(r, c, t)
    BY <1>1, <1>3, <2>2 DEF Writes, Nonces
  <2>8. Writes(r, c) \ Left(r, c, x) = {Nonce(r)} /\ Left(r, c, x) \subseteq Writes(r, c)
    BY <1>4, <2>3, <2>6, <2>7
  <2>9. IF x = <<>> THEN Ended(r, c, w) ELSE Stage(r, c, x, m, w)
    BY <1>7, <2>1, <2>5, <2>8, NowWriting
  <2> QED  BY <1>3, <1>5, <1>8, <1>10, <2>2, <2>4, <2>9 DEF GoesWell
<1> QED  BY <1>3, <1>5, <1>9, <1>10

\* m with what the store v has at k.
Found(m, k, v) == Learn(m, k, v[k])

LEMMA LearnRight ==
  ASSUME NEW r, NEW c, NEW m, Remembers(r, c, m), NEW k \in Keys
  PROVE  /\ Remembers(r, c, Found(m, k, c)) /\ DOMAIN Found(m, k, c) = {k} \cup DOMAIN m
         /\ Found(m, k, c)[k] = c[k]
BY DEF Remembers, Learn, Found

LEMMA AllAsked ==
  ASSUME NEW r, NEW c, NEW m, Unasked(r, c, m) = {}, \A k \in DOMAIN m : May(r, Get(k), c)
  PROVE  Cleared(r, c)
<1>1. CASE r.kind = "list"
  <2>1. Index \in MustRead(r, c) /\ \A l : Index # TheListing(l)
    BY <1>1, KeyTags DEF MustRead
  <2>2. Index \in DOMAIN m
    BY <2>1 DEF Unasked
  <2>3. MustRead(r, c) \subseteq DOMAIN m
    BY <2>2 DEF Unasked
  <2> QED  BY <2>3 DEF Cleared
<1>2. CASE r.kind # "list"
  <2>1. MustRead(r, c) \subseteq DOMAIN m
    BY <1>2 DEF Unasked
  <2> QED  BY <2>1 DEF Cleared
<1> QED  BY <1>1, <1>2

\* A handler without a nonce goes on to write when all is read.
LEMMA RestStage ==
  ASSUME NEW r \in Requests, NEW c, Shaped(c), ~HasNonce(r), Cleared(r, c), NEW m, Remembers(r, c, m)
  PROVE  Stage(r, c, Rest(r), m, c)
<1>1. Tame(r, c, Rest(r)) /\ InOrder(r, c, Rest(r)) /\ Rest(r) # <<>>
  BY RestTame DEF RestIs
<1>2. r.kind # "confirm-complete"
  BY DEF HasNonce
<1>3. Granted(r, c)
  BY <1>2 DEF Granted
<1>4. Left(r, c, Closing(r, c)) = {}
  BY <1>2, ClosingTame
<1>5. Writes(r, c) = Left(r, c, Rest(r))
  BY <1>4 DEF Writes, Nonces
<1>6. Writes(r, c) \ Left(r, c, Rest(r)) = {} /\ Left(r, c, Rest(r)) \subseteq Writes(r, c)
  BY <1>5
<1>7. c = StoreAt(r, c, Writes(r, c) \ Left(r, c, Rest(r)))
  BY <1>6, StoreNone
<1> QED  BY <1>1, <1>3, <1>6, <1>7, NowWriting

\* With a left to read, and then the nonce and the rest.
LEMMA ReadingOn ==
  ASSUME NEW r \in Requests, NEW c, Shaped(c), NEW m, Remembers(r, c, m),
         NEW a \in Seq(Ops), Asking(r, c, a, m)
  PROVE  Onward(r, a) # <<>> /\ Stage(r, c, Onward(r, a), m, c)
<1>1. PICK w : w = Spend(r) \o Rest(r)
  OBVIOUS
<1>2. w \in Seq(Ops) /\ w # <<>>
  BY <1>1, SpendRest
<1>3. a \o w \in Seq(Ops) /\ a \o w # <<>> /\ Onward(r, a) = a \o w
  BY <1>1, <1>2, JoinAt DEF Onward
<1>4. CASE a # <<>> \/ HasNonce(r)
  <2>1. Reading(r, c, a \o w, m, c)
    BY <1>3, <1>4 DEF Reading
  <2> QED  BY <1>3, <2>1 DEF Stage
<1>5. CASE a = <<>> /\ ~HasNonce(r)
  <2>1. a \o w = Rest(r)
    BY <1>1, <1>2, <1>5, SpendRest, ConcatEmptySeq
  <2>2. Unasked(r, c, m) = {} /\ \A k \in DOMAIN m : May(r, Get(k), c)
    BY <1>5 DEF Asking
  <2>3. Cleared(r, c)
    BY <2>2, AllAsked
  <2>4. Stage(r, c, Rest(r), m, c)
    BY <1>5, <2>3, RestStage
  <2> QED  BY <1>3, <2>1, <2>4
<1> QED  BY <1>4, <1>5

\* The read of k comes first in a.
Starts(a, k) == a \in Seq(Ops) /\ a # <<>> /\ Head(a) = Get(k)

\* Once k is read, what it adds and the rest of a read what is still asked for.
LEMMA AskingOn ==
  ASSUME NEW r \in Requests, NEW c, Shaped(c), NEW a, NEW k, Starts(a, k), NEW m, Asking(r, c, a, m),
         NEW n, DOMAIN n = {k} \cup DOMAIN m, May(r, Get(k), c)
  PROVE  /\ k \in FrontKeys(r) /\ Rows(r, c, k) \in Seq(Ops) /\ Rows(r, c, k) \o Tail(a) \in Seq(Ops)
         /\ Asking(r, c, Rows(r, c, k) \o Tail(a), n)
<1>3. a \in Seq(Ops) /\ a # <<>> /\ Head(a) = Get(k)
  BY DEF Starts
<1>4. PICK t : t = Tail(a)
  OBVIOUS
<1>5. /\ t \in Seq(Ops) /\ Head(a) = a[1] /\ 1 \in DOMAIN a
      /\ \A h \in DOMAIN t : h + 1 \in DOMAIN a /\ t[h] = a[h + 1]
      /\ \A j \in DOMAIN a : j \in Nat /\ (j = 1 \/ j - 1 \in DOMAIN t)
  BY <1>3, <1>4, TailAt
<1>6. k \in FrontKeys(r)
  BY <1>3, <1>5, OpsOf DEF Asking
<1>8. PICK b : b = Rows(r, c, k)
  OBVIOUS
<1>9. b = IF r.kind = "list" /\ k = Index THEN SetToSeq({Get(TheListing(l)) : l \in c[Index]}) ELSE <<>>
  BY <1>8 DEF Rows
<1>10. b \in Seq(Ops) /\ \A h \in DOMAIN b : \E x \in FrontKeys(r) : b[h] = Get(x)
  <2>1. CASE r.kind = "list" /\ k = Index
    <3>1. c[Index] \subseteq Listings /\ IsFiniteSet(c[Index])
      BY DEF Shaped
    <3>2. PICK R : R = {Get(TheListing(l)) : l \in c[Index]}
      OBVIOUS
    <3>3. b \in Seq(R)
      BY <1>9, <2>1, <3>1, <3>2, ImagesAreFinite, EachOnce
    <3>4. \A l \in Listings : TheListing(l) \in Keys /\ TheListing(l) \in FrontKeys(r)
      BY <2>1 DEF Keys, FrontKeys
    <3>5. R \subseteq Ops /\ \A x \in R : \E y \in FrontKeys(r) : x = Get(y)
      BY <3>1, <3>2, <3>4, OpsOf
    <3>6. b \in Seq(Ops) /\ \A h \in DOMAIN b : b[h] \in R
      BY <3>3, <3>5
    <3> QED  BY <3>5, <3>6
  <2>2. CASE ~(r.kind = "list" /\ k = Index)
    BY <1>9, <2>2
  <2> QED  BY <2>1, <2>2
<1>11. r.kind = "list" /\ k = Index => \A l \in c[Index] : \E h \in DOMAIN b : b[h] = Get(TheListing(l))
  <2> SUFFICES ASSUME r.kind = "list" /\ k = Index, NEW l \in c[Index]
               PROVE  \E h \in DOMAIN b : b[h] = Get(TheListing(l))
    OBVIOUS
  <2>1. IsFiniteSet(c[Index])
    BY DEF Shaped
  <2>2. PICK R : R = {Get(TheListing(x)) : x \in c[Index]}
    OBVIOUS
  <2>3. \A x \in R : \E j \in DOMAIN SetToSeq(R) : SetToSeq(R)[j] = x
    <3>1. IsFiniteSet(R)
      BY <2>1, <2>2, ImagesAreFinite
    <3> QED  BY <3>1, EachOnce
  <2>4. b = SetToSeq(R) /\ Get(TheListing(l)) \in R
    BY <1>9, <2>2
  <2> QED  BY <2>3, <2>4
<1>12. PICK d : d = b \o t
  OBVIOUS
<1>13. /\ d \in Seq(Ops)
       /\ \A h \in DOMAIN b : \E j \in DOMAIN d : d[j] = b[h]
       /\ \A h \in DOMAIN t : \E j \in DOMAIN d : d[j] = t[h]
       /\ \A j \in DOMAIN d : (\E h \in DOMAIN b : d[j] = b[h]) \/ (\E h \in DOMAIN t : d[j] = t[h])
  <2>1. b \in Seq(Ops) /\ t \in Seq(Ops)
    BY <1>5, <1>10
  <2>2. Joined(b, t, d)
    BY <1>12, <2>1, JoinSame
  <2> QED  BY <2>2 DEF Joined
<1>14. \A h \in DOMAIN d : \E x \in FrontKeys(r) : d[h] = Get(x)
  <2>1. \A h \in DOMAIN t : \E x \in FrontKeys(r) : t[h] = Get(x)
    BY <1>5 DEF Asking
  <2> QED  BY <1>10, <1>13, <2>1
<1>15. ASSUME NEW x \in Unasked(r, c, n)
       PROVE  \E h \in DOMAIN d : d[h] = Get(x)
  <2>1. x # k /\ x \notin DOMAIN m /\ x \in MustRead(r, c)
    BY <1>15 DEF Unasked
  <2>2. CASE x \in Unasked(r, c, m)
    <3>1. PICK j \in DOMAIN a : a[j] = Get(x)
      BY <2>2 DEF Asking
    <3>2. j # 1
      BY <1>3, <1>5, <2>1, <3>1, OpsOf
    <3>3. j - 1 \in DOMAIN t /\ j \in Nat
      BY <1>5, <3>2
    <3>4. (j - 1) + 1 = j
      BY <3>3
    <3>5. t[j - 1] = Get(x)
      BY <1>5, <3>1, <3>3, <3>4
    <3> QED  BY <1>13, <3>3, <3>5
  <2>3. CASE x \notin Unasked(r, c, m)
    <3>1. /\ r.kind = "list" /\ Index \notin DOMAIN m
          /\ x \in {TheListing(l) : l \in c[Index]} \ {Listg(r)}
      BY <2>1, <2>3 DEF Unasked
    <3>2. k = Index
      BY <1>15, <3>1 DEF Unasked
    <3>3. PICK l \in c[Index] : x = TheListing(l)
      BY <3>1
    <3> QED  BY <1>11, <1>13, <3>1, <3>2, <3>3
  <2> QED  BY <2>2, <2>3
<1>16. \A x \in DOMAIN n : May(r, Get(x), c)
  BY DEF Asking
<1>17. Asking(r, c, d, n)
  BY <1>14, <1>15, <1>16 DEF Asking
<1> QED  BY <1>4, <1>6, <1>8, <1>10, <1>12, <1>13, <1>17

LEMMA JoinThree ==
  ASSUME NEW q \in Seq(Ops), NEW t \in Seq(Ops), NEW w \in Seq(Ops)
  PROVE  q \o (t \o w) = (q \o t) \o w
  BY ConcatAssociative

\* A read before the nonce.
LEMMA FrontGoes ==
  ASSUME NEW r \in Requests, NEW c, Shaped(c), NEW m, NEW a, NEW k, Starts(a, k), Asking(r, c, a, m),
         NEW n, Remembers(r, c, n), DOMAIN n = {k} \cup DOMAIN m, NEW q, q = Onward(r, a)
  PROVE  Head(q) = Get(k) /\ GoesWell(r, c, Get(k), q, n, c)
<1>1. PICK w : w = Spend(r) \o Rest(r)
  OBVIOUS
<1>2. w \in Seq(Ops) /\ q = a \o w
  BY <1>1, SpendRest DEF Onward
<1>3. PICK t : t = Tail(a)
  OBVIOUS
<1>4. a \in Seq(Ops) /\ a # <<>> /\ Head(a) = Get(k)
  BY DEF Starts
<1>5. Head(a \o w) = Head(a) /\ Tail(a \o w) = t \o w
  BY <1>2, <1>3, <1>4, JoinTail
<1>6. Head(q) = Get(k) /\ Tail(q) = t \o w
  BY <1>2, <1>4, <1>5
<1>7. t \in Seq(Ops)
  BY <1>3, <1>4, HeadThen
<1>8. k \in DOMAIN n /\ n[k] = c[k]
  BY DEF Remembers
<1>9. May(r, Get(k), n) <=> May(r, Get(k), c)
  BY <1>8, MaySame
<1>10. CASE ~May(r, Get(k), n)
  <2>1. Ended(r, c, c)
    BY DEF Ended
  <2> QED  BY <1>6, <1>10, <2>1 DEF GoesWell
<1>11. CASE May(r, Get(k), n)
  <2>1. PICK b : b = Rows(r, c, k)
    OBVIOUS
  <2>2. k \in FrontKeys(r) /\ b \in Seq(Ops) /\ b \o t \in Seq(Ops) /\ Asking(r, c, b \o t, n)
    BY <1>3, <1>9, <1>11, <2>1, AskingOn
  <2>3. PICK d : d = b \o t
    OBVIOUS
  <2>4. Onward(r, d) # <<>> /\ Stage(r, c, Onward(r, d), n, c)
    BY <2>2, <2>3, ReadingOn
  <2>5. b \o (t \o w) = (b \o t) \o w
    BY <1>2, <1>7, <2>2, JoinThree
  <2>6. Onward(r, d) = b \o Tail(q)
    BY <1>1, <1>6, <2>3, <2>5 DEF Onward
  <2>7. Adds(r, Get(k), n) = b
    BY <1>8, <2>1, <2>2, AddsFront
  <2> QED  BY <1>6, <1>11, <2>4, <2>6, <2>7 DEF GoesWell
<1> QED  BY <1>10, <1>11

\* The read of the nonce.
LEMMA NonceGoes ==
  ASSUME NEW r \in Requests, NEW c, Shaped(c), NEW m, Remembers(r, c, m), HasNonce(r),
         Cleared(r, c),
         NEW q, q = Spend(r) \o Rest(r), NEW n, n = Found(m, Nonce(r), c)
  PROVE  Head(q) = Get(Nonce(r)) /\ GoesWell(r, c, Get(Nonce(r)), q, n, c)
<1>1. PICK p, g, t : p = Put(Nonce(r)) /\ g = Get(Nonce(r)) /\ t = Rest(r)
  OBVIOUS
<1>2. Nonce(r) \in Keys /\ p \in Ops /\ g \in Ops /\ t \in Seq(Ops)
  BY <1>1, RequestKeys, OpsOf, SpendRest
<1>3. q = <<g>> \o (<<p>> \o t)
  BY <1>1, SpendRest
<1>4. <<p>> \o t \in Seq(Ops) /\ <<p>> \o t # <<>>
  BY <1>2, OneThen
<1>5. PICK x : x = <<p>> \o t
  OBVIOUS
<1>6. Head(q) = g /\ Tail(q) = x
  BY <1>2, <1>3, <1>4, <1>5, OneThen
<1>7. Remembers(r, c, n) /\ n[Nonce(r)] = c[Nonce(r)]
  BY <1>2, LearnRight
<1>8. Adds(r, g, n) = <<>>
  <2>1. Nonce(r) # Index
    BY KeyTags
  <2>2. Adds(r, Get(Nonce(r)), n) = Rows(r, c, Nonce(r))
    BY <1>7, AddsFront
  <2> QED  BY <1>1, <2>1, <2>2 DEF Rows
<1>9. Adds(r, g, n) \o Tail(q) = x
  BY <1>4, <1>5, <1>6, <1>8, ConcatEmptySeq
<1>11. Spending(r, c, x, c)
  BY <1>1, <1>5 DEF Spending
<1>12. Stage(r, c, x, n, c)
  BY <1>4, <1>5, <1>7, <1>11 DEF Stage
<1>13. Ended(r, c, c)
  BY DEF Ended
<1> QED  BY <1>1, <1>4, <1>5, <1>6, <1>9, <1>12, <1>13 DEF GoesWell

\* The operation that comes next.
Begins(q, op) == Head(q) = op

\* The read, the write and the sadd of an invocation, at any stage.
LEMMA StageRead ==
  ASSUME NEW r \in Requests, NEW c, Shaped(c), NEW q, NEW m, NEW v, Stage(r, c, q, m, v),
         NEW k \in Keys, Begins(q, Get(k)), NEW n, n = Found(m, k, v)
  PROVE  GoesWell(r, c, Get(k), q, n, v)
<1>1. Remembers(r, c, m) /\ q # <<>> /\ q \in Seq(Ops)
  BY DEF Stage
<1>2. Remembers(r, c, Found(m, k, c)) /\ DOMAIN Found(m, k, c) = {k} \cup DOMAIN m
  <2>1. Remembers(r, c, m)
    BY <1>1
  <2>2. /\ Remembers(r, c, Found(m, k, c)) /\ DOMAIN Found(m, k, c) = {k} \cup DOMAIN m
        /\ Found(m, k, c)[k] = c[k]
    BY <2>1, LearnRight
  <2> QED  BY <2>2
<1>3. v[k] = c[k] => n = Found(m, k, c)
  BY DEF Found
<1>4. CASE Reading(r, c, q, m, v)
  <2>1. PICK a \in Seq(Ops) : q = Onward(r, a) /\ (a # <<>> \/ HasNonce(r)) /\ Asking(r, c, a, m)
    BY <1>4 DEF Reading
  <2>2. v = c
    BY <1>4 DEF Reading
  <2>3. CASE a # <<>>
    <3>1. PICK x : a[1] = Get(x) /\ Head(a) = a[1]
      BY <2>1, <2>3, TailAt DEF Asking
    <3>2. Starts(a, x)
      BY <2>1, <2>3, <3>1 DEF Starts
    <3>3. PICK w : w = Spend(r) \o Rest(r)
      OBVIOUS
    <3>4. w \in Seq(Ops) /\ q = a \o w
      BY <2>1, <3>3, SpendRest DEF Onward
    <3>5. Head(q) = Head(a)
      BY <2>3, <3>4, JoinTail
    <3>6. x = k
      BY <3>1, <3>5, OpsOf DEF Begins
    <3>7. Remembers(r, c, n) /\ DOMAIN n = {k} \cup DOMAIN m /\ Starts(a, k)
      BY <1>2, <1>3, <2>2, <3>2, <3>6
    <3>8. GoesWell(r, c, Get(k), q, n, c)
      BY <2>1, <3>7, FrontGoes
    <3> QED  BY <2>2, <3>8
  <2>4. CASE a = <<>>
    <3>1. Unasked(r, c, m) = {} /\ \A x \in DOMAIN m : May(r, Get(x), c)
      BY <2>1, <2>4 DEF Asking
    <3>2. Cleared(r, c)
      BY <3>1, AllAsked
    <3>3. PICK w : w = Spend(r) \o Rest(r)
      OBVIOUS
    <3>4. q = w
      BY <2>1, <2>4, <3>3, SpendRest, ConcatEmptySeq DEF Onward
    <3>5. /\ Head(q) = Get(Nonce(r))
          /\ GoesWell(r, c, Get(Nonce(r)), q, Found(m, Nonce(r), c), c)
      BY <1>1, <2>1, <2>4, <3>2, <3>3, <3>4, NonceGoes
    <3>6. k = Nonce(r)
      BY <3>5, OpsOf DEF Begins
    <3> QED  BY <1>3, <2>2, <3>5, <3>6
  <2> QED  BY <2>3, <2>4
<1>5. ~Spending(r, c, q, v)
  <2>1. ASSUME Spending(r, c, q, v)
        PROVE  FALSE
    <3>1. PICK p : p = Put(Nonce(r)) /\ p \in Ops
      BY RequestKeys, OpsOf
    <3>2. q = <<p>> \o Rest(r) /\ Rest(r) \in Seq(Ops)
      BY <2>1, <3>1, SpendRest DEF Spending
    <3>3. Head(q) = p
      BY <3>1, <3>2, OneThen
    <3> QED  BY <3>1, <3>3, OpsOf DEF Begins
  <2> QED  BY <2>1
<1>6. CASE Writing(r, c, q, v)
  <2>1. v[k] = c[k]
    BY <1>1, <1>6, WritingReads DEF Begins
  <2>2. PICK op : op = Get(k)
    OBVIOUS
  <2>3. op[1] = "get" /\ op[2] = k
    BY <2>2, OpsOf
  <2>4. Remembers(r, c, n) /\ op[2] \in DOMAIN n
    BY <1>2, <1>3, <2>1, <2>3
  <2>5. GoesWell(r, c, op, q, n, v)
    BY <1>1, <1>6, <2>2, <2>3, <2>4, WritingGoes DEF Begins
  <2> QED  BY <2>2, <2>5
<1> QED  BY <1>4, <1>5, <1>6 DEF Stage

\* Where a write can be next.
LEMMA NoRead ==
  ASSUME NEW r \in Requests, NEW c, NEW q, NEW m, NEW v, Stage(r, c, q, m, v), \A k : Head(q) # Get(k)
  PROVE  Spending(r, c, q, v) \/ Writing(r, c, q, v)
<1>1. ASSUME Reading(r, c, q, m, v)
      PROVE  FALSE
  <2>1. PICK a \in Seq(Ops) : q = Onward(r, a) /\ (a # <<>> \/ HasNonce(r)) /\ Asking(r, c, a, m)
    BY <1>1 DEF Reading
  <2>2. PICK w : w = Spend(r) \o Rest(r)
    OBVIOUS
  <2>3. w \in Seq(Ops) /\ q = a \o w
    BY <2>1, <2>2, SpendRest DEF Onward
  <2>4. CASE a # <<>>
    <3>1. PICK x : a[1] = Get(x) /\ Head(a) = a[1]
      BY <2>1, <2>4, TailAt DEF Asking
    <3>2. Head(q) = Head(a)
      BY <2>3, <2>4, JoinTail
    <3> QED  BY <3>1, <3>2
  <2>5. CASE a = <<>>
    <3>1. PICK p, g, t : p = Put(Nonce(r)) /\ g = Get(Nonce(r)) /\ t = Rest(r)
      OBVIOUS
    <3>2. p \in Ops /\ g \in Ops /\ t \in Seq(Ops)
      BY <3>1, RequestKeys, OpsOf, SpendRest
    <3>3. q = w
      BY <2>3, <2>5, ConcatEmptySeq
    <3>4. q = <<g>> \o (<<p>> \o t)
      BY <2>1, <2>2, <2>5, <3>1, <3>3, SpendRest
    <3>5. <<p>> \o t \in Seq(Ops)
      BY <3>2, OneThen
    <3>6. Head(q) = g
      BY <3>2, <3>4, <3>5, OneThen
    <3> QED  BY <3>1, <3>6
  <2> QED  BY <2>4, <2>5
<1> QED  BY <1>1 DEF Stage

LEMMA NonceIsTrue ==
  ASSUME NEW r, NEW m
  PROVE  New(r, Nonce(r), m) = TRUE
<1>1. PICK v : v = New(r, Nonce(r), m)
  OBVIOUS
<1>2. v = TRUE
  BY <1>1 DEF New, Nonce, Passp, Listg, Offr, Deall, PassportOf, TheListing, TheOffer, TheDeal, PayTx
<1> QED  BY <1>1, <1>2

LEMMA StageWrite ==
  ASSUME NEW r \in Requests, NEW c, Shaped(c), NEW q, NEW m, NEW v, Stage(r, c, q, m, v),
         NEW k \in Keys, Begins(q, Put(k)),
         k # Nonce(r) => k \in Puts(r) /\ (r.kind = "accept" \/ Needs(r, k) \in DOMAIN m),
         NEW x, x = New(r, k, m)
  PROVE  GoesWell(r, c, Put(k), q, m, Stored(v, k, x))
<1>1. Remembers(r, c, m) /\ q # <<>> /\ q \in Seq(Ops)
  BY DEF Stage
<1>2. Head(q) = Put(k) /\ \A j : Head(q) # Get(j)
  BY OpsOf DEF Begins
<1>3. CASE Spending(r, c, q, v)
  <2>1. Deall(r) \in DOMAIN m \/ r.kind # "confirm-complete"
    BY <1>1 DEF Remembers, First
  <2>2. /\ Head(q) = Put(Nonce(r))
        /\ GoesWell(r, c, Put(Nonce(r)), q, m, Stored(v, Nonce(r), Value(r, c, Nonce(r))))
    BY <1>1, <1>3, <2>1, SpendingGoes
  <2>3. k = Nonce(r)
    BY <1>2, <2>2, OpsOf
  <2>4. x = TRUE /\ Value(r, c, Nonce(r)) = TRUE
    BY <2>3, NonceIsTrue, ValueIs
  <2> QED  BY <2>2, <2>3, <2>4
<1>4. CASE Writing(r, c, q, v)
  <2>1. PICK op : op = Put(k)
    OBVIOUS
  <2>2. op[1] # "get" /\ op[2] = k
    BY <2>1, OpsOf
  <2>3. k # Nonce(r)
    <3>1. ~Asks(r, Head(q))
      BY <1>1, <1>4, TameTail DEF Writing
    <3> QED  BY <1>2, <3>1 DEF Asks
  <2>4. x = New(r, k, c)
    BY <1>1, <2>3, NewSame
  <2>5. Value(r, c, k) = New(r, k, c)
    BY <2>3, ValueIs
  <2>6. GoesWell(r, c, op, q, m, Stored(v, k, Value(r, c, k)))
    BY <1>1, <1>2, <1>4, <2>1, <2>2, WritingGoes
  <2> QED  BY <2>1, <2>4, <2>5, <2>6
<1> QED  BY <1>2, <1>3, <1>4, NoRead

\* The sadd is next only once the nonce is spent, and finds the base's ids.
LEMMA AddFinds ==
  ASSUME NEW r \in Requests, NEW c, NEW q, NEW m, NEW v, Stage(r, c, q, m, v),
         NEW k \in Keys, Begins(q, Add(k))
  PROVE  Writing(r, c, q, v) /\ v[k] = c[k]
<1>1. Remembers(r, c, m) /\ q # <<>> /\ q \in Seq(Ops)
  BY DEF Stage
<1>2. Head(q) = Add(k) /\ \A j : Head(q) # Get(j) /\ Head(q) # Put(j)
  BY OpsOf DEF Begins
<1>3. ~Spending(r, c, q, v)
  <2>1. ASSUME Spending(r, c, q, v)
        PROVE  FALSE
    <3>1. PICK p : p = Put(Nonce(r)) /\ p \in Ops
      BY RequestKeys, OpsOf
    <3>2. q = <<p>> \o Rest(r) /\ Rest(r) \in Seq(Ops)
      BY <2>1, <3>1, SpendRest DEF Spending
    <3>3. Head(q) = p
      BY <3>1, <3>2, OneThen
    <3> QED  BY <1>2, <3>1, <3>3
  <2> QED  BY <2>1
<1>4. Writing(r, c, q, v)
  BY <1>2, <1>3, NoRead
<1>5. v[k] = c[k]
  <2>1. q # <<>> /\ (Head(q) = Get(k) \/ Head(q) = Add(k))
    BY <1>1, <1>2
  <2> QED  BY <1>4, <2>1, WritingReads
<1> QED  BY <1>4, <1>5

\* The store v with x among the ids at k.
Joins(v, k, x) == Stored(v, k, v[k] \cup {x})

LEMMA StageAdd ==
  ASSUME NEW r \in Requests, NEW c, Shaped(c), NEW q, NEW m, NEW v, Stage(r, c, q, m, v),
         NEW k \in Keys, Begins(q, Add(k)), k = Index \/ (r.kind = "offer" /\ k = OffersOn(L(r))),
         NEW w, w = Joins(v, k, r.id)
  PROVE  GoesWell(r, c, Add(k), q, m, w)
<1>1. Remembers(r, c, m) /\ q # <<>> /\ q \in Seq(Ops)
  BY DEF Stage
<1>2. Head(q) = Add(k)
  BY DEF Begins
<1>4. Writing(r, c, q, v) /\ v[k] = c[k]
  BY AddFinds
<1>5. Joins(v, k, r.id) = Stored(v, k, c[k] \cup {r.id})
  BY <1>4 DEF Joins
<1>6. w = Stored(v, k, Value(r, c, k))
  BY <1>5 DEF Value, Joins
<1>7. PICK op : op = Add(k)
  OBVIOUS
<1>8. op[1] # "get" /\ op[2] = k
  BY <1>7, OpsOf
<1>9. GoesWell(r, c, op, q, m, Stored(v, k, Value(r, c, k)))
  BY <1>1, <1>2, <1>4, <1>7, <1>8, WritingGoes
<1> QED  BY <1>6, <1>7, <1>9

\* Where it begins.
LEMMA StartStage ==
  ASSUME NEW r \in Requests, NEW c, Shaped(c), NEW m, m = [k \in {First(r)} |-> c[k]],
         May(r, Get(First(r)), m)
  PROVE  Tail(Plan(r)) # <<>> /\ Stage(r, c, Tail(Plan(r)), m, c)
<1>1. PICK a : PlanIs(r, a)
  BY PlanShape
<1>2. a \in Seq(Ops) /\ Tail(Plan(r)) = Onward(r, a) /\ Covers(r, a)
  BY <1>1 DEF PlanIs, Onward
<1>3. First(r) \in Keys
  BY RequestKeys DEF First, Kinds
<1>4. DOMAIN m = {First(r)} /\ m[First(r)] = c[First(r)]
  OBVIOUS
<1>5. Remembers(r, c, m)
  BY <1>3, <1>4 DEF Remembers
<1>6. \A k \in DOMAIN m : May(r, Get(k), c)
  BY <1>4, <1>5, MaySame
<1>7. ASSUME NEW k \in Unasked(r, c, m)
      PROVE  \E h \in DOMAIN a : a[h] = Get(k)
  <2>1. CASE r.kind = "list"
    <3>1. First(r) = Passp(r) /\ Index # Passp(r)
      BY <2>1, KeyTags DEF First
    <3>2. Index \notin DOMAIN m
      BY <1>4, <3>1
    <3>3. k \in {Listg(r), Index}
      BY <1>4, <1>7, <2>1, <3>2 DEF Unasked, MustRead
    <3> QED  BY <1>2, <2>1, <3>3 DEF Covers, Fronts
  <2>2. CASE r.kind # "list"
    <3>1. k \in FrontKeys(r)
      BY <1>4, <1>7, <2>2 DEF Unasked, MustRead
    <3> QED  BY <1>2, <2>2, <3>1 DEF Covers, Fronts
  <2> QED  BY <2>1, <2>2
<1>8. Asking(r, c, a, m)
  BY <1>2, <1>6, <1>7 DEF Asking, Covers
<1> QED  BY <1>2, <1>5, <1>8, ReadingOn

\* What a handler writes, by its kind.
LEMMA ValuesAre ==
  ASSUME NEW r \in Requests, NEW c
  PROVE  /\ r.kind = "claim" => Value(r, c, Passp(r)) = WithClaim(c[Passp(r)], r.by)
         /\ r.kind = "list" =>
              /\ Value(r, c, Listg(r)) = [status |-> "ACTIVE", deal |-> None]
              /\ Value(r, c, Passp(r)) = [c[Passp(r)] EXCEPT !.listing = r.id]
         /\ r.kind = "cancel-listing" =>
              /\ Value(r, c, Listg(r)) = [c[Listg(r)] EXCEPT !.status = "CANCELLED"]
              /\ Value(r, c, Passp(r)) = Unlisted(c[Passp(r)], L(r))
         /\ r.kind = "offer" => Value(r, c, Offr(r)) = "PENDING"
         /\ r.kind = "reject" => Value(r, c, Offr(r)) = "REJECTED"
         /\ r.kind = "accept" =>
              /\ Value(r, c, Offr(r)) = "ACCEPTED"
              /\ Value(r, c, Listg(r)) = [status |-> "OFFER_ACCEPTED", deal |-> r.id]
              /\ Value(r, c, Deall(r)) = FreshDeal
         /\ r.kind = "transfer-intent" =>
              /\ Value(r, c, Deall(r)) = [c[Deall(r)] EXCEPT !.intent = TRUE]
              /\ Value(r, c, Listg(r)) = [c[Listg(r)] EXCEPT !.status = "IN_TRANSFER"]
         /\ r.kind = "transfer-accept" =>
              /\ Value(r, c, Deall(r)) = [c[Deall(r)] EXCEPT !.moved = TRUE]
              /\ Value(r, c, Passp(r)) = WithTransfer(c[Passp(r)], r.id)
         /\ r.kind = "fee-right-evidence" => Value(r, c, Deall(r)) = [c[Deall(r)] EXCEPT !.feeTx = r.tx]
         /\ r.kind = "payment-evidence" =>
              /\ Value(r, c, PayTx(r.tx)) = r.id
              /\ Value(r, c, Deall(r)) = [c[Deall(r)] EXCEPT !.payTx = r.tx]
         /\ r.kind = "confirm-payment" => Value(r, c, Deall(r)) = [c[Deall(r)] EXCEPT !.payBy = @ \cup {r.by}]
         /\ r.kind = "confirm-asset" => Value(r, c, Deall(r)) = [c[Deall(r)] EXCEPT !.assetBy = @ \cup {r.by}]
         /\ r.kind = "confirm-complete" =>
              /\ Value(r, c, Deall(r)) = WithComplete(r.id, c[Deall(r)], r.by)
              /\ Value(r, c, Listg(r)) = [c[Listg(r)] EXCEPT !.status = "COMPLETED"]
              /\ Value(r, c, Passp(r)) = Unlisted(c[Passp(r)], L(r))
         /\ r.kind = "deal-cancel" =>
              /\ Value(r, c, Listg(r)) = Reopened(c[Deall(r)], c[Listg(r)])
              /\ Value(r, c, Offr(r)) = "DEAL_CANCELLED"
              /\ Value(r, c, Passp(r)) = c[Passp(r)]
<1>1. \A k : k \in Puts(r) => Value(r, c, k) = New(r, k, c)
  BY ValueIs
<1>2. CASE r.kind = "claim"
  <2>1. Value(r, c, Passp(r)) = WithClaim(c[Passp(r)], r.by)
    <3>1. Passp(r) \in Puts(r) /\ New(r, Passp(r), c) = WithClaim(c[Passp(r)], r.by)
      BY <1>2 DEF New, Puts, Passp, PassportOf, Nonce, Listg, TheListing, Offr, TheOffer, Deall, TheDeal, PayTx
    <3> QED  BY <1>1, <3>1
  <2> QED  BY <1>2, <2>1
<1>3. CASE r.kind = "list"
  <2>1. Value(r, c, Listg(r)) = [status |-> "ACTIVE", deal |-> None]
    <3>1. Listg(r) \in Puts(r) /\ New(r, Listg(r), c) = [status |-> "ACTIVE", deal |-> None]
      BY <1>3 DEF New, Puts, Passp, PassportOf, Nonce, Listg, TheListing, Offr, TheOffer, Deall, TheDeal, PayTx
    <3> QED  BY <1>1, <3>1
  <2>2. Value(r, c, Passp(r)) = [c[Passp(r)] EXCEPT !.listing = r.id]
    <3>1. Passp(r) \in Puts(r) /\ New(r, Passp(r), c) = [c[Passp(r)] EXCEPT !.listing = r.id]
      BY <1>3 DEF New, Puts, Passp, PassportOf, Nonce, Listg, TheListing, Offr, TheOffer, Deall, TheDeal, PayTx
    <3> QED  BY <1>1, <3>1
  <2> QED  BY <1>3, <2>1, <2>2
<1>4. CASE r.kind = "cancel-listing"
  <2>1. Value(r, c, Listg(r)) = [c[Listg(r)] EXCEPT !.status = "CANCELLED"]
    <3>1. Listg(r) \in Puts(r) /\ New(r, Listg(r), c) = [c[Listg(r)] EXCEPT !.status = "CANCELLED"]
      BY <1>4 DEF New, Puts, Passp, PassportOf, Nonce, Listg, TheListing, Offr, TheOffer, Deall, TheDeal, PayTx
    <3> QED  BY <1>1, <3>1
  <2>2. Value(r, c, Passp(r)) = Unlisted(c[Passp(r)], L(r))
    <3>1. Passp(r) \in Puts(r) /\ New(r, Passp(r), c) = Unlisted(c[Passp(r)], L(r))
      BY <1>4 DEF New, Puts, Passp, PassportOf, Nonce, Listg, TheListing, Offr, TheOffer, Deall, TheDeal, PayTx
    <3> QED  BY <1>1, <3>1
  <2> QED  BY <1>4, <2>1, <2>2
<1>5. CASE r.kind = "offer"
  <2>1. Value(r, c, Offr(r)) = "PENDING"
    <3>1. Offr(r) \in Puts(r) /\ New(r, Offr(r), c) = "PENDING"
      BY <1>5 DEF New, Puts, Passp, PassportOf, Nonce, Listg, TheListing, Offr, TheOffer, Deall, TheDeal, PayTx
    <3> QED  BY <1>1, <3>1
  <2> QED  BY <1>5, <2>1
<1>6. CASE r.kind = "reject"
  <2>1. Value(r, c, Offr(r)) = "REJECTED"
    <3>1. Offr(r) \in Puts(r) /\ New(r, Offr(r), c) = "REJECTED"
      BY <1>6 DEF New, Puts, Passp, PassportOf, Nonce, Listg, TheListing, Offr, TheOffer, Deall, TheDeal, PayTx
    <3> QED  BY <1>1, <3>1
  <2> QED  BY <1>6, <2>1
<1>7. CASE r.kind = "accept"
  <2>1. Value(r, c, Offr(r)) = "ACCEPTED"
    <3>1. Offr(r) \in Puts(r) /\ New(r, Offr(r), c) = "ACCEPTED"
      BY <1>7, RequestKeys DEF New, Puts, Passp, PassportOf, Nonce, Listg, TheListing, Offr, TheOffer, Deall, TheDeal, PayTx
    <3> QED  BY <1>1, <3>1
  <2>2. Value(r, c, Listg(r)) = [status |-> "OFFER_ACCEPTED", deal |-> r.id]
    <3>1. Listg(r) \in Puts(r) /\ New(r, Listg(r), c) = [status |-> "OFFER_ACCEPTED", deal |-> r.id]
      BY <1>7 DEF New, Puts, Passp, PassportOf, Nonce, Listg, TheListing, Offr, TheOffer, Deall, TheDeal, PayTx
    <3> QED  BY <1>1, <3>1
  <2>3. Value(r, c, Deall(r)) = FreshDeal
    <3>1. Deall(r) \in Puts(r) /\ New(r, Deall(r), c) = FreshDeal
      BY <1>7 DEF New, Puts, Passp, PassportOf, Nonce, Listg, TheListing, Offr, TheOffer, Deall, TheDeal, PayTx
    <3> QED  BY <1>1, <3>1
  <2> QED  BY <1>7, <2>1, <2>2, <2>3
<1>8. CASE r.kind = "transfer-intent"
  <2>1. Value(r, c, Deall(r)) = [c[Deall(r)] EXCEPT !.intent = TRUE]
    <3>1. Deall(r) \in Puts(r) /\ New(r, Deall(r), c) = [c[Deall(r)] EXCEPT !.intent = TRUE]
      BY <1>8 DEF New, Puts, Passp, PassportOf, Nonce, Listg, TheListing, Offr, TheOffer, Deall, TheDeal, PayTx
    <3> QED  BY <1>1, <3>1
  <2>2. Value(r, c, Listg(r)) = [c[Listg(r)] EXCEPT !.status = "IN_TRANSFER"]
    <3>1. Listg(r) \in Puts(r) /\ New(r, Listg(r), c) = [c[Listg(r)] EXCEPT !.status = "IN_TRANSFER"]
      BY <1>8 DEF New, Puts, Passp, PassportOf, Nonce, Listg, TheListing, Offr, TheOffer, Deall, TheDeal, PayTx
    <3> QED  BY <1>1, <3>1
  <2> QED  BY <1>8, <2>1, <2>2
<1>9. CASE r.kind = "transfer-accept"
  <2>1. Value(r, c, Deall(r)) = [c[Deall(r)] EXCEPT !.moved = TRUE]
    <3>1. Deall(r) \in Puts(r) /\ New(r, Deall(r), c) = [c[Deall(r)] EXCEPT !.moved = TRUE]
      BY <1>9 DEF New, Puts, Passp, PassportOf, Nonce, Listg, TheListing, Offr, TheOffer, Deall, TheDeal, PayTx
    <3> QED  BY <1>1, <3>1
  <2>2. Value(r, c, Passp(r)) = WithTransfer(c[Passp(r)], r.id)
    <3>1. Passp(r) \in Puts(r) /\ New(r, Passp(r), c) = WithTransfer(c[Passp(r)], r.id)
      BY <1>9 DEF New, Puts, Passp, PassportOf, Nonce, Listg, TheListing, Offr, TheOffer, Deall, TheDeal, PayTx
    <3> QED  BY <1>1, <3>1
  <2> QED  BY <1>9, <2>1, <2>2
<1>10. CASE r.kind = "fee-right-evidence"
  <2>1. Value(r, c, Deall(r)) = [c[Deall(r)] EXCEPT !.feeTx = r.tx]
    <3>1. Deall(r) \in Puts(r) /\ New(r, Deall(r), c) = [c[Deall(r)] EXCEPT !.feeTx = r.tx]
      BY <1>10 DEF New, Puts, Passp, PassportOf, Nonce, Listg, TheListing, Offr, TheOffer, Deall, TheDeal, PayTx
    <3> QED  BY <1>1, <3>1
  <2> QED  BY <1>10, <2>1
<1>11. CASE r.kind = "payment-evidence"
  <2>1. Value(r, c, PayTx(r.tx)) = r.id
    <3>1. PayTx(r.tx) \in Puts(r) /\ New(r, PayTx(r.tx), c) = r.id
      BY <1>11 DEF New, Puts, Passp, PassportOf, Nonce, Listg, TheListing, Offr, TheOffer, Deall, TheDeal, PayTx
    <3> QED  BY <1>1, <3>1
  <2>2. Value(r, c, Deall(r)) = [c[Deall(r)] EXCEPT !.payTx = r.tx]
    <3>1. Deall(r) \in Puts(r) /\ New(r, Deall(r), c) = [c[Deall(r)] EXCEPT !.payTx = r.tx]
      BY <1>11 DEF New, Puts, Passp, PassportOf, Nonce, Listg, TheListing, Offr, TheOffer, Deall, TheDeal, PayTx
    <3> QED  BY <1>1, <3>1
  <2> QED  BY <1>11, <2>1, <2>2
<1>12. CASE r.kind = "confirm-payment"
  <2>1. Value(r, c, Deall(r)) = [c[Deall(r)] EXCEPT !.payBy = @ \cup {r.by}]
    <3>1. Deall(r) \in Puts(r) /\ New(r, Deall(r), c) = [c[Deall(r)] EXCEPT !.payBy = @ \cup {r.by}]
      BY <1>12 DEF New, Puts, Passp, PassportOf, Nonce, Listg, TheListing, Offr, TheOffer, Deall, TheDeal, PayTx
    <3> QED  BY <1>1, <3>1
  <2> QED  BY <1>12, <2>1
<1>13. CASE r.kind = "confirm-asset"
  <2>1. Value(r, c, Deall(r)) = [c[Deall(r)] EXCEPT !.assetBy = @ \cup {r.by}]
    <3>1. Deall(r) \in Puts(r) /\ New(r, Deall(r), c) = [c[Deall(r)] EXCEPT !.assetBy = @ \cup {r.by}]
      BY <1>13 DEF New, Puts, Passp, PassportOf, Nonce, Listg, TheListing, Offr, TheOffer, Deall, TheDeal, PayTx
    <3> QED  BY <1>1, <3>1
  <2> QED  BY <1>13, <2>1
<1>14. CASE r.kind = "confirm-complete"
  <2>1. Value(r, c, Deall(r)) = WithComplete(r.id, c[Deall(r)], r.by)
    <3>1. Deall(r) \in Puts(r) /\ New(r, Deall(r), c) = WithComplete(r.id, c[Deall(r)], r.by)
      BY <1>14 DEF New, Puts, Passp, PassportOf, Nonce, Listg, TheListing, Offr, TheOffer, Deall, TheDeal, PayTx
    <3> QED  BY <1>1, <3>1
  <2>2. Value(r, c, Listg(r)) = [c[Listg(r)] EXCEPT !.status = "COMPLETED"]
    <3>1. Listg(r) \in Puts(r) /\ New(r, Listg(r), c) = [c[Listg(r)] EXCEPT !.status = "COMPLETED"]
      BY <1>14 DEF New, Puts, Passp, PassportOf, Nonce, Listg, TheListing, Offr, TheOffer, Deall, TheDeal, PayTx
    <3> QED  BY <1>1, <3>1
  <2>3. Value(r, c, Passp(r)) = Unlisted(c[Passp(r)], L(r))
    <3>1. Passp(r) \in Puts(r) /\ New(r, Passp(r), c) = Unlisted(c[Passp(r)], L(r))
      BY <1>14 DEF New, Puts, Passp, PassportOf, Nonce, Listg, TheListing, Offr, TheOffer, Deall, TheDeal, PayTx
    <3> QED  BY <1>1, <3>1
  <2> QED  BY <1>14, <2>1, <2>2, <2>3
<1>15. CASE r.kind = "deal-cancel"
  <2>1. Value(r, c, Listg(r)) = Reopened(c[Deall(r)], c[Listg(r)])
    <3>1. Listg(r) \in Puts(r) /\ New(r, Listg(r), c) = Reopened(c[Deall(r)], c[Listg(r)])
      BY <1>15 DEF New, Puts, Passp, PassportOf, Nonce, Listg, TheListing, Offr, TheOffer, Deall, TheDeal, PayTx
    <3> QED  BY <1>1, <3>1
  <2>2. Value(r, c, Offr(r)) = "DEAL_CANCELLED"
    <3>1. Offr(r) \in Puts(r) /\ New(r, Offr(r), c) = "DEAL_CANCELLED"
      BY <1>15 DEF New, Puts, Passp, PassportOf, Nonce, Listg, TheListing, Offr, TheOffer, Deall, TheDeal, PayTx
    <3> QED  BY <1>1, <3>1
  <2>3. Value(r, c, Passp(r)) = c[Passp(r)]
    <3>1. Passp(r) \in Puts(r) /\ New(r, Passp(r), c) = c[Passp(r)]
      BY <1>15 DEF New, Puts, Passp, PassportOf, Nonce, Listg, TheListing, Offr, TheOffer, Deall, TheDeal, PayTx
    <3> QED  BY <1>1, <3>1
  <2> QED  BY <1>15, <2>1, <2>2, <2>3
<1> QED  BY <1>2, <1>3, <1>4, <1>5, <1>6, <1>7, <1>8, <1>9, <1>10, <1>11, <1>12, <1>13, <1>14, <1>15

\* The offers that an acceptance supersedes.
LEMMA SupersededIs ==
  ASSUME NEW r \in Requests, r.kind = "accept", NEW c, Shaped(c)
  PROVE  \A k \in Superseded(r, c) :
           /\ Value(r, c, k) = "SUPERSEDED" /\ c[k] = "PENDING"
           /\ \E o \in Offers : o # r.id /\ k = TheOffer(o)
<1>1. L(r) \in Listings
  BY RequestKeys
<1>2. c[OffersOn(L(r))] \subseteq Offers
  BY <1>1 DEF Shaped
<1> SUFFICES ASSUME NEW k \in Superseded(r, c)
             PROVE  /\ Value(r, c, k) = "SUPERSEDED" /\ c[k] = "PENDING"
                    /\ \E o \in Offers : o # r.id /\ k = TheOffer(o)
  OBVIOUS
<1>3. PICK o \in Offers : o # r.id /\ k = TheOffer(o) /\ c[k] = "PENDING"
  BY <1>2 DEF Superseded
<1>4. k \in Puts(r) /\ New(r, k, c) = "SUPERSEDED"
  BY <1>3 DEF New, Puts, Passp, PassportOf, Nonce, Listg, TheListing, Offr, TheOffer, Deall, TheDeal
<1> QED  BY <1>3, <1>4, ValueIs

\* What a handler that has been granted everything has found, by its kind.
LEMMA FoundAll ==
  ASSUME NEW r \in Requests, NEW c, Cleared(r, c)
  PROVE  /\ r.kind = "claim" => c[Passp(r)].operator \in {None, r.by}
         /\ r.kind = "list" =>
              /\ c[Passp(r)].operator = SellerOf[r.id]
              /\ c[Listg(r)].status = "ABSENT"
         /\ r.kind = "cancel-listing" => c[Listg(r)].status = "ACTIVE"
         /\ r.kind = "offer" =>
              /\ c[Listg(r)].status = "ACTIVE"
              /\ c[Offr(r)] = "ABSENT"
         /\ r.kind = "accept" => c[Offr(r)] = "PENDING" /\ c[Listg(r)].status = "ACTIVE"
         /\ r.kind = "reject" => c[Offr(r)] = "PENDING"
         /\ r.kind = "transfer-intent" =>
              /\ c[Deall(r)].status = "OPEN"
              /\ c[Passp(r)].operator = SellerIn(r.id)
         /\ r.kind = "transfer-accept" =>
              /\ c[Deall(r)].status = "OPEN" /\ c[Deall(r)].intent
              /\ c[Passp(r)].operator = SellerIn(r.id)
         /\ r.kind = "fee-right-evidence" => c[Deall(r)].status # "ABSENT"
         /\ r.kind = "payment-evidence" =>
              /\ c[Deall(r)].status # "ABSENT"
              /\ c[PayTx(r.tx)] = None /\ r.id \in Pays[r.tx]
         /\ r.kind = "confirm-payment" => c[Deall(r)].status = "OPEN"
         /\ r.kind = "confirm-asset" => c[Deall(r)].status = "OPEN"
         /\ r.kind = "confirm-complete" => c[Deall(r)].status = "OPEN"
         /\ r.kind = "deal-cancel" => c[Deall(r)].status = "OPEN"
<1>1. CASE r.kind = "claim"
  <2>1. c[Passp(r)].operator \in {None, r.by}
    <3>1. Passp(r) \in MustRead(r, c)
      BY <1>1 DEF MustRead, FrontKeys, First
    <3>2. May(r, Get(Passp(r)), c)
      BY <3>1 DEF Cleared
    <3> QED  BY <1>1, <3>2 DEF May, Get, Passp, PassportOf, Nonce, Listg, TheListing, Offr, TheOffer, Deall, TheDeal, PayTx
  <2> QED  BY <1>1, <2>1
<1>2. CASE r.kind = "list"
  <2>1. c[Passp(r)].operator = SellerOf[r.id]
    <3>1. Passp(r) \in MustRead(r, c)
      BY <1>2 DEF MustRead, FrontKeys, First
    <3>2. May(r, Get(Passp(r)), c)
      BY <3>1 DEF Cleared
    <3> QED  BY <1>2, <3>2 DEF May, Get, Passp, PassportOf, Nonce, Listg, TheListing, Offr, TheOffer, Deall, TheDeal, PayTx
  <2>2. c[Listg(r)].status = "ABSENT"
    <3>1. Listg(r) \in MustRead(r, c)
      BY <1>2 DEF MustRead, FrontKeys, First
    <3>2. May(r, Get(Listg(r)), c)
      BY <3>1 DEF Cleared
    <3> QED  BY <1>2, <3>2 DEF May, Get, Passp, PassportOf, Nonce, Listg, TheListing, Offr, TheOffer, Deall, TheDeal, PayTx
  <2> QED  BY <1>2, <2>1, <2>2
<1>3. CASE r.kind = "cancel-listing"
  <2>1. c[Listg(r)].status = "ACTIVE"
    <3>1. Listg(r) \in MustRead(r, c)
      BY <1>3 DEF MustRead, FrontKeys, First
    <3>2. May(r, Get(Listg(r)), c)
      BY <3>1 DEF Cleared
    <3> QED  BY <1>3, <3>2 DEF May, Get, Passp, PassportOf, Nonce, Listg, TheListing, Offr, TheOffer, Deall, TheDeal, PayTx
  <2> QED  BY <1>3, <2>1
<1>4. CASE r.kind = "offer"
  <2>1. c[Listg(r)].status = "ACTIVE"
    <3>1. Listg(r) \in MustRead(r, c)
      BY <1>4 DEF MustRead, FrontKeys, First
    <3>2. May(r, Get(Listg(r)), c)
      BY <3>1 DEF Cleared
    <3> QED  BY <1>4, <3>2 DEF May, Get, Passp, PassportOf, Nonce, Listg, TheListing, Offr, TheOffer, Deall, TheDeal, PayTx
  <2>2. c[Offr(r)] = "ABSENT"
    <3>1. Offr(r) \in MustRead(r, c)
      BY <1>4 DEF MustRead, FrontKeys, First
    <3>2. May(r, Get(Offr(r)), c)
      BY <3>1 DEF Cleared
    <3> QED  BY <1>4, <3>2 DEF May, Get, Passp, PassportOf, Nonce, Listg, TheListing, Offr, TheOffer, Deall, TheDeal, PayTx
  <2> QED  BY <1>4, <2>1, <2>2
<1>5. CASE r.kind = "accept"
  <2>1. c[Offr(r)] = "PENDING" /\ c[Listg(r)].status = "ACTIVE"
    <3>1. Offr(r) \in MustRead(r, c)
      BY <1>5 DEF MustRead, FrontKeys, First
    <3>2. May(r, Get(Offr(r)), c)
      BY <3>1 DEF Cleared
    <3> QED  BY <1>5, <3>2 DEF May, Get, Passp, PassportOf, Nonce, Listg, TheListing, Offr, TheOffer, Deall, TheDeal, PayTx
  <2> QED  BY <1>5, <2>1
<1>6. CASE r.kind = "reject"
  <2>1. c[Offr(r)] = "PENDING"
    <3>1. Offr(r) \in MustRead(r, c)
      BY <1>6 DEF MustRead, FrontKeys, First
    <3>2. May(r, Get(Offr(r)), c)
      BY <3>1 DEF Cleared
    <3> QED  BY <1>6, <3>2 DEF May, Get, Passp, PassportOf, Nonce, Listg, TheListing, Offr, TheOffer, Deall, TheDeal, PayTx
  <2> QED  BY <1>6, <2>1
<1>7. CASE r.kind = "transfer-intent"
  <2>1. c[Deall(r)].status = "OPEN"
    <3>1. Deall(r) \in MustRead(r, c)
      BY <1>7 DEF MustRead, FrontKeys, First
    <3>2. May(r, Get(Deall(r)), c)
      BY <3>1 DEF Cleared
    <3> QED  BY <1>7, <3>2 DEF May, Get, Passp, PassportOf, Nonce, Listg, TheListing, Offr, TheOffer, Deall, TheDeal, PayTx
  <2>2. c[Passp(r)].operator = SellerIn(r.id)
    <3>1. Passp(r) \in MustRead(r, c)
      BY <1>7 DEF MustRead, FrontKeys, First
    <3>2. May(r, Get(Passp(r)), c)
      BY <3>1 DEF Cleared
    <3> QED  BY <1>7, <3>2 DEF May, Get, Passp, PassportOf, Nonce, Listg, TheListing, Offr, TheOffer, Deall, TheDeal, PayTx
  <2> QED  BY <1>7, <2>1, <2>2
<1>8. CASE r.kind = "transfer-accept"
  <2>1. c[Deall(r)].status = "OPEN" /\ c[Deall(r)].intent
    <3>1. Deall(r) \in MustRead(r, c)
      BY <1>8 DEF MustRead, FrontKeys, First
    <3>2. May(r, Get(Deall(r)), c)
      BY <3>1 DEF Cleared
    <3> QED  BY <1>8, <3>2 DEF May, Get, Passp, PassportOf, Nonce, Listg, TheListing, Offr, TheOffer, Deall, TheDeal, PayTx
  <2>2. c[Passp(r)].operator = SellerIn(r.id)
    <3>1. Passp(r) \in MustRead(r, c)
      BY <1>8 DEF MustRead, FrontKeys, First
    <3>2. May(r, Get(Passp(r)), c)
      BY <3>1 DEF Cleared
    <3> QED  BY <1>8, <3>2 DEF May, Get, Passp, PassportOf, Nonce, Listg, TheListing, Offr, TheOffer, Deall, TheDeal, PayTx
  <2> QED  BY <1>8, <2>1, <2>2
<1>9. CASE r.kind = "fee-right-evidence"
  <2>1. c[Deall(r)].status # "ABSENT"
    <3>1. Deall(r) \in MustRead(r, c)
      BY <1>9 DEF MustRead, FrontKeys, First
    <3>2. May(r, Get(Deall(r)), c)
      BY <3>1 DEF Cleared
    <3> QED  BY <1>9, <3>2 DEF May, Get, Passp, PassportOf, Nonce, Listg, TheListing, Offr, TheOffer, Deall, TheDeal, PayTx
  <2> QED  BY <1>9, <2>1
<1>10. CASE r.kind = "payment-evidence"
  <2>1. c[Deall(r)].status # "ABSENT"
    <3>1. Deall(r) \in MustRead(r, c)
      BY <1>10 DEF MustRead, FrontKeys, First
    <3>2. May(r, Get(Deall(r)), c)
      BY <3>1 DEF Cleared
    <3> QED  BY <1>10, <3>2 DEF May, Get, Passp, PassportOf, Nonce, Listg, TheListing, Offr, TheOffer, Deall, TheDeal, PayTx
  <2>2. c[PayTx(r.tx)] = None /\ r.id \in Pays[r.tx]
    <3>1. PayTx(r.tx) \in MustRead(r, c)
      BY <1>10 DEF MustRead, FrontKeys, First
    <3>2. May(r, Get(PayTx(r.tx)), c)
      BY <3>1 DEF Cleared
    <3> QED  BY <1>10, <3>2 DEF May, Get, Passp, PassportOf, Nonce, Listg, TheListing, Offr, TheOffer, Deall, TheDeal, PayTx
  <2> QED  BY <1>10, <2>1, <2>2
<1>11. CASE r.kind = "confirm-payment"
  <2>1. c[Deall(r)].status = "OPEN"
    <3>1. Deall(r) \in MustRead(r, c)
      BY <1>11 DEF MustRead, FrontKeys, First
    <3>2. May(r, Get(Deall(r)), c)
      BY <3>1 DEF Cleared
    <3> QED  BY <1>11, <3>2 DEF May, Get, Passp, PassportOf, Nonce, Listg, TheListing, Offr, TheOffer, Deall, TheDeal, PayTx
  <2> QED  BY <1>11, <2>1
<1>12. CASE r.kind = "confirm-asset"
  <2>1. c[Deall(r)].status = "OPEN"
    <3>1. Deall(r) \in MustRead(r, c)
      BY <1>12 DEF MustRead, FrontKeys, First
    <3>2. May(r, Get(Deall(r)), c)
      BY <3>1 DEF Cleared
    <3> QED  BY <1>12, <3>2 DEF May, Get, Passp, PassportOf, Nonce, Listg, TheListing, Offr, TheOffer, Deall, TheDeal, PayTx
  <2> QED  BY <1>12, <2>1
<1>13. CASE r.kind = "confirm-complete"
  <2>1. c[Deall(r)].status = "OPEN"
    <3>1. Deall(r) \in MustRead(r, c)
      BY <1>13 DEF MustRead, FrontKeys, First
    <3>2. May(r, Get(Deall(r)), c)
      BY <3>1 DEF Cleared
    <3> QED  BY <1>13, <3>2 DEF May, Get, Passp, PassportOf, Nonce, Listg, TheListing, Offr, TheOffer, Deall, TheDeal, PayTx
  <2> QED  BY <1>13, <2>1
<1>14. CASE r.kind = "deal-cancel"
  <2>1. c[Deall(r)].status = "OPEN"
    <3>1. Deall(r) \in MustRead(r, c)
      BY <1>14 DEF MustRead, FrontKeys, First
    <3>2. May(r, Get(Deall(r)), c)
      BY <3>1 DEF Cleared
    <3> QED  BY <1>14, <3>2 DEF May, Get, Passp, PassportOf, Nonce, Listg, TheListing, Offr, TheOffer, Deall, TheDeal, PayTx
  <2> QED  BY <1>14, <2>1
<1> QED  BY <1>1, <1>2, <1>3, <1>4, <1>5, <1>6, <1>7, <1>8, <1>9, <1>10, <1>11, <1>12, <1>13, <1>14

\* The rows of the index that a listing has read.
LEMMA RowsFound ==
  ASSUME NEW r \in Requests, NEW c, Shaped(c), Cleared(r, c), r.kind = "list",
         NEW l \in c[Index], TokenOf[l] = T(r)
  PROVE  c[TheListing(l)].status # "ACTIVE"
<1>1. TheListing(l) \in MustRead(r, c)
  BY DEF MustRead
<1>2. May(r, Get(TheListing(l)), c)
  BY <1>1 DEF Cleared
<1>3. l \in Listings
  BY DEF Shaped
<1> QED  BY <1>2, <1>3 DEF May, Get

\* The base with some of the writes made, those that come first before the
\* others.
Led(r, c, v) ==
  \E X \in SUBSET Writes(r, c) :
    /\ v = StoreAt(r, c, X)
    /\ \A x, y \in Keys : Precedes(r, x, y) /\ y \in X => x \in X
    /\ Granted(r, c) \/ X \subseteq {Nonce(r)}

\* A Passport that is written records what it did, and the transfer.
LEMMA RecordsThen ==
  ASSUME NEW r \in Requests, NEW c, Shaped(c), NEW o \in Offers,
         Passp(r) \in Writes(r, c), Records(Value(r, c, Passp(r)), o)
  PROVE  Records(c[Passp(r)], o) \/ (r.kind = "transfer-accept" /\ o = r.id)
<1>1. T(r) \in Tokens /\ c[Passp(r)] \in Passport
  BY RequestKeys DEF Passp, Shaped
<1>2. PICK p : p = c[Passp(r)]
  OBVIOUS
<1>3. PICK w : w = Value(r, c, Passp(r))
  OBVIOUS
<1>4. p \in Passport /\ Records(w, o) /\ o # None
  BY <1>1, <1>2, <1>3, MarketConstants
<1>5. CASE r.kind = "claim"
  <2>1. w = WithClaim(p, r.by)
    BY <1>2, <1>3, <1>5, ValuesAre
  <2> QED  BY <1>2, <1>4, <2>1 DEF WithClaim, Records
<1>6. CASE r.kind = "list"
  <2>1. w = [p EXCEPT !.listing = r.id]
    BY <1>2, <1>3, <1>6, ValuesAre
  <2> QED  BY <1>2, <1>4, <2>1 DEF Records, Passport
<1>7. CASE r.kind \in {"cancel-listing", "confirm-complete"}
  <2>1. w = Unlisted(p, L(r))
    BY <1>2, <1>3, <1>7, ValuesAre
  <2> QED  BY <1>2, <1>4, <2>1 DEF Records, Passport, Unlisted
<1>8. CASE r.kind = "transfer-accept"
  <2>1. w = WithTransfer(p, r.id)
    BY <1>2, <1>3, <1>8, ValuesAre
  <2>2. PICK h : h = p.history
    OBVIOUS
  <2>3. h \in Seq(Move)
    BY <1>4, <2>2 DEF Passport
  <2>4. PICK x : x = [from |-> SellerIn(r.id), to |-> BuyerOf[r.id], deal |-> r.id]
    OBVIOUS
  <2>5. w.history = Append(h, x)
    BY <1>4, <2>1, <2>2, <2>4 DEF WithTransfer, Passport
  <2>6. PICK j \in DOMAIN Append(h, x) : Append(h, x)[j].deal = o
    BY <1>4, <2>5 DEF Records
  <2>7. (j \in DOMAIN h /\ Append(h, x)[j] = h[j]) \/ Append(h, x)[j] = x
    BY <2>3, <2>6, SMT
  <2>8. CASE j \in DOMAIN h /\ Append(h, x)[j] = h[j]
    BY <1>2, <2>2, <2>6, <2>8 DEF Records
  <2>9. CASE Append(h, x)[j] = x
    BY <1>8, <2>4, <2>6, <2>9
  <2> QED  BY <2>7, <2>8, <2>9
<1>9. CASE r.kind = "deal-cancel"
  <2>1. w = p
    BY <1>2, <1>3, <1>9, ValuesAre
  <2> QED  BY <1>2, <1>4, <2>1
<1>10. r.kind \in Kinds
  BY RequestKeys
<1>11. ASSUME r.kind \in {"offer", "accept", "reject", "transfer-intent", "fee-right-evidence",
                          "payment-evidence", "confirm-payment", "confirm-asset"}
       PROVE  FALSE
  <2>1. CASE r.kind = "accept"
    <3>1. Passp(r) \in {Nonce(r), Offr(r), Listg(r), Deall(r)} \cup Superseded(r, c)
      BY <2>1, WritesAre
    <3>2. Passp(r) \notin Superseded(r, c)
      BY KeyTags DEF Superseded
    <3> QED  BY <3>1, <3>2, KeyTags
  <2>2. CASE r.kind = "transfer-intent"
    <3>1. Passp(r) \in {Nonce(r), Deall(r), Listg(r)}
      BY <2>2, WritesAre
    <3> QED  BY <3>1, KeyTags
  <2>3. CASE r.kind \notin {"accept", "transfer-intent"}
    <3>1. Passp(r) \in {Nonce(r), Offr(r), OffersOn(L(r)), PayTx(r.tx), Deall(r)}
      BY <1>11, <2>3, WritesAre
    <3> QED  BY <3>1, KeyTags
  <2> QED  BY <2>1, <2>2, <2>3
<1> QED  BY <1>5, <1>6, <1>7, <1>8, <1>9, <1>10, <1>11 DEF Kinds

\* A deal that is written stays, or becomes, one.
LEMMA DealThen ==
  ASSUME NEW r \in Requests, NEW c, Shaped(c), Granted(r, c), Deall(r) \in Writes(r, c),
         NEW d, d = Value(r, c, Deall(r)), NEW e, e = c[Deall(r)]
  PROVE  /\ r.id \in Offers /\ e \in Deal
         /\ d.status # "ABSENT"
         /\ r.kind = "accept" => d.payTx = None /\ c[Offr(r)] = "PENDING"
         /\ r.kind # "accept" => e.status # "ABSENT" /\ (e.moved => d.moved)
         /\ r.kind = "transfer-accept" => d.moved
         /\ d.payTx = IF r.kind = "accept" THEN None
                      ELSE IF r.kind = "payment-evidence" THEN r.tx ELSE e.payTx
<1>1. r.kind \in {"accept", "transfer-intent", "transfer-accept", "fee-right-evidence", "payment-evidence",
                  "confirm-payment", "confirm-asset", "confirm-complete"}
  <2>1. r.kind \in Kinds
    BY RequestKeys
  <2>2. ASSUME r.kind \in {"claim", "list", "cancel-listing", "offer", "reject", "deal-cancel"}
        PROVE  FALSE
    <3>1. Deall(r) \in {Nonce(r), Offr(r), OffersOn(L(r)), Listg(r), Index, Passp(r)}
      BY <2>2, WritesAre
    <3> QED  BY <3>1, KeyTags
  <2> QED  BY <2>1, <2>2 DEF Kinds
<1>2. r.id \in Offers
  BY <1>1, RequestKeys
<1>3. e \in Deal
  BY <1>2 DEF Shaped, Deall
<1>4. Cleared(r, c)
  BY DEF Granted
<1>5. r.kind # "accept" => e.status # "ABSENT"
  <2>1. r.kind \in {"fee-right-evidence", "payment-evidence"} => e.status # "ABSENT"
    BY <1>4, FoundAll
  <2>2. r.kind \in {"transfer-intent", "transfer-accept", "confirm-payment", "confirm-asset",
                    "confirm-complete"} => e.status = "OPEN"
    BY <1>4, FoundAll
  <2> QED  BY <1>1, <2>1, <2>2
<1>6. CASE r.kind = "accept"
  <2>1. d = FreshDeal /\ c[Offr(r)] = "PENDING"
    BY <1>4, <1>6, ValuesAre, FoundAll
  <2> QED  BY <1>2, <1>3, <1>6, <2>1 DEF FreshDeal
<1>7. CASE r.kind = "transfer-intent"
  <2>1. d = [e EXCEPT !.intent = TRUE]
    BY <1>7, ValuesAre
  <2> QED  BY <1>2, <1>3, <1>5, <1>7, <2>1 DEF Deal
<1>8. CASE r.kind = "transfer-accept"
  <2>1. d = [e EXCEPT !.moved = TRUE]
    BY <1>8, ValuesAre
  <2> QED  BY <1>2, <1>3, <1>5, <1>8, <2>1 DEF Deal
<1>9. CASE r.kind = "fee-right-evidence"
  <2>1. d = [e EXCEPT !.feeTx = r.tx]
    BY <1>9, ValuesAre
  <2> QED  BY <1>2, <1>3, <1>5, <1>9, <2>1 DEF Deal
<1>10. CASE r.kind = "payment-evidence"
  <2>1. d = [e EXCEPT !.payTx = r.tx]
    BY <1>10, ValuesAre
  <2> QED  BY <1>2, <1>3, <1>5, <1>10, <2>1 DEF Deal
<1>11. CASE r.kind = "confirm-payment"
  <2>1. d = [e EXCEPT !.payBy = @ \cup {r.by}]
    BY <1>11, ValuesAre
  <2> QED  BY <1>2, <1>3, <1>5, <1>11, <2>1 DEF Deal
<1>12. CASE r.kind = "confirm-asset"
  <2>1. d = [e EXCEPT !.assetBy = @ \cup {r.by}]
    BY <1>12, ValuesAre
  <2> QED  BY <1>2, <1>3, <1>5, <1>12, <2>1 DEF Deal
<1>13. CASE r.kind = "confirm-complete"
  <2>1. d = WithComplete(r.id, e, r.by)
    BY <1>13, ValuesAre
  <2>2. d.status # "ABSENT" /\ d.moved = e.moved /\ d.payTx = e.payTx
    BY <1>3, <1>5, <1>13, <2>1 DEF WithComplete, Deal
  <2> QED  BY <1>2, <1>3, <1>5, <1>13, <2>2
<1> QED  BY <1>1, <1>6, <1>7, <1>8, <1>9, <1>10, <1>11, <1>12, <1>13

\* An offer that is written was not accepted before, or is not any more.
LEMMA OfferThen ==
  ASSUME NEW r \in Requests, NEW c, Shaped(c), Granted(r, c), NEW o \in Offers, TheOffer(o) \in Writes(r, c)
  PROVE  \/ Value(r, c, TheOffer(o)) \in {"ACCEPTED", "DEAL_CANCELLED"}
         \/ c[TheOffer(o)] \in {"ABSENT", "PENDING"}
<1>1. Cleared(r, c)
  BY DEF Granted
<1>2. CASE r.kind = "accept"
  <2>1. TheOffer(o) = Offr(r) \/ TheOffer(o) \in Superseded(r, c)
    <3>1. TheOffer(o) \in {Nonce(r), Offr(r), Listg(r), Deall(r)} \cup Superseded(r, c)
      BY <1>2, WritesAre
    <3> QED  BY <3>1, KeyTags
  <2>2. Value(r, c, Offr(r)) = "ACCEPTED"
    BY <1>2, ValuesAre
  <2>3. TheOffer(o) \in Superseded(r, c) => c[TheOffer(o)] = "PENDING"
    BY <1>2, SupersededIs
  <2> QED  BY <2>1, <2>2, <2>3
<1>3. CASE r.kind \in {"offer", "reject"}
  <2>1. TheOffer(o) = Offr(r)
    <3>1. TheOffer(o) \in {Nonce(r), Offr(r), OffersOn(L(r))}
      BY <1>3, WritesAre
    <3> QED  BY <3>1, KeyTags
  <2>2. c[Offr(r)] \in {"ABSENT", "PENDING"}
    BY <1>1, <1>3, FoundAll
  <2> QED  BY <2>1, <2>2
<1>4. CASE r.kind = "deal-cancel"
  <2>1. TheOffer(o) = Offr(r)
    <3>1. TheOffer(o) \in {Nonce(r), Listg(r), Offr(r), Passp(r)}
      BY <1>4, WritesAre
    <3> QED  BY <3>1, KeyTags
  <2>2. Value(r, c, Offr(r)) = "DEAL_CANCELLED"
    BY <1>4, ValuesAre
  <2> QED  BY <2>1, <2>2
<1>5. ASSUME r.kind \notin {"accept", "offer", "reject", "deal-cancel"}
      PROVE  FALSE
  <2>1. r.kind \in Kinds
    BY RequestKeys
  <2>2. TheOffer(o) \in {Nonce(r), Listg(r), Index, Deall(r), Passp(r), PayTx(r.tx)}
    BY <1>5, <2>1, WritesAre DEF Kinds
  <2> QED  BY <2>2, KeyTags
<1> QED  BY <1>2, <1>3, <1>4, <1>5

\* A payment that is written was attached to no deal.
LEMMA PaymentThen ==
  ASSUME NEW r \in Requests, NEW c, Shaped(c), NEW x, PayTx(x) \in Writes(r, c)
  PROVE  /\ r.kind = "payment-evidence" /\ PayTx(x) = PayTx(r.tx) /\ Value(r, c, PayTx(x)) = r.id
         /\ Granted(r, c) => c[PayTx(x)] = None
<1>1. r.kind = "payment-evidence"
  <2>1. r.kind \in Kinds
    BY RequestKeys
  <2>2. CASE r.kind = "accept"
    <3>1. PayTx(x) \in {Nonce(r), Offr(r), Listg(r), Deall(r)} \cup Superseded(r, c)
      BY <2>2, WritesAre
    <3>2. PayTx(x) \notin Superseded(r, c)
      BY KeyTags DEF Superseded
    <3> QED  BY <3>1, <3>2, KeyTags
  <2>3. ASSUME r.kind \notin {"accept", "payment-evidence"}
        PROVE  FALSE
    <3>1. PayTx(x) \in {Nonce(r), Listg(r), Index, Deall(r), Passp(r), Offr(r), OffersOn(L(r))}
      BY <2>1, <2>3, WritesAre DEF Kinds
    <3> QED  BY <3>1, KeyTags
  <2> QED  BY <2>2, <2>3
<1>2. PayTx(x) \in {PayTx(r.tx), Deall(r)}
  BY <1>1, WritesAre
<1>3. PayTx(x) = PayTx(r.tx)
  BY <1>2, KeyTags
<1>4. Value(r, c, PayTx(r.tx)) = r.id
  BY <1>1, ValuesAre
<1>5. Granted(r, c) => c[PayTx(r.tx)] = None
  BY <1>1, FoundAll DEF Granted
<1> QED  BY <1>1, <1>3, <1>4, <1>5

\* The records that a handler writes are those it is about, but for the offers
\* that an acceptance supersedes.
LEMMA PassportWritten ==
  ASSUME NEW r \in Requests, NEW c, NEW k \in Writes(r, c)
  PROVE  /\ k[1] = "passport" => k = Passp(r)
         /\ k[1] = "deal" => k = Deall(r)
         /\ k[1] = "listing" => k = Listg(r) /\ r.kind # "claim"
         /\ k[1] = "paytx" => k = PayTx(r.tx)
         /\ k[1] = "offer" => k = Offr(r) \/ (r.kind = "accept" /\ k \in Superseded(r, c))
         /\ k[1] = "listings" => k = Index /\ r.kind = "list"
         /\ k[1] = "offers" => k = OffersOn(L(r)) /\ r.kind = "offer"
<1>1. r.kind \in Kinds
  BY RequestKeys
<1>2. CASE r.kind = "accept"
  <2>1. k \in {Nonce(r), Offr(r), Listg(r), Deall(r)} \cup Superseded(r, c)
    BY <1>2, WritesAre
  <2>2. k \in Superseded(r, c) => k[1] = "offer"
    BY KeyTags DEF Superseded
  <2> QED  BY <1>2, <2>1, <2>2, KeyTags
<1>3. CASE r.kind = "list"
  <2>1. k \in {Nonce(r), Listg(r), Index, Passp(r)}
    BY <1>3, WritesAre
  <2> QED  BY <1>3, <2>1, KeyTags
<1>4. CASE r.kind = "offer"
  <2>1. k \in {Nonce(r), Offr(r), OffersOn(L(r))}
    BY <1>4, WritesAre
  <2> QED  BY <1>4, <2>1, KeyTags
<1>5. CASE r.kind = "claim"
  <2>1. k \in {Nonce(r), Passp(r)}
    BY <1>5, WritesAre
  <2> QED  BY <1>5, <2>1, KeyTags
<1>6. CASE r.kind \notin {"accept", "list", "offer", "claim"}
  <2>1. k \in {Nonce(r), Listg(r), Deall(r), Passp(r), Offr(r), PayTx(r.tx)}
    BY <1>1, <1>6, WritesAre DEF Kinds
  <2> QED  BY <1>6, <2>1, KeyTags
<1> QED  BY <1>2, <1>3, <1>4, <1>5, <1>6

\* A key of a partly written base.
LEMMA LedAt ==
  ASSUME NEW r, NEW c, NEW X, NEW k \in Keys
  PROVE  StoreAt(r, c, X)[k] = c[k] \/ (k \in X /\ StoreAt(r, c, X)[k] = Value(r, c, k))
BY StoreHas

\* The deals, offers, payments and Passports of a partly written base are in
\* step, for each offer o.
LEMMA LedInStep ==
  ASSUME NEW r \in Requests, NEW c, Shaped(c), InStep(c), NEW v, Led(r, c, v)
  PROVE  InStep(v)
<1>1. PICK X \in SUBSET Writes(r, c) :
        /\ v = StoreAt(r, c, X)
        /\ \A x, y \in Keys : Precedes(r, x, y) /\ y \in X => x \in X
        /\ Granted(r, c) \/ X \subseteq {Nonce(r)}
  BY DEF Led
<1> SUFFICES ASSUME NEW o \in Offers
             PROVE  /\ Records(v[PassportOf(TokenIn(o))], o) => v[TheDeal(o)].moved
                    /\ v[TheDeal(o)].payTx # None => v[PayTx(v[TheDeal(o)].payTx)] = o
                    /\ IF v[TheDeal(o)].status = "ABSENT" THEN v[TheDeal(o)] = NoDeal
                       ELSE v[TheOffer(o)] \in {"ACCEPTED", "DEAL_CANCELLED"}
  BY DEF InStep
<1>2. PICK P, D, O : P = PassportOf(TokenIn(o)) /\ D = TheDeal(o) /\ O = TheOffer(o)
  OBVIOUS
<1>3. P \in Keys /\ D \in Keys /\ O \in Keys /\ P[1] = "passport" /\ D[1] = "deal" /\ O[1] = "offer"
  <2>1. TokenIn(o) \in Tokens
    BY MarketConstants DEF TokenIn
  <2> QED  BY <1>2, <2>1, KeyTags DEF Keys
<1>4. PICK p, d, e : p = c[P] /\ d = c[D] /\ e = c[O]
  OBVIOUS
<1>5. /\ Records(p, o) => d.moved
      /\ d.payTx # None => c[PayTx(d.payTx)] = o
      /\ IF d.status = "ABSENT" THEN d = NoDeal ELSE e \in {"ACCEPTED", "DEAL_CANCELLED"}
  BY <1>2, <1>4 DEF InStep
<1>6. d \in Deal
  BY <1>2, <1>4 DEF Shaped
<1>7. ~NoDeal.moved /\ NoDeal.payTx = None /\ NoDeal.status = "ABSENT"
  BY DEF NoDeal, FreshDeal
<1>8. Nonce(r)[1] = "nonce" /\ Passp(r)[1] = "passport" /\ Deall(r)[1] = "deal" /\ Offr(r)[1] = "offer"
  BY KeyTags
<1>9. PICK np, nd, no : np = v[P] /\ nd = v[D] /\ no = v[O]
  OBVIOUS
<1>10. /\ np = p \/ (P \in X /\ np = Value(r, c, P))
       /\ nd = d \/ (D \in X /\ nd = Value(r, c, D))
       /\ no = e \/ (O \in X /\ no = Value(r, c, O))
  BY <1>1, <1>3, <1>4, <1>9, LedAt
<1>11. P \in X \/ D \in X \/ O \in X => Granted(r, c)
  BY <1>1, <1>3, <1>8
<1>12. ASSUME P \in X
       PROVE  P = Passp(r)
  <2>1. P \in Writes(r, c)
    BY <1>1, <1>12
  <2> QED  BY <1>3, <2>1, PassportWritten
<1>13. ASSUME D \in X
       PROVE  D = Deall(r) /\ r.id = o
  <2>1. D \in Writes(r, c)
    BY <1>1, <1>13
  <2>2. D = Deall(r)
    BY <1>3, <2>1, PassportWritten
  <2> QED  BY <1>2, <2>2 DEF Deall, TheDeal
<1>14. ASSUME D \in X
       PROVE  /\ nd = Value(r, c, Deall(r)) /\ d = c[Deall(r)] /\ Deall(r) \in Writes(r, c) /\ Granted(r, c)
              /\ O = Offr(r)
  <2>1. nd = Value(r, c, D)
    BY <1>1, <1>3, <1>9, <1>14, StoreHas
  <2> QED  BY <1>1, <1>2, <1>4, <1>11, <1>13, <1>14, <2>1 DEF Offr
<1>15. PICK K : K = PayTx(d.payTx)
  OBVIOUS
<1>16. d.payTx # None => K \in Keys /\ K[1] = "paytx"
  BY <1>6, <1>15, KeyTags DEF Deal, Keys
<1>17. d.status = "ABSENT" => ~d.moved /\ d.payTx = None
  BY <1>5, <1>7
<1>18. ASSUME Records(np, o)
       PROVE  nd.moved
  <2>1. Records(p, o) \/ (P \in X /\ r.kind = "transfer-accept" /\ o = r.id)
    <3>1. CASE np = p
      BY <1>18, <3>1
    <3>2. CASE P \in X /\ np = Value(r, c, P)
      <4>1. P = Passp(r) /\ P \in Writes(r, c)
        BY <1>1, <1>12, <3>2
      <4> QED  BY <1>4, <1>18, <3>2, <4>1, RecordsThen
    <3> QED  BY <1>10, <3>1, <3>2
  <2>2. CASE Records(p, o)
    <3>1. d.moved /\ e \in {"ACCEPTED", "DEAL_CANCELLED"}
      BY <1>5, <1>17, <2>2
    <3>2. ASSUME D \in X
          PROVE  nd.moved
      <4>1. (r.kind = "accept" => c[Offr(r)] = "PENDING") /\ (r.kind # "accept" => nd.moved)
        BY <1>14, <3>1, <3>2, DealThen
      <4>2. c[Offr(r)] = e
        BY <1>4, <1>14, <3>2
      <4> QED  BY <3>1, <4>1, <4>2
    <3> QED  BY <1>10, <3>1, <3>2
  <2>3. CASE P \in X /\ r.kind = "transfer-accept" /\ o = r.id
    <3>1. D = Deall(r) /\ P = Passp(r)
      BY <1>2, <1>12, <2>3 DEF Deall
    <3>2. D \in X
      BY <1>1, <1>3, <2>3, <3>1 DEF Precedes
    <3> QED  BY <1>14, <2>3, <3>2, DealThen
  <2> QED  BY <2>1, <2>2, <2>3
<1>19. ASSUME nd.payTx # None
       PROVE  v[PayTx(nd.payTx)] = o
  <2>1. CASE nd.payTx = d.payTx
    <3>1. K \in Keys /\ K[1] = "paytx" /\ c[K] = o
      BY <1>5, <1>15, <1>16, <1>19, <2>1
    <3>2. ASSUME K \in X
          PROVE  FALSE
      <4>1. Granted(r, c)
        BY <1>1, <1>8, <3>1, <3>2
      <4>2. c[K] = None
        BY <1>1, <1>15, <3>2, <4>1, PaymentThen
      <4> QED  BY <3>1, <4>2, MarketConstants
    <3>3. v[K] = c[K]
      BY <1>1, <3>1, <3>2, LedAt
    <3> QED  BY <1>15, <2>1, <3>1, <3>3
  <2>2. CASE nd.payTx # d.payTx
    <3>1. D \in X
      BY <1>10, <2>2
    <3>2. nd.payTx = IF r.kind = "accept" THEN None
                     ELSE IF r.kind = "payment-evidence" THEN r.tx ELSE d.payTx
      BY <1>14, <3>1, DealThen
    <3>3. r.kind = "payment-evidence" /\ nd.payTx = r.tx
      BY <1>19, <2>2, <3>2
    <3>4. PayTx(r.tx) \in Keys /\ D = Deall(r) /\ r.id = o
      BY <1>13, <3>1, <3>3, RequestKeys DEF HasNonce
    <3>5. PayTx(r.tx) \in X
      BY <1>1, <1>3, <3>1, <3>3, <3>4 DEF Precedes
    <3>6. v[PayTx(r.tx)] = Value(r, c, PayTx(r.tx))
      BY <1>1, <3>4, <3>5, StoreHas
    <3>7. Value(r, c, PayTx(r.tx)) = r.id
      BY <3>3, ValuesAre
    <3> QED  BY <3>3, <3>4, <3>6, <3>7
  <2> QED  BY <2>1, <2>2
<1>20. IF nd.status = "ABSENT" THEN nd = NoDeal ELSE no \in {"ACCEPTED", "DEAL_CANCELLED"}
  <2>1. CASE nd.status = "ABSENT"
    <3>1. D \notin X
      BY <1>14, <2>1, DealThen
    <3> QED  BY <1>5, <1>10, <2>1, <3>1
  <2>2. CASE nd.status # "ABSENT" /\ d.status = "ABSENT"
    <3>1. D \in X
      BY <1>10, <2>2
    <3>2. r.kind = "accept"
      BY <1>14, <2>2, <3>1, DealThen
    <3>3. D = Deall(r) /\ O = Offr(r)
      BY <1>13, <1>14, <3>1
    <3>4. O \in X
      BY <1>1, <1>3, <3>1, <3>2, <3>3 DEF Precedes
    <3>5. no = Value(r, c, O)
      BY <1>1, <1>3, <1>9, <3>4, StoreHas
    <3>6. Value(r, c, Offr(r)) = "ACCEPTED"
      BY <3>2, ValuesAre
    <3> QED  BY <2>2, <3>3, <3>5, <3>6
  <2>3. CASE nd.status # "ABSENT" /\ d.status # "ABSENT"
    <3>1. e \in {"ACCEPTED", "DEAL_CANCELLED"}
      BY <1>5, <2>3
    <3>2. CASE no = e
      BY <2>3, <3>1, <3>2
    <3>3. CASE O \in X /\ no = Value(r, c, O)
      <4>1. Granted(r, c) /\ TheOffer(o) \in Writes(r, c)
        BY <1>1, <1>2, <1>11, <3>3
      <4>2. no \in {"ACCEPTED", "DEAL_CANCELLED"} \/ e \in {"ABSENT", "PENDING"}
        BY <1>2, <1>4, <3>3, <4>1, OfferThen
      <4> QED  BY <2>3, <3>1, <4>2
    <3> QED  BY <1>10, <3>2, <3>3
  <2> QED  BY <2>1, <2>2, <2>3
<1> QED  BY <1>2, <1>9, <1>18, <1>19, <1>20

\* What is written first is written.
LEMMA FirstWritten ==
  ASSUME NEW r \in Requests, NEW c, NEW x, NEW y, Precedes(r, x, y)
  PROVE  x \in Writes(r, c) /\ x # Nonce(r) /\ y # Nonce(r)
<1>1. CASE r.kind = "transfer-accept" /\ x = Deall(r) /\ y = Passp(r)
  BY <1>1, WritesAre, KeyTags
<1>2. CASE r.kind = "payment-evidence" /\ x = PayTx(r.tx) /\ y = Deall(r)
  BY <1>2, WritesAre, KeyTags
<1>3. CASE r.kind = "accept" /\ x = Offr(r) /\ y = Deall(r)
  BY <1>3, WritesAre, KeyTags
<1> QED  BY <1>1, <1>2, <1>3 DEF Precedes

LEMMA SpentWritten ==
  ASSUME NEW r, NEW c, HasNonce(r)
  PROVE  Nonce(r) \in Writes(r, c)
BY DEF Writes, Nonces

\* At any stage, and when it has ended, it has written what comes first.
LEMMA StageLed ==
  ASSUME NEW r \in Requests, NEW c, Shaped(c), NEW q, NEW m, NEW v, Stage(r, c, q, m, v)
  PROVE  Led(r, c, v)
<1>1. CASE v = c
  <2>1. v = StoreAt(r, c, {})
    BY <1>1, StoreNone
  <2> QED  BY <2>1 DEF Led
<1>2. CASE Writing(r, c, q, v)
  <2>1. PICK X : X = Writes(r, c) \ Left(r, c, q)
    OBVIOUS
  <2>2. ASSUME NEW x \in Keys, NEW y \in Keys, Precedes(r, x, y), y \in X
        PROVE  x \in X
    <3>1. x \in Writes(r, c)
      BY <2>2, FirstWritten
    <3>2. ASSUME x \in Left(r, c, q)
          PROVE  FALSE
      <4>1. PICK i \in DOMAIN q : x \in Leads(r, c, q[i])
        BY <3>2 DEF Left
      <4>2. PICK j \in DOMAIN q : y \in Leads(r, c, q[j])
        BY <1>2, <2>2, <4>1 DEF Writing, InOrder
      <4>3. y \in Left(r, c, q)
        BY <4>2 DEF Left
      <4> QED  BY <2>1, <2>2, <4>3
    <3> QED  BY <2>1, <3>1, <3>2
  <2>3. v = StoreAt(r, c, X) /\ Granted(r, c)
    BY <1>2, <2>1 DEF Writing
  <2>4. X \in SUBSET Writes(r, c)
    BY <2>1
  <2> QED  BY <2>2, <2>3, <2>4 DEF Led
<1> QED  BY <1>1, <1>2 DEF Stage, Reading, Spending

LEMMA EndedLed ==
  ASSUME NEW r \in Requests, NEW c, Shaped(c), NEW v, Ended(r, c, v)
  PROVE  Led(r, c, v)
<1>1. CASE v = c
  <2>1. v = StoreAt(r, c, {})
    BY <1>1, StoreNone
  <2> QED  BY <2>1 DEF Led
<1>2. CASE HasNonce(r) /\ v = StoreAt(r, c, {Nonce(r)})
  <2>1. {Nonce(r)} \in SUBSET Writes(r, c)
    BY <1>2, SpentWritten
  <2>2. \A x, y \in Keys : Precedes(r, x, y) /\ y \in {Nonce(r)} => x \in {Nonce(r)}
    BY FirstWritten
  <2> QED  BY <1>2, <2>1, <2>2 DEF Led
<1>3. CASE Granted(r, c) /\ v = StoreAt(r, c, Writes(r, c))
  <2>1. \A x, y \in Keys : Precedes(r, x, y) /\ y \in Writes(r, c) => x \in Writes(r, c)
    BY FirstWritten
  <2> QED  BY <1>3, <2>1 DEF Led
<1> QED  BY <1>1, <1>2, <1>3 DEF Ended

LEMMA StoreInStep ==
  ASSUME NEW r \in Requests, NEW c, Shaped(c), InStep(c), NEW v
  PROVE  /\ \A q, m : Stage(r, c, q, m, v) => InStep(v)
         /\ Ended(r, c, v) => InStep(v)
BY StageLed, EndedLed, LedInStep

-----------------------------------------------------------------------------
(* One step.                                                               *)

\* What a step makes of the base c: nothing; or one more invocation is cut
\* short; or the one that runs ends, and d is the store it leaves.
Outcome(c, d) ==
  \/ d = c /\ crashes' = crashes /\ (Quiet' => Quiet)
  \/ crashes' = crashes + 1
  \/ /\ crashes' = crashes /\ Quiet' /\ d = kv'
     /\ \E r \in Requests : WellFormed(r) /\ Ended(r, c, kv')

LEMMA KeptShape == Inv => Shaped(kv)
<1> SUFFICES ASSUME Inv PROVE Shaped(kv)
  OBVIOUS
<1>1. /\ \A t \in Tokens : PassportOf(t) \in Keys
      /\ \A l \in Listings : TheListing(l) \in Keys /\ OffersOn(l) \in Keys
      /\ \A o \in Offers : TheOffer(o) \in Keys /\ TheDeal(o) \in Keys
      /\ Index \in Keys
  BY DEF Keys
<1>2. kv = [k \in Keys |-> kv[k]] /\ \A k \in Keys : Sound(k, kv[k])
  BY DEF Inv
<1>3. \A t \in Tokens : kv[PassportOf(t)] \in Passport
  BY <1>1, <1>2, SoundAt DEF SoundPassport
<1>4. \A l \in Listings : kv[TheListing(l)] \in Listing
  BY <1>1, <1>2, SoundAt DEF SoundListing
<1>5. \A l \in Listings : kv[OffersOn(l)] \subseteq Offers /\ IsFiniteSet(kv[OffersOn(l)])
  BY <1>1, <1>2, SoundAt
<1>6. \A o \in Offers : kv[TheOffer(o)] \in OfferStatus /\ kv[TheDeal(o)] \in Deal
  BY <1>1, <1>2, SoundAt DEF SoundOffer, SoundDeal
<1>7. kv[Index] \subseteq Listings /\ IsFiniteSet(kv[Index])
  BY <1>1, <1>2, SoundAt
<1> QED  BY <1>2, <1>3, <1>4, <1>5, <1>6, <1>7 DEF Shaped

\* A store in step where nothing runs is a base.
LEMMA QuietBase ==
  ASSUME Inv, Quiet, InStep(kv)
  PROVE  Base(kv)
BY KeptShape DEF Base, Quiet

\* What is stored of a base is in step.
LEMMA BaseInStep ==
  ASSUME OneAtATime, NEW c, Base(c), Inv
  PROVE  InStep(kv)
<1>1. CASE Quiet
  BY <1>1 DEF Base
<1>2. CASE ~Quiet
  <2>1. PICK s \in Slots : run[s] # Idle
    BY <1>2 DEF Quiet
  <2>2. run[s].req \in Requests
    BY <2>1 DEF Inv, Knows
  <2>3. Shaped(c) /\ InStep(c) /\ Stage(run[s].req, c, run[s].todo, run[s].mem, kv)
    BY <2>1 DEF Base
  <2> QED  BY <2>2, <2>3, StoreInStep
<1> QED  BY <1>1, <1>2

\* An invocation that makes its next operation goes on from the same base, or
\* ends in the store that is the next one.
LEMMA GoesBase ==
  ASSUME OneAtATime, Inv, Inv', NEW c, Base(c), NEW s \in Slots, NEW i, i = run[s], i # Idle,
         NEW n, NEW op, op = Head(i.todo), Goes(s, n), crashes' = crashes,
         GoesWell(i.req, c, op, i.todo, n, kv')
  PROVE  \E d : Base(d)' /\ Outcome(c, d)
<1>1. PICK r : r = i.req
  OBVIOUS
<1>2. PICK rest : rest = Adds(r, op, n) \o Tail(i.todo)
  OBVIOUS
<1>3. r \in Requests /\ WellFormed(r) /\ Shaped(c) /\ InStep(c)
  BY <1>1 DEF Inv, Knows, Base
<1>4. PICK w : w = IF ~May(r, op, n) \/ rest = <<>> THEN Idle ELSE [req |-> r, todo |-> rest, mem |-> n]
  OBVIOUS
<1>5. run' = [run EXCEPT ![s] = w]
  BY <1>1, <1>2, <1>4 DEF Goes
<1>6. run'[s] = w /\ \A x \in Slots : x = s
  BY <1>5 DEF Inv, OneAtATime
<1>7. CASE ~May(r, op, n) \/ rest = <<>>
  <2>1. Ended(r, c, kv')
    BY <1>1, <1>2, <1>7 DEF GoesWell
  <2>2. w = Idle
    BY <1>4, <1>7
  <2>3. Quiet'
    BY <1>6, <2>2 DEF Quiet
  <2>4. InStep(kv')
    BY <1>3, <2>1, StoreInStep
  <2>5. PICK d : d = kv'
    OBVIOUS
  <2>6. Shaped(d) /\ InStep(d)
    <3>1. Shaped(kv)'
      BY KeptShape, PTL
    <3> QED  BY <2>4, <2>5, <3>1
  <2>7. Base(d)'
    BY <1>6, <2>2, <2>5, <2>6 DEF Base
  <2>8. Outcome(c, d)
    BY <1>3, <2>1, <2>3, <2>5 DEF Outcome
  <2> QED  BY <2>7, <2>8
<1>8. CASE ~(~May(r, op, n) \/ rest = <<>>)
  <2>1. Stage(r, c, rest, n, kv')
    BY <1>1, <1>2, <1>8 DEF GoesWell
  <2>2. w = [req |-> r, todo |-> rest, mem |-> n]
    BY <1>4, <1>8
  <2>3. w.req = r /\ w.todo = rest /\ w.mem = n /\ w # Idle
    BY <1>8, <2>2 DEF Idle
  <2>4. ~Quiet'
    BY <1>6, <2>3 DEF Quiet
  <2>5. Base(c)'
    BY <1>3, <1>6, <2>1, <2>3, <2>4 DEF Base
  <2>6. Outcome(c, c)
    BY <2>4 DEF Outcome
  <2> QED  BY <2>5, <2>6
<1> QED  BY <1>7, <1>8

LEMMA StartBase ==
  ASSUME OneAtATime, Inv, NEW c, Base(c), NEW s \in Slots, NEW r \in Requests, Start(s, r)
  PROVE  \E d : Base(d)' /\ Outcome(c, d)
<1>1. PICK a : PlanIs(r, a)
  BY PlanShape
<1>2. Head(Plan(r)) = Get(First(r))
  BY <1>1 DEF PlanIs
<1>3. Quiet /\ Shaped(c) /\ InStep(c) /\ kv = c
  BY DEF Start, Quiet, OneAtATime, Base
<1>4. PICK m : m = [k \in {First(r)} |-> c[k]]
  OBVIOUS
<1>5. PICK q : q = Tail(Plan(r))
  OBVIOUS
<1>6. PICK w : w = [req |-> r, todo |-> q, mem |-> m]
  OBVIOUS
<1>7. run' = [run EXCEPT ![s] = w] /\ May(r, Get(First(r)), m) /\ WellFormed(r) /\ kv' = kv /\ crashes' = crashes
  <2>1. Head(Plan(r))[2] = First(r)
    BY <1>2, OpsOf
  <2>2. [k \in {Head(Plan(r))[2]} |-> kv[k]] = m
    BY <1>3, <1>4, <2>1
  <2> QED  BY <1>2, <1>5, <1>6, <2>2 DEF Start
<1>8. q # <<>> /\ Stage(r, c, q, m, c)
  BY <1>3, <1>4, <1>5, <1>7, StartStage
<1>9. w.req = r /\ w.todo = q /\ w.mem = m /\ w # Idle
  BY <1>6, <1>8 DEF Idle
<1>10. run'[s] = w /\ \A x \in Slots : x = s
  BY <1>7 DEF Inv, OneAtATime
<1>11. ~Quiet'
  BY <1>9, <1>10 DEF Quiet
<1>12. kv' = c
  BY <1>3, <1>7
<1>13. Base(c)'
  BY <1>3, <1>7, <1>8, <1>9, <1>10, <1>11, <1>12 DEF Base
<1>14. Outcome(c, c)
  BY <1>7, <1>11 DEF Outcome
<1> QED  BY <1>13, <1>14

\* The invocation that is about to make an operation.
LEMMA NextStage ==
  ASSUME OneAtATime, Inv, NEW c, Base(c), NEW s \in Slots, NEW i, i = run[s], i.todo # <<>>
  PROVE  /\ i # Idle /\ Knows(i) /\ i.req \in Requests /\ Shaped(c)
         /\ Stage(i.req, c, i.todo, i.mem, kv)
         /\ Head(i.todo) \in Ops /\ Fits(i.req, Head(i.todo)) /\ Head(i.todo)[2] \in Keys
         /\ \A verb : Head(i.todo)[1] = verb => Head(i.todo) = <<verb, Head(i.todo)[2]>>
BY NextOp DEF Base

LEMMA ReadBase ==
  ASSUME OneAtATime, Inv, Inv', NEW c, Base(c), NEW s \in Slots, Read(s)
  PROVE  \E d : Base(d)' /\ Outcome(c, d)
<1>1. PICK i : i = run[s]
  OBVIOUS
<1>2. PICK r : r = i.req
  OBVIOUS
<1>3. PICK op : op = Head(i.todo)
  OBVIOUS
<1>4. PICK k : k = op[2]
  OBVIOUS
<1>5. PICK n : n = Found(i.mem, k, kv)
  OBVIOUS
<1>6. kv' = kv /\ crashes' = crashes /\ i.todo # <<>> /\ Goes(s, n) /\ op[1] = "get"
  BY <1>1, <1>3, <1>4, <1>5 DEF Read, Doing, Found
<1>7. i # Idle /\ r \in Requests /\ Shaped(c) /\ Stage(r, c, i.todo, i.mem, kv) /\ k \in Keys /\ op = Get(k)
  BY <1>1, <1>2, <1>3, <1>4, <1>6, NextStage DEF Get
<1>8. Begins(i.todo, Get(k))
  BY <1>3, <1>7 DEF Begins
<1>9. GoesWell(r, c, Get(k), i.todo, n, kv)
  BY <1>5, <1>7, <1>8, StageRead
<1>10. GoesWell(r, c, op, i.todo, n, kv')
  BY <1>6, <1>7, <1>9
<1> QED  BY <1>1, <1>2, <1>3, <1>6, <1>7, <1>10, GoesBase

LEMMA WriteBase ==
  ASSUME OneAtATime, Inv, Inv', NEW c, Base(c), NEW s \in Slots, Write(s)
  PROVE  \E d : Base(d)' /\ Outcome(c, d)
<1>1. PICK i : i = run[s]
  OBVIOUS
<1>2. PICK r : r = i.req
  OBVIOUS
<1>3. PICK op : op = Head(i.todo)
  OBVIOUS
<1>4. PICK k : k = op[2]
  OBVIOUS
<1>5. PICK x : x = New(r, k, i.mem)
  OBVIOUS
<1>6. kv' = Stored(kv, k, x) /\ crashes' = crashes /\ i.todo # <<>> /\ Goes(s, i.mem) /\ op[1] = "put"
  BY <1>1, <1>2, <1>3, <1>4, <1>5 DEF Write, Doing, Stored
<1>7. /\ i # Idle /\ Knows(i) /\ r \in Requests /\ Shaped(c) /\ Stage(r, c, i.todo, i.mem, kv)
      /\ k \in Keys /\ op = Put(k)
  BY <1>1, <1>2, <1>3, <1>4, <1>6, NextStage DEF Put
<1>8. Begins(i.todo, Put(k)) /\ Head(i.todo) = Put(k)
  BY <1>3, <1>7 DEF Begins
<1>9. ASSUME k # Nonce(r)
      PROVE  k \in Puts(r) /\ (r.kind = "accept" \/ Needs(r, k) \in DOMAIN i.mem)
  BY <1>2, <1>6, <1>7, <1>8, <1>9, WriteRests
<1>10. GoesWell(r, c, Put(k), i.todo, i.mem, Stored(kv, k, x))
  BY <1>5, <1>7, <1>8, <1>9, StageWrite
<1>11. GoesWell(r, c, op, i.todo, i.mem, kv')
  BY <1>6, <1>7, <1>10
<1> QED  BY <1>1, <1>2, <1>3, <1>6, <1>7, <1>11, GoesBase

LEMMA AddBase ==
  ASSUME OneAtATime, Inv, Inv', NEW c, Base(c), NEW s \in Slots, AddToSet(s)
  PROVE  \E d : Base(d)' /\ Outcome(c, d)
<1>1. PICK i : i = run[s]
  OBVIOUS
<1>2. PICK r : r = i.req
  OBVIOUS
<1>3. PICK op : op = Head(i.todo)
  OBVIOUS
<1>4. PICK k : k = op[2]
  OBVIOUS
<1>5. PICK w : w = Joins(kv, k, r.id)
  OBVIOUS
<1>6. crashes' = crashes /\ i.todo # <<>> /\ Goes(s, i.mem) /\ op[1] = "add"
  BY <1>1, <1>3 DEF AddToSet, Doing
<1>7. /\ i # Idle /\ r \in Requests /\ Shaped(c) /\ Stage(r, c, i.todo, i.mem, kv)
      /\ k \in Keys /\ op = Add(k) /\ Fits(r, op)
  BY <1>1, <1>2, <1>3, <1>4, <1>6, NextStage DEF Add
<1>8. kv' = w
  <2>1. kv' = [kv EXCEPT ![k] = kv[k] \cup {r.id}]
    BY <1>1, <1>2, <1>3, <1>4, <1>7 DEF AddToSet, Inv
  <2> QED  BY <1>5, <2>1 DEF Joins, Stored
<1>9. k = Index \/ (r.kind = "offer" /\ k = OffersOn(L(r)))
  BY <1>4, <1>6, <1>7 DEF Fits
<1>10. Begins(i.todo, Add(k))
  BY <1>3, <1>7 DEF Begins
<1>11. GoesWell(r, c, Add(k), i.todo, i.mem, w)
  BY <1>5, <1>7, <1>9, <1>10, StageAdd
<1>12. GoesWell(r, c, op, i.todo, i.mem, kv')
  BY <1>7, <1>8, <1>11
<1> QED  BY <1>1, <1>2, <1>3, <1>6, <1>7, <1>12, GoesBase

LEMMA CrashBase ==
  ASSUME OneAtATime, Inv, Inv', NEW c, Base(c), NEW s \in Slots, Crash(s)
  PROVE  \E d : Base(d)' /\ Outcome(c, d)
<1>1. kv' = kv /\ run' = [run EXCEPT ![s] = Idle] /\ crashes' = crashes + 1
  BY DEF Crash
<1>2. Quiet'
  BY <1>1 DEF Inv, Quiet, OneAtATime
<1>3. InStep(kv)'
  BY <1>1, BaseInStep DEF InStep
<1>4. PICK d : d = kv'
  OBVIOUS
<1>5. Base(kv)'
  BY <1>2, <1>3, QuietBase, PTL
<1>6. Base(d)'
  BY <1>4, <1>5 DEF Base
<1> QED  BY <1>1, <1>6 DEF Outcome

LEMMA StutterBase ==
  ASSUME Inv, NEW c, Base(c), UNCHANGED vars
  PROVE  Base(c)' /\ Outcome(c, c)
BY DEF Base, Outcome, Quiet, vars

LEMMA BaseStep ==
  ASSUME OneAtATime, Inv, Inv', NEW c, Base(c), [Next]_vars
  PROVE  \E d : Base(d)' /\ Outcome(c, d)
BY StartBase, ReadBase, WriteBase, AddBase, CrashBase, StutterBase DEF Next

-----------------------------------------------------------------------------
(* The order of the writes.                                                *)

LEMMA EmptyAt ==
  /\ \A t \in Tokens : Empty[PassportOf(t)] = NoPassport
  /\ \A l \in Listings : Empty[TheListing(l)] = [status |-> "ABSENT", deal |-> None] /\ Empty[OffersOn(l)] = {}
  /\ \A o \in Offers : Empty[TheOffer(o)] = "ABSENT" /\ Empty[TheDeal(o)] = NoDeal
  /\ \A x \in Txs : Empty[PayTx(x)] = None
<1>1. ASSUME NEW t \in Tokens
      PROVE  Empty[PassportOf(t)] = NoPassport
  <2>1. PassportOf(t) \in Keys
    BY DEF Keys
  <2> QED  BY <2>1 DEF Empty, PassportOf
<1>2. ASSUME NEW l \in Listings
      PROVE  Empty[TheListing(l)] = [status |-> "ABSENT", deal |-> None] /\ Empty[OffersOn(l)] = {}
  <2>1. TheListing(l) \in Keys /\ OffersOn(l) \in Keys
    BY DEF Keys
  <2>2. Empty[TheListing(l)] = [status |-> "ABSENT", deal |-> None]
    BY <2>1 DEF Empty, TheListing
  <2>3. Empty[OffersOn(l)] = {}
    BY <2>1 DEF Empty, OffersOn
  <2> QED  BY <2>2, <2>3
<1>3. ASSUME NEW o \in Offers
      PROVE  Empty[TheOffer(o)] = "ABSENT" /\ Empty[TheDeal(o)] = NoDeal
  <2>1. TheOffer(o) \in Keys /\ TheDeal(o) \in Keys
    BY DEF Keys
  <2>2. Empty[TheOffer(o)] = "ABSENT"
    BY <2>1 DEF Empty, TheOffer
  <2>3. Empty[TheDeal(o)] = NoDeal
    BY <2>1 DEF Empty, TheDeal
  <2> QED  BY <2>2, <2>3
<1>4. ASSUME NEW x \in Txs
      PROVE  Empty[PayTx(x)] = None
  <2>1. PayTx(x) \in Keys
    BY DEF Keys
  <2> QED  BY <2>1 DEF Empty, PayTx
<1> QED  BY <1>1, <1>2, <1>3, <1>4

LEMMA InitBase ==
  ASSUME Init
  PROVE  Base(Empty) /\ crashes \in Nat
<1>1. kv = Empty /\ Quiet /\ crashes = 0
  BY DEF Init, Quiet
<1>2. ASSUME NEW o \in Offers
      PROVE  ~Records(kv[PassportOf(TokenIn(o))], o) /\ kv[TheDeal(o)] = NoDeal
  <2>1. TokenIn(o) \in Tokens
    BY MarketConstants DEF TokenIn
  <2>2. kv[PassportOf(TokenIn(o))] = NoPassport /\ kv[TheDeal(o)] = NoDeal
    BY <1>1, <2>1, EmptyAt
  <2>3. NoPassport.history = <<>>
    BY DEF NoPassport
  <2>4. ~Records(NoPassport, o)
    BY <2>3 DEF Records
  <2> QED  BY <2>2, <2>4
<1>3. NoDeal.status = "ABSENT" /\ NoDeal.payTx = None
  BY DEF NoDeal, FreshDeal
<1>4. InStep(kv)
  BY <1>2, <1>3 DEF InStep
<1> QED  BY <1>1, <1>4, InitInv, QuietBase

LEMMA OrderInit == ASSUME OneAtATime PROVE Init => OrderInv
  BY InitInv, InitBase DEF OrderInv

LEMMA OrderStep == ASSUME OneAtATime PROVE OrderInv /\ [Next]_vars => OrderInv'
<1> SUFFICES ASSUME OrderInv, [Next]_vars PROVE OrderInv'
  OBVIOUS
<1>1. Inv'
  BY StepInv DEF OrderInv
<1>2. PICK c : Base(c)
  BY DEF OrderInv
<1>3. PICK d : Base(d)' /\ Outcome(c, d)
  BY <1>1, <1>2, BaseStep DEF OrderInv
<1>4. (crashes \in Nat)'
  BY <1>3 DEF Outcome, OrderInv
<1>5. (\E x : Base(x))'
  BY <1>3
<1> QED  BY <1>1, <1>4, <1>5 DEF OrderInv

LEMMA InStepOrdered == InStep(kv) => WritesAreOrdered
<1>1. NoDeal.status = "ABSENT"
  BY DEF NoDeal, FreshDeal
<1> QED  BY <1>1 DEF InStep, WritesAreOrdered, DealLeadsPassport, HashLeadsPayment, OfferLeadsDeal

\* When invocations do not overlap, and wherever they are cut short: a Passport
\* that records a transfer has a deal that says so, a payment that a deal shows
\* is attached to it, and a deal's offer is decided.  The deal is written before
\* the Passport, the payment's hash and the offer before the deal.
THEOREM WritesOrderedTheorem ==
  ASSUME OneAtATime
  PROVE  SerialSpec => []WritesAreOrdered
<1>1. SerialInit => OrderInv
  BY OrderInit DEF SerialInit
<1>2. OrderInv /\ [SerialNext]_<<vars, calm>> => OrderInv'
  <2>1. [SerialNext]_<<vars, calm>> => [Next]_vars
    BY DEF SerialNext
  <2> QED  BY <2>1, OrderStep
<1>3. OrderInv => WritesAreOrdered
  BY BaseInStep, InStepOrdered DEF OrderInv
<1> QED  BY <1>1, <1>2, <1>3, PTL DEF SerialSpec

-----------------------------------------------------------------------------
(* One invocation at a time is one action of Marketplace.                  *)

\* The records of a store, as Marketplace has them.
Passports(c) == [t \in Tokens |-> c[PassportOf(t)]]
Listed(c)    == [l \in Listings |-> c[TheListing(l)]]
Offered(c)   == [o \in Offers |-> c[TheOffer(o)]]
Dealt(c)     == [o \in Offers |-> c[TheDeal(o)]]
Paid(c)      == [x \in Txs |-> c[PayTx(x)]]

\* The same records, and the same changes of them.
LEMMA SameRecords ==
  /\ Atomic!NoPassport = NoPassport /\ Atomic!NoDeal = NoDeal /\ Atomic!FreshDeal = FreshDeal
  /\ Atomic!Roles = Roles
  /\ \A o : Atomic!SellerIn(o) = SellerIn(o) /\ Atomic!TokenIn(o) = TokenIn(o)
  /\ \A p, w : Atomic!WithClaim(p, w) = WithClaim(p, w)
  /\ \A p, o : Atomic!WithTransfer(p, o) = WithTransfer(p, o)
  /\ \A p, l : Atomic!Unlisted(p, l) = Unlisted(p, l)
  /\ \A o, d : Atomic!AllDone(o, d) = AllDone(o, d)
  /\ \A o, d, w : Atomic!WithComplete(o, d, w) = WithComplete(o, d, w)
  /\ \A d, l : Atomic!Reopened(d, l) = Reopened(d, l)
<1>1. Atomic!NoPassport = NoPassport /\ Atomic!Roles = Roles
  BY DEF Atomic!NoPassport, NoPassport, Atomic!Roles, Roles
<1>2. Atomic!FreshDeal = FreshDeal
  BY <1>1 DEF Atomic!FreshDeal, FreshDeal
<1>3. Atomic!NoDeal = NoDeal
  BY <1>2 DEF Atomic!NoDeal, NoDeal
<1>4. \A o : Atomic!SellerIn(o) = SellerIn(o) /\ Atomic!TokenIn(o) = TokenIn(o)
  BY DEF Atomic!SellerIn, SellerIn, Atomic!TokenIn, TokenIn
<1>5. \A p, w : Atomic!WithClaim(p, w) = WithClaim(p, w)
  BY DEF Atomic!WithClaim, WithClaim
<1>6. \A p, o : Atomic!WithTransfer(p, o) = WithTransfer(p, o)
  BY <1>4 DEF Atomic!WithTransfer, WithTransfer
<1>7. \A p, l : Atomic!Unlisted(p, l) = Unlisted(p, l)
  BY DEF Atomic!Unlisted, Unlisted
<1>8. /\ \A o, d : Atomic!PaymentDone(o, d) = PaymentDone(o, d)
      /\ \A o, d : Atomic!AssetDone(o, d) = AssetDone(o, d)
  BY <1>1 DEF Atomic!PaymentDone, PaymentDone, Atomic!AssetDone, AssetDone
<1>9. \A o, d : Atomic!AllDone(o, d) = AllDone(o, d)
  BY <1>8 DEF Atomic!AllDone, AllDone
<1>10. \A o, d : Atomic!StateHash(o, d) = StateHash(o, d)
  BY <1>8 DEF Atomic!StateHash, StateHash
<1>11. \A o, d, w : Atomic!WithComplete(o, d, w) = WithComplete(o, d, w)
  BY <1>1, <1>10 DEF Atomic!WithComplete, WithComplete
<1>12. \A d, l : Atomic!Reopened(d, l) = Reopened(d, l)
  BY DEF Atomic!Reopened, Reopened
<1> QED  BY <1>1, <1>2, <1>3, <1>4, <1>5, <1>6, <1>7, <1>9, <1>11, <1>12

\* What a handler that wrote the keys X left: every key of a record it writes
\* is of the token, the listing, the offer or the payment it is about, but for
\* the offers that an acceptance supersedes.
Within(r, X) ==
  \A k \in X : /\ k[1] = "passport" => k = Passp(r)
               /\ k[1] = "listing" => k = Listg(r)
               /\ k[1] = "deal" => k = Deall(r)

LEMMA PassportView ==
  ASSUME NEW r \in Requests, NEW c, NEW X, Within(r, X), NEW d, d = StoreAt(r, c, X)
  PROVE  Passports(d) = IF Passp(r) \in X THEN [Passports(c) EXCEPT ![T(r)] = Value(r, c, Passp(r))]
                                          ELSE Passports(c)
<1>1. T(r) \in Tokens /\ Passp(r) = PassportOf(T(r))
  BY RequestKeys DEF Passp
<1>2. ASSUME NEW t \in Tokens
      PROVE  d[PassportOf(t)] = IF t = T(r) /\ Passp(r) \in X THEN Value(r, c, Passp(r)) ELSE c[PassportOf(t)]
  <2>1. PassportOf(t) \in Keys
    BY DEF Keys
  <2>2. PassportOf(t) \in X => t = T(r)
    BY KeyTags DEF Within, Passp, PassportOf
  <2>3. d[PassportOf(t)] = IF PassportOf(t) \in X THEN Value(r, c, PassportOf(t)) ELSE c[PassportOf(t)]
    BY <2>1, StoreHas
  <2> QED  BY <1>1, <2>2, <2>3
<1> QED  BY <1>1, <1>2 DEF Passports

LEMMA ListingView ==
  ASSUME NEW r \in Requests, NEW c, NEW X, Within(r, X), NEW d, d = StoreAt(r, c, X),
         r.kind = "claim" => Listg(r) \notin X
  PROVE  Listed(d) = IF Listg(r) \in X THEN [Listed(c) EXCEPT ![L(r)] = Value(r, c, Listg(r))] ELSE Listed(c)
<1>1. Listg(r) = TheListing(L(r)) /\ (Listg(r) \in X => L(r) \in Listings)
  BY RequestKeys DEF Listg
<1>2. ASSUME NEW l \in Listings
      PROVE  d[TheListing(l)] = IF l = L(r) /\ Listg(r) \in X THEN Value(r, c, Listg(r)) ELSE c[TheListing(l)]
  <2>1. TheListing(l) \in Keys
    BY DEF Keys
  <2>2. TheListing(l) \in X => l = L(r)
    BY KeyTags DEF Within, Listg, TheListing
  <2>3. d[TheListing(l)] = IF TheListing(l) \in X THEN Value(r, c, TheListing(l)) ELSE c[TheListing(l)]
    BY <2>1, StoreHas
  <2> QED  BY <1>1, <2>2, <2>3
<1> QED  BY <1>1, <1>2 DEF Listed

LEMMA DealView ==
  ASSUME NEW r \in Requests, NEW c, NEW X, Within(r, X), NEW d, d = StoreAt(r, c, X)
  PROVE  Dealt(d) = IF Deall(r) \in X THEN [Dealt(c) EXCEPT ![r.id] = Value(r, c, Deall(r))] ELSE Dealt(c)
<1>1. Deall(r) = TheDeal(r.id)
  BY DEF Deall
<1>2. ASSUME NEW o \in Offers
      PROVE  d[TheDeal(o)] = IF o = r.id /\ Deall(r) \in X THEN Value(r, c, Deall(r)) ELSE c[TheDeal(o)]
  <2>1. TheDeal(o) \in Keys
    BY DEF Keys
  <2>2. TheDeal(o) \in X => o = r.id
    BY KeyTags DEF Within, Deall, TheDeal
  <2>3. d[TheDeal(o)] = IF TheDeal(o) \in X THEN Value(r, c, TheDeal(o)) ELSE c[TheDeal(o)]
    BY <2>1, StoreHas
  <2> QED  BY <1>1, <2>2, <2>3
<1> QED  BY <1>1, <1>2 DEF Dealt

LEMMA OfferView ==
  ASSUME NEW r \in Requests, NEW c, NEW X, NEW d, d = StoreAt(r, c, X)
  PROVE  /\ Offered(d) = [o \in Offers |-> IF TheOffer(o) \in X THEN Value(r, c, TheOffer(o)) ELSE c[TheOffer(o)]]
         /\ (\A k \in X : k[1] # "offer") => Offered(d) = Offered(c)
         /\ (\A k \in X : k[1] = "offer" => k = Offr(r)) /\ Offr(r) \in X =>
              Offered(d) = [Offered(c) EXCEPT ![r.id] = Value(r, c, Offr(r))]
<1>1. Offr(r) = TheOffer(r.id)
  BY DEF Offr
<1>2. ASSUME NEW o \in Offers
      PROVE  d[TheOffer(o)] = IF TheOffer(o) \in X THEN Value(r, c, TheOffer(o)) ELSE c[TheOffer(o)]
  <2>1. TheOffer(o) \in Keys
    BY DEF Keys
  <2> QED  BY <2>1, StoreHas
<1>3. \A o : TheOffer(o)[1] = "offer" /\ (TheOffer(o) = Offr(r) => o = r.id)
  BY KeyTags DEF Offr, TheOffer
<1>4. Offered(d) = [o \in Offers |-> IF TheOffer(o) \in X THEN Value(r, c, TheOffer(o)) ELSE c[TheOffer(o)]]
  BY <1>2 DEF Offered
<1>5. ASSUME \A k \in X : k[1] # "offer" PROVE Offered(d) = Offered(c)
  <2>1. \A o \in Offers : d[TheOffer(o)] = c[TheOffer(o)]
    BY <1>2, <1>3, <1>5
  <2> QED  BY <2>1 DEF Offered
<1>6. ASSUME \A k \in X : k[1] = "offer" => k = Offr(r), Offr(r) \in X
      PROVE  Offered(d) = [Offered(c) EXCEPT ![r.id] = Value(r, c, Offr(r))]
  <2>1. \A o \in Offers : d[TheOffer(o)] = IF o = r.id THEN Value(r, c, Offr(r)) ELSE c[TheOffer(o)]
    BY <1>1, <1>2, <1>3, <1>6
  <2> QED  BY <2>1 DEF Offered
<1> QED  BY <1>4, <1>5, <1>6

LEMMA PaidView ==
  ASSUME NEW r \in Requests, NEW c, NEW X, NEW d, d = StoreAt(r, c, X)
  PROVE  /\ (\A k \in X : k[1] # "paytx") => Paid(d) = Paid(c)
         /\ (\A k \in X : k[1] = "paytx" => k = PayTx(r.tx)) /\ PayTx(r.tx) \in X =>
              Paid(d) = [Paid(c) EXCEPT ![r.tx] = Value(r, c, PayTx(r.tx))]
<1>1. ASSUME NEW x \in Txs
      PROVE  d[PayTx(x)] = IF PayTx(x) \in X THEN Value(r, c, PayTx(x)) ELSE c[PayTx(x)]
  <2>1. PayTx(x) \in Keys
    BY DEF Keys
  <2> QED  BY <2>1, StoreHas
<1>2. \A x : PayTx(x)[1] = "paytx" /\ (PayTx(x) = PayTx(r.tx) => x = r.tx)
  BY KeyTags DEF PayTx
<1>3. ASSUME \A k \in X : k[1] # "paytx" PROVE Paid(d) = Paid(c)
  <2>1. \A x \in Txs : d[PayTx(x)] = c[PayTx(x)]
    BY <1>1, <1>2, <1>3
  <2> QED  BY <2>1 DEF Paid
<1>4. ASSUME \A k \in X : k[1] = "paytx" => k = PayTx(r.tx), PayTx(r.tx) \in X
      PROVE  Paid(d) = [Paid(c) EXCEPT ![r.tx] = Value(r, c, PayTx(r.tx))]
  <2>1. \A x \in Txs : d[PayTx(x)] = IF x = r.tx THEN Value(r, c, PayTx(r.tx)) ELSE c[PayTx(x)]
    BY <1>1, <1>2, <1>4
  <2> QED  BY <2>1 DEF Paid
<1> QED  BY <1>3, <1>4

\* Each action of Marketplace, said of the records of calm, c, and calm', d.

LEMMA ClaimIs ==
  ASSUME NEW c, calm = c, NEW d, calm' = d, NEW t \in Tokens, NEW w \in Wallets,
         c[PassportOf(t)].operator \in {None, w},
         Passports(d) = [Passports(c) EXCEPT ![t] = WithClaim(c[PassportOf(t)], w)],
         Listed(d) = Listed(c),
         Offered(d) = Offered(c),
         Dealt(d) = Dealt(c),
         Paid(d) = Paid(c)
  PROVE  Atomic!Next
<1>1. Atomic!Evidence(t, w)
  <2>1. [recipient |-> w, overridden |-> FALSE] \in Atomic!FeeRights
    BY DEF Atomic!FeeRights
  <2> QED  BY <2>1 DEF Atomic!Evidence
<1>2. Passports(d) = [Passports(c) EXCEPT ![t] = Atomic!WithClaim(@, w)]
  <2>1. Passports(c)[t] = c[PassportOf(t)]
    BY DEF Passports
  <2> QED  BY <2>1, SameRecords
<1>3. Atomic!Claim(t, w)
  BY <1>1, <1>2 DEF Atomic!Claim, Passports, Listed, Offered, Dealt, Paid, Atomic!time
<1> QED  BY <1>3 DEF Atomic!Next

LEMMA ListIs ==
  ASSUME NEW c, calm = c, NEW d, calm' = d, NEW l \in Listings, NEW t, t = TokenOf[l],
         c[PassportOf(t)].operator = SellerOf[l],
         c[TheListing(l)] \in Listing,
         c[TheListing(l)].status = "ABSENT",
         c[TheListing(l)].deal = None,
         \A k \in Listings : TokenOf[k] = t => c[TheListing(k)].status # "ACTIVE",
         Passports(d) = [Passports(c) EXCEPT ![t] = [c[PassportOf(t)] EXCEPT !.listing = l]],
         Listed(d) = [Listed(c) EXCEPT ![l] = [status |-> "ACTIVE", deal |-> None]],
         Offered(d) = Offered(c),
         Dealt(d) = Dealt(c),
         Paid(d) = Paid(c)
  PROVE  Atomic!Next
<1>1. t \in Tokens /\ SellerOf[l] \in Wallets
  BY MarketConstants
<1>2. \E fee \in Atomic!FeeRights : fee.recipient = SellerOf[l] /\ ~fee.overridden
  <2>1. [recipient |-> SellerOf[l], overridden |-> FALSE] \in Atomic!FeeRights
    BY <1>1 DEF Atomic!FeeRights
  <2> QED  BY <2>1
<1>3. /\ Passports(c)[t] = c[PassportOf(t)] /\ Listed(c)[l] = c[TheListing(l)]
      /\ \A k \in Listings : Listed(c)[k] = c[TheListing(k)]
  BY <1>1 DEF Passports, Listed
<1>4. Listed(d) = [Listed(c) EXCEPT ![l].status = "ACTIVE"]
  <2>1. PICK x : x = c[TheListing(l)]
    OBVIOUS
  <2>2. [x EXCEPT !.status = "ACTIVE"] = [status |-> "ACTIVE", deal |-> None]
    BY <2>1 DEF Listing
  <2> QED  BY <1>3, <2>1, <2>2
<1>5. Passports(d) = [Passports(c) EXCEPT ![t].listing = l]
  BY <1>3
<1>6. Atomic!List(l)
  BY <1>1, <1>2, <1>3, <1>4, <1>5 DEF Atomic!List, Passports, Listed, Offered, Dealt, Paid, Atomic!Active, Atomic!time
<1> QED  BY <1>6 DEF Atomic!Next

LEMMA CancelListingIs ==
  ASSUME NEW c, calm = c, NEW d, calm' = d, NEW l \in Listings, NEW t, t = TokenOf[l],
         c[TheListing(l)].status = "ACTIVE",
         Passports(d) = [Passports(c) EXCEPT ![t] = Unlisted(c[PassportOf(t)], l)],
         Listed(d) = [Listed(c) EXCEPT ![l] = [c[TheListing(l)] EXCEPT !.status = "CANCELLED"]],
         Offered(d) = Offered(c),
         Dealt(d) = Dealt(c),
         Paid(d) = Paid(c)
  PROVE  Atomic!Next
<1>1. t \in Tokens
  BY MarketConstants
<1>2. Passports(c)[t] = c[PassportOf(t)] /\ Listed(c)[l] = c[TheListing(l)]
  BY <1>1 DEF Passports, Listed
<1>3. Passports(d) = [Passports(c) EXCEPT ![t] = Atomic!Unlisted(@, l)]
  BY <1>2, SameRecords
<1>4. Listed(d) = [Listed(c) EXCEPT ![l].status = "CANCELLED"]
  BY <1>2
<1>5. Atomic!CancelListing(l)
  BY <1>1, <1>2, <1>3, <1>4 DEF Atomic!CancelListing, Passports, Listed, Offered, Dealt, Paid, Atomic!time
<1> QED  BY <1>5 DEF Atomic!Next

LEMMA MakeOfferIs ==
  ASSUME NEW c, calm = c, NEW d, calm' = d, NEW o \in Offers,
         c[TheListing(ListingOf[o])].status = "ACTIVE",
         BuyerOf[o] # SellerIn(o),
         c[TheOffer(o)] = "ABSENT",
         Passports(d) = Passports(c),
         Listed(d) = Listed(c),
         Offered(d) = [Offered(c) EXCEPT ![o] = "PENDING"],
         Dealt(d) = Dealt(c),
         Paid(d) = Paid(c)
  PROVE  Atomic!Next
<1>1. ListingOf[o] \in Listings
  BY MarketConstants
<1>2. Offered(c)[o] = c[TheOffer(o)] /\ Listed(c)[ListingOf[o]] = c[TheListing(ListingOf[o])]
  BY <1>1 DEF Offered, Listed
<1>3. BuyerOf[o] # Atomic!SellerIn(o)
  BY SameRecords
<1>4. Atomic!MakeOffer(o)
  BY <1>1, <1>2, <1>3 DEF Atomic!MakeOffer, Passports, Listed, Offered, Dealt, Paid, Atomic!Active, Atomic!time
<1> QED  BY <1>4 DEF Atomic!Next, Atomic!OfferStep

LEMMA RejectIs ==
  ASSUME NEW c, calm = c, NEW d, calm' = d, NEW o \in Offers,
         c[TheOffer(o)] = "PENDING",
         Passports(d) = Passports(c),
         Listed(d) = Listed(c),
         Offered(d) = [Offered(c) EXCEPT ![o] = "REJECTED"],
         Dealt(d) = Dealt(c),
         Paid(d) = Paid(c)
  PROVE  Atomic!Next
<1>1. Offered(c)[o] = c[TheOffer(o)]
  BY DEF Offered
<1>2. Atomic!Reject(o)
  BY <1>1 DEF Atomic!Reject, Passports, Listed, Offered, Dealt, Paid, Atomic!time
<1> QED  BY <1>2 DEF Atomic!Next, Atomic!OfferStep

LEMMA AcceptIs ==
  ASSUME NEW c, calm = c, NEW d, calm' = d, NEW o \in Offers, NEW l, l = ListingOf[o],
         c[TheOffer(o)] = "PENDING",
         c[TheListing(l)].status = "ACTIVE",
         Passports(d) = Passports(c),
         Listed(d) = [Listed(c) EXCEPT ![l] = [status |-> "OFFER_ACCEPTED", deal |-> o]],
         Offered(d) = [x \in Offers |-> IF x = o THEN "ACCEPTED"
                                      ELSE IF ListingOf[x] = l /\ c[TheOffer(x)] = "PENDING" THEN "SUPERSEDED"
                                      ELSE c[TheOffer(x)]],
         Dealt(d) = [Dealt(c) EXCEPT ![o] = FreshDeal],
         Paid(d) = Paid(c)
  PROVE  Atomic!Next
<1>1. l \in Listings
  BY MarketConstants
<1>2. /\ \A x \in Offers : Offered(c)[x] = c[TheOffer(x)]
      /\ Listed(c)[l] = c[TheListing(l)]
  BY <1>1 DEF Offered, Listed
<1>3. Offered(d) = Atomic!Decided(o)
  BY <1>2 DEF Atomic!Decided, Offered
<1>4. Dealt(d) = [Dealt(c) EXCEPT ![o] = Atomic!FreshDeal]
  BY SameRecords
<1>5. Atomic!Accept(o)
  BY <1>1, <1>2, <1>3, <1>4 DEF Atomic!Accept, Passports, Listed, Offered, Dealt, Paid, Atomic!Active, Atomic!time
<1> QED  BY <1>5 DEF Atomic!Next, Atomic!OfferStep

LEMMA TransferIntentIs ==
  ASSUME NEW c, calm = c, NEW d, calm' = d, NEW o \in Offers, NEW l, l = ListingOf[o],
         c[TheDeal(o)].status = "OPEN",
         c[PassportOf(TokenIn(o))].operator = SellerIn(o),
         c[TheListing(l)] \in Listing,
         Passports(d) = Passports(c),
         Listed(d) = IF c[TheListing(l)].status = "OFFER_ACCEPTED"
                     THEN [Listed(c) EXCEPT ![l] = [c[TheListing(l)] EXCEPT !.status = "IN_TRANSFER"]]
                     ELSE Listed(c),
         Offered(d) = Offered(c),
         Dealt(d) = [Dealt(c) EXCEPT ![o] = [c[TheDeal(o)] EXCEPT !.intent = TRUE]],
         Paid(d) = Paid(c)
  PROVE  Atomic!Next
<1>1. l \in Listings /\ TokenIn(o) \in Tokens
  BY MarketConstants DEF TokenIn
<1>2. /\ Dealt(c)[o] = c[TheDeal(o)] /\ Listed(c)[l] = c[TheListing(l)]
      /\ Passports(c)[Atomic!TokenIn(o)].operator = Atomic!SellerIn(o)
  BY <1>1, SameRecords DEF Dealt, Listed, Passports
<1>3. Dealt(d) = [Dealt(c) EXCEPT ![o].intent = TRUE]
  BY <1>2
<1>4. Listed(d) = [Listed(c) EXCEPT ![l].status = IF @ = "OFFER_ACCEPTED" THEN "IN_TRANSFER" ELSE @]
  <2>1. CASE c[TheListing(l)].status = "OFFER_ACCEPTED"
    BY <1>2, <2>1
  <2>2. CASE c[TheListing(l)].status # "OFFER_ACCEPTED"
    <3>1. PICK x : x = c[TheListing(l)]
      OBVIOUS
    <3>2. [x EXCEPT !.status = x.status] = x
      BY <3>1 DEF Listing
    <3>3. [Listed(c) EXCEPT ![l] = x] = Listed(c)
      BY <1>1, <1>2, <3>1 DEF Listed
    <3> QED  BY <1>2, <2>2, <3>1, <3>2, <3>3
  <2> QED  BY <2>1, <2>2
<1>5. Atomic!TransferIntent(o)
  BY <1>1, <1>2, <1>3, <1>4 DEF Atomic!TransferIntent, Passports, Listed, Offered, Dealt, Paid, Atomic!time
<1> QED  BY <1>5 DEF Atomic!Next, Atomic!OfferStep

LEMMA TransferAcceptIs ==
  ASSUME NEW c, calm = c, NEW d, calm' = d, NEW o \in Offers, NEW t, t = TokenIn(o),
         c[TheDeal(o)].status = "OPEN",
         c[TheDeal(o)].intent,
         c[PassportOf(t)] \in Passport,
         c[PassportOf(t)].operator = SellerIn(o),
         Passports(d) = [Passports(c) EXCEPT ![t] = WithTransfer(c[PassportOf(t)], o)],
         Listed(d) = Listed(c),
         Offered(d) = Offered(c),
         Dealt(d) = [Dealt(c) EXCEPT ![o] = [c[TheDeal(o)] EXCEPT !.moved = TRUE]],
         Paid(d) = Paid(c)
  PROVE  Atomic!Next
<1>1. t \in Tokens
  BY MarketConstants DEF TokenIn
<1>2. /\ Dealt(c)[o] = c[TheDeal(o)] /\ Passports(c)[t] = c[PassportOf(t)]
      /\ Atomic!TokenIn(o) = t /\ Atomic!SellerIn(o) = SellerIn(o)
  BY <1>1, SameRecords DEF Dealt, Passports
<1>3. Len(Passports(c)[t].history) \in Nat
  BY <1>2 DEF Passport
<1>4. Passports(d) = [Passports(c) EXCEPT ![t] = Atomic!WithTransfer(@, o)]
  BY <1>2, SameRecords
<1>5. Dealt(d) = [Dealt(c) EXCEPT ![o].moved = TRUE]
  BY <1>2
<1>6. Atomic!TransferAccept(o)
  BY <1>1, <1>2, <1>3, <1>4, <1>5 DEF Atomic!TransferAccept, Passports, Listed, Offered, Dealt, Paid, Atomic!time
<1> QED  BY <1>6 DEF Atomic!Next, Atomic!OfferStep

LEMMA FeeRightIs ==
  ASSUME NEW c, calm = c, NEW d, calm' = d, NEW o \in Offers, NEW x \in Txs,
         c[TheDeal(o)].status # "ABSENT",
         ListingOf[o] \in FeeIncluded,
         Passports(d) = Passports(c),
         Listed(d) = Listed(c),
         Offered(d) = Offered(c),
         Dealt(d) = [Dealt(c) EXCEPT ![o] = [c[TheDeal(o)] EXCEPT !.feeTx = x]],
         Paid(d) = Paid(c)
  PROVE  Atomic!Next
<1>1. Dealt(c)[o] = c[TheDeal(o)]
  BY DEF Dealt
<1>2. \E fee \in Atomic!FeeRights : fee.recipient = BuyerOf[o] /\ ~fee.overridden
  <2>1. BuyerOf[o] \in Wallets
    BY MarketConstants
  <2>2. [recipient |-> BuyerOf[o], overridden |-> FALSE] \in Atomic!FeeRights
    BY <2>1 DEF Atomic!FeeRights
  <2> QED  BY <2>2
<1>3. Dealt(d) = [Dealt(c) EXCEPT ![o].feeTx = x]
  BY <1>1
<1>4. Atomic!FeeRightEvidence(o, x)
  BY <1>1, <1>2, <1>3 DEF Atomic!FeeRightEvidence, Passports, Listed, Offered, Dealt, Paid, Atomic!time
<1> QED  BY <1>4 DEF Atomic!Next, Atomic!OfferStep

LEMMA PaymentIs ==
  ASSUME NEW c, calm = c, NEW d, calm' = d, NEW o \in Offers, NEW x \in Txs,
         c[TheDeal(o)].status # "ABSENT",
         ListingOf[o] \in PaidOnChain,
         c[PayTx(x)] = None,
         o \in Pays[x],
         Passports(d) = Passports(c),
         Listed(d) = Listed(c),
         Offered(d) = Offered(c),
         Dealt(d) = [Dealt(c) EXCEPT ![o] = [c[TheDeal(o)] EXCEPT !.payTx = x]],
         Paid(d) = [Paid(c) EXCEPT ![x] = o]
  PROVE  Atomic!Next
<1>1. Dealt(c)[o] = c[TheDeal(o)] /\ Paid(c)[x] = c[PayTx(x)]
  BY DEF Dealt, Paid
<1>2. Dealt(d) = [Dealt(c) EXCEPT ![o].payTx = x]
  BY <1>1
<1>3. Atomic!PaymentEvidence(o, x)
  BY <1>1, <1>2 DEF Atomic!PaymentEvidence, Passports, Listed, Offered, Dealt, Paid, Atomic!time
<1> QED  BY <1>3 DEF Atomic!Next, Atomic!OfferStep

LEMMA ConfirmPaymentIs ==
  ASSUME NEW c, calm = c, NEW d, calm' = d, NEW o \in Offers, NEW w \in Roles,
         c[TheDeal(o)].status = "OPEN",
         ListingOf[o] \notin PaidOnChain,
         Passports(d) = Passports(c),
         Listed(d) = Listed(c),
         Offered(d) = Offered(c),
         Dealt(d) = [Dealt(c) EXCEPT ![o] = [c[TheDeal(o)] EXCEPT !.payBy = @ \cup {w}]],
         Paid(d) = Paid(c)
  PROVE  Atomic!Next
<1>1. Dealt(c)[o] = c[TheDeal(o)] /\ w \in Atomic!Roles
  BY SameRecords DEF Dealt
<1>2. Dealt(d) = [Dealt(c) EXCEPT ![o].payBy = @ \cup {w}]
  BY <1>1
<1>3. Atomic!ConfirmPayment(o, w)
  BY <1>1, <1>2 DEF Atomic!ConfirmPayment, Passports, Listed, Offered, Dealt, Paid, Atomic!time
<1> QED  BY <1>3, SameRecords DEF Atomic!Next, Atomic!OfferStep, Atomic!PartyStep

LEMMA ConfirmAssetIs ==
  ASSUME NEW c, calm = c, NEW d, calm' = d, NEW o \in Offers, NEW w \in Roles,
         c[TheDeal(o)].status = "OPEN",
         ListingOf[o] \in WithAsset,
         Passports(d) = Passports(c),
         Listed(d) = Listed(c),
         Offered(d) = Offered(c),
         Dealt(d) = [Dealt(c) EXCEPT ![o] = [c[TheDeal(o)] EXCEPT !.assetBy = @ \cup {w}]],
         Paid(d) = Paid(c)
  PROVE  Atomic!Next
<1>1. Dealt(c)[o] = c[TheDeal(o)] /\ w \in Atomic!Roles
  BY SameRecords DEF Dealt
<1>2. Dealt(d) = [Dealt(c) EXCEPT ![o].assetBy = @ \cup {w}]
  BY <1>1
<1>3. Atomic!ConfirmAsset(o, w)
  BY <1>1, <1>2 DEF Atomic!ConfirmAsset, Passports, Listed, Offered, Dealt, Paid, Atomic!time
<1> QED  BY <1>3, SameRecords DEF Atomic!Next, Atomic!OfferStep, Atomic!PartyStep

LEMMA ConfirmCompleteIs ==
  ASSUME NEW c, calm = c, NEW d, calm' = d, NEW o \in Offers, NEW w \in Roles, NEW l, l = ListingOf[o], NEW t, t = TokenIn(o),
         NEW e, e = WithComplete(o, c[TheDeal(o)], w),
         c[TheDeal(o)].status = "OPEN",
         AllDone(o, c[TheDeal(o)]),
         Passports(d) = IF e.status = "COMPLETED"
                        THEN [Passports(c) EXCEPT ![t] = Unlisted(c[PassportOf(t)], l)] ELSE Passports(c),
         Listed(d) = IF e.status = "COMPLETED"
                     THEN [Listed(c) EXCEPT ![l] = [c[TheListing(l)] EXCEPT !.status = "COMPLETED"]] ELSE Listed(c),
         Offered(d) = Offered(c),
         Dealt(d) = [Dealt(c) EXCEPT ![o] = e],
         Paid(d) = Paid(c)
  PROVE  Atomic!Next
<1>1. t \in Tokens /\ l \in Listings
  BY MarketConstants DEF TokenIn
<1>2. /\ Dealt(c)[o] = c[TheDeal(o)] /\ Listed(c)[l] = c[TheListing(l)] /\ Passports(c)[t] = c[PassportOf(t)]
      /\ w \in Atomic!Roles /\ Atomic!TokenIn(o) = t
  BY <1>1, SameRecords DEF Dealt, Listed, Passports
<1>3. Atomic!WithComplete(o, Dealt(c)[o], w) = e /\ Atomic!AllDone(o, Dealt(c)[o])
  BY <1>2, SameRecords
<1>4. e.status = "COMPLETED" => /\ Passports(d) = [Passports(c) EXCEPT ![t] = Atomic!Unlisted(@, l)]
                                /\ Listed(d) = [Listed(c) EXCEPT ![l].status = "COMPLETED"]
  BY <1>2, SameRecords
<1>5. e.status # "COMPLETED" => Passports(d) = Passports(c) /\ Listed(d) = Listed(c)
  OBVIOUS
<1>6. Atomic!ConfirmComplete(o, w)
  BY ZenonT(40), <1>1, <1>2, <1>3, <1>4, <1>5
     DEF Atomic!ConfirmComplete, Passports, Listed, Offered, Dealt, Paid, Atomic!time
<1> QED  BY <1>6, SameRecords DEF Atomic!Next, Atomic!OfferStep, Atomic!PartyStep

LEMMA CancelDealIs ==
  ASSUME NEW c, calm = c, NEW d, calm' = d, NEW o \in Offers, NEW l, l = ListingOf[o],
         c[TheDeal(o)].status = "OPEN",
         Passports(d) = Passports(c),
         Listed(d) = [Listed(c) EXCEPT ![l] = Reopened(c[TheDeal(o)], c[TheListing(l)])],
         Offered(d) = [Offered(c) EXCEPT ![o] = "DEAL_CANCELLED"],
         Dealt(d) = Dealt(c),
         Paid(d) = Paid(c)
  PROVE  Atomic!Next
<1>1. l \in Listings
  BY MarketConstants
<1>2. Dealt(c)[o] = c[TheDeal(o)] /\ Listed(c)[l] = c[TheListing(l)]
  BY <1>1 DEF Dealt, Listed
<1>3. Listed(d) = [Listed(c) EXCEPT ![l] = Atomic!Reopened(Dealt(c)[o], @)]
  BY <1>2, SameRecords
<1>4. Atomic!CancelDeal(o)
  BY <1>1, <1>2, <1>3 DEF Atomic!CancelDeal, Passports, Listed, Offered, Dealt, Paid, Atomic!time
<1> QED  BY <1>4 DEF Atomic!Next, Atomic!OfferStep

\* What a handler that wrote all its keys left.
LEMMA After ==
  ASSUME NEW r \in Requests, NEW c, NEW W, W = Writes(r, c), NEW d, d = StoreAt(r, c, W)
  PROVE  /\ Passports(d) = IF Passp(r) \in W THEN [Passports(c) EXCEPT ![T(r)] = Value(r, c, Passp(r))]
                                             ELSE Passports(c)
         /\ Listed(d) = IF Listg(r) \in W THEN [Listed(c) EXCEPT ![L(r)] = Value(r, c, Listg(r))] ELSE Listed(c)
         /\ Dealt(d) = IF Deall(r) \in W THEN [Dealt(c) EXCEPT ![r.id] = Value(r, c, Deall(r))] ELSE Dealt(c)
         /\ Paid(d) = IF PayTx(r.tx) \in W THEN [Paid(c) EXCEPT ![r.tx] = Value(r, c, PayTx(r.tx))] ELSE Paid(c)
         /\ r.kind # "accept" =>
              Offered(d) = IF Offr(r) \in W THEN [Offered(c) EXCEPT ![r.id] = Value(r, c, Offr(r))] ELSE Offered(c)
<1>1. Within(r, W)
  BY PassportWritten DEF Within
<1>2. r.kind = "claim" => Listg(r) \notin W
  BY KeyTags, PassportWritten
<1>3. \A k \in W : k[1] = "paytx" => k = PayTx(r.tx)
  BY PassportWritten
<1>4. r.kind # "accept" => \A k \in W : k[1] = "offer" => k = Offr(r)
  BY PassportWritten
<1>5. Passports(d) = IF Passp(r) \in W THEN [Passports(c) EXCEPT ![T(r)] = Value(r, c, Passp(r))] ELSE Passports(c)
  BY <1>1, PassportView
<1>6. Listed(d) = IF Listg(r) \in W THEN [Listed(c) EXCEPT ![L(r)] = Value(r, c, Listg(r))] ELSE Listed(c)
  BY <1>1, <1>2, ListingView
<1>7. Dealt(d) = IF Deall(r) \in W THEN [Dealt(c) EXCEPT ![r.id] = Value(r, c, Deall(r))] ELSE Dealt(c)
  BY <1>1, DealView
<1>8. CASE PayTx(r.tx) \in W
  <2>1. Paid(d) = [Paid(c) EXCEPT ![r.tx] = Value(r, c, PayTx(r.tx))]
    BY <1>3, <1>8, PaidView
  <2>2. r.kind # "accept" =>
          Offered(d) = IF Offr(r) \in W THEN [Offered(c) EXCEPT ![r.id] = Value(r, c, Offr(r))] ELSE Offered(c)
    BY <1>4, OfferView
  <2> QED  BY <1>5, <1>6, <1>7, <1>8, <2>1, <2>2
<1>9. CASE PayTx(r.tx) \notin W
  <2>1. Paid(d) = Paid(c)
    BY <1>3, <1>9, PaidView
  <2>2. r.kind # "accept" =>
          Offered(d) = IF Offr(r) \in W THEN [Offered(c) EXCEPT ![r.id] = Value(r, c, Offr(r))] ELSE Offered(c)
    BY <1>4, OfferView
  <2> QED  BY <1>5, <1>6, <1>7, <1>9, <2>1, <2>2
<1> QED  BY <1>8, <1>9

\* An invocation of r on the base c that makes all its writes, d.
Acts(r, c, d) ==
  /\ r \in Requests /\ WellFormed(r) /\ Shaped(c) /\ InStep(c) /\ Registered(c)
  /\ Granted(r, c) /\ d = StoreAt(r, c, Writes(r, c))
  /\ calm = c /\ calm' = d

LEMMA ActsOn ==
  ASSUME NEW r, NEW c, NEW d, Acts(r, c, d)
  PROVE  /\ r \in Requests /\ WellFormed(r) /\ Shaped(c) /\ Cleared(r, c) /\ calm = c /\ calm' = d
         /\ d = StoreAt(r, c, Writes(r, c))
         /\ Passp(r) = PassportOf(T(r)) /\ Listg(r) = TheListing(L(r))
         /\ Offr(r) = TheOffer(r.id) /\ Deall(r) = TheDeal(r.id)
BY DEF Acts, Granted, Passp, Listg, Offr, Deall

LEMMA ClaimActs ==
  ASSUME NEW r, NEW c, NEW d, Acts(r, c, d), r.kind = "claim"
  PROVE  Atomic!Next
<1>1. PICK W : W = Writes(r, c)
  OBVIOUS
<1>2. W = {Nonce(r), Passp(r)}
  BY <1>1, ActsOn, WritesAre
<1>3. Passp(r) \in W /\ Listg(r) \notin W /\ Deall(r) \notin W /\ Offr(r) \notin W /\ PayTx(r.tx) \notin W
  BY <1>2, KeyTags
<1>4. /\ Passports(d) = [Passports(c) EXCEPT ![T(r)] = Value(r, c, Passp(r))] /\ Listed(d) = Listed(c)
      /\ Dealt(d) = Dealt(c) /\ Offered(d) = Offered(c) /\ Paid(d) = Paid(c)
  BY <1>1, <1>3, ActsOn, After
<1>5. T(r) \in Tokens /\ r.by \in Wallets
  BY ActsOn, RequestKeys
<1>6. Value(r, c, Passp(r)) = WithClaim(c[PassportOf(T(r))], r.by)
  BY ActsOn, ValuesAre
<1>7. c[PassportOf(T(r))].operator \in {None, r.by}
  BY ActsOn, FoundAll
<1> QED  BY <1>4, <1>5, <1>6, <1>7, ActsOn, ClaimIs

LEMMA ListActs ==
  ASSUME NEW r, NEW c, NEW d, Acts(r, c, d), r.kind = "list"
  PROVE  Atomic!Next
<1>1. PICK W : W = Writes(r, c)
  OBVIOUS
<1>2. W = {Nonce(r), Listg(r), Index, Passp(r)}
  BY <1>1, ActsOn, WritesAre
<1>3. Passp(r) \in W /\ Listg(r) \in W /\ Deall(r) \notin W /\ Offr(r) \notin W /\ PayTx(r.tx) \notin W
  BY <1>2, KeyTags
<1>4. /\ Passports(d) = [Passports(c) EXCEPT ![T(r)] = Value(r, c, Passp(r))]
      /\ Listed(d) = [Listed(c) EXCEPT ![L(r)] = Value(r, c, Listg(r))]
      /\ Dealt(d) = Dealt(c)
      /\ Offered(d) = Offered(c)
      /\ Paid(d) = Paid(c)
  BY <1>1, <1>3, ActsOn, After
<1>5. r.id \in Listings /\ L(r) = r.id /\ T(r) = TokenOf[r.id]
  BY ActsOn, RequestKeys
<1>6. /\ Value(r, c, Listg(r)) = [status |-> "ACTIVE", deal |-> None]
      /\ Value(r, c, Passp(r)) = [c[PassportOf(T(r))] EXCEPT !.listing = r.id]
  BY <1>5, ActsOn, ValuesAre
<1>7. c[PassportOf(T(r))].operator = SellerOf[r.id] /\ c[TheListing(r.id)].status = "ABSENT"
  BY <1>5, ActsOn, FoundAll
<1>8. c[TheListing(r.id)] \in Listing /\ c[TheListing(r.id)].deal = None
  BY <1>5, <1>7 DEF Acts, Shaped, Registered
<1>9. ASSUME NEW k \in Listings, TokenOf[k] = T(r)
      PROVE  c[TheListing(k)].status # "ACTIVE"
  <2>1. CASE k \in c[Index]
    BY <1>9, <2>1, ActsOn, RowsFound
  <2>2. CASE k \notin c[Index]
    BY <1>9, <2>2 DEF Acts, Registered
  <2> QED  BY <2>1, <2>2
<1> QED  BY <1>4, <1>5, <1>6, <1>7, <1>8, <1>9, ActsOn, ListIs

LEMMA CancelListingActs ==
  ASSUME NEW r, NEW c, NEW d, Acts(r, c, d), r.kind = "cancel-listing"
  PROVE  Atomic!Next
<1>1. PICK W : W = Writes(r, c)
  OBVIOUS
<1>2. W = {Nonce(r), Listg(r), Passp(r)}
  BY <1>1, ActsOn, WritesAre
<1>3. Passp(r) \in W /\ Listg(r) \in W /\ Deall(r) \notin W /\ Offr(r) \notin W /\ PayTx(r.tx) \notin W
  BY <1>2, KeyTags
<1>4. /\ Passports(d) = [Passports(c) EXCEPT ![T(r)] = Value(r, c, Passp(r))]
      /\ Listed(d) = [Listed(c) EXCEPT ![L(r)] = Value(r, c, Listg(r))]
      /\ Dealt(d) = Dealt(c)
      /\ Offered(d) = Offered(c)
      /\ Paid(d) = Paid(c)
  BY <1>1, <1>3, ActsOn, After
<1>5. r.id \in Listings /\ L(r) = r.id /\ T(r) = TokenOf[r.id]
  BY ActsOn, RequestKeys
<1>6. /\ Value(r, c, Listg(r)) = [c[TheListing(r.id)] EXCEPT !.status = "CANCELLED"]
      /\ Value(r, c, Passp(r)) = Unlisted(c[PassportOf(T(r))], r.id)
  BY <1>5, ActsOn, ValuesAre
<1>7. c[TheListing(r.id)].status = "ACTIVE"
  BY <1>5, ActsOn, FoundAll
<1> QED  BY <1>4, <1>5, <1>6, <1>7, ActsOn, CancelListingIs

LEMMA MakeOfferActs ==
  ASSUME NEW r, NEW c, NEW d, Acts(r, c, d), r.kind = "offer"
  PROVE  Atomic!Next
<1>1. PICK W : W = Writes(r, c)
  OBVIOUS
<1>2. W = {Nonce(r), Offr(r), OffersOn(L(r))}
  BY <1>1, ActsOn, WritesAre
<1>3. Passp(r) \notin W /\ Listg(r) \notin W /\ Deall(r) \notin W /\ Offr(r) \in W /\ PayTx(r.tx) \notin W
  BY <1>2, KeyTags
<1>4. /\ Passports(d) = Passports(c)
      /\ Listed(d) = Listed(c)
      /\ Dealt(d) = Dealt(c)
      /\ Offered(d) = [Offered(c) EXCEPT ![r.id] = Value(r, c, Offr(r))]
      /\ Paid(d) = Paid(c)
  BY <1>1, <1>3, ActsOn, After
<1>5. r.id \in Offers /\ L(r) = ListingOf[r.id] /\ T(r) = TokenIn(r.id)
  BY ActsOn, RequestKeys
<1>6. Value(r, c, Offr(r)) = "PENDING"
  BY <1>5, ActsOn, ValuesAre
<1>7. c[TheListing(ListingOf[r.id])].status = "ACTIVE" /\ c[TheOffer(r.id)] = "ABSENT"
  BY <1>5, ActsOn, FoundAll
<1>8. BuyerOf[r.id] # SellerIn(r.id)
  BY DEF Acts, WellFormed
<1> QED  BY <1>4, <1>5, <1>6, <1>7, <1>8, ActsOn, MakeOfferIs

LEMMA RejectActs ==
  ASSUME NEW r, NEW c, NEW d, Acts(r, c, d), r.kind = "reject"
  PROVE  Atomic!Next
<1>1. PICK W : W = Writes(r, c)
  OBVIOUS
<1>2. W = {Nonce(r), Offr(r)}
  BY <1>1, ActsOn, WritesAre
<1>3. Passp(r) \notin W /\ Listg(r) \notin W /\ Deall(r) \notin W /\ Offr(r) \in W /\ PayTx(r.tx) \notin W
  BY <1>2, KeyTags
<1>4. /\ Passports(d) = Passports(c)
      /\ Listed(d) = Listed(c)
      /\ Dealt(d) = Dealt(c)
      /\ Offered(d) = [Offered(c) EXCEPT ![r.id] = Value(r, c, Offr(r))]
      /\ Paid(d) = Paid(c)
  BY <1>1, <1>3, ActsOn, After
<1>5. r.id \in Offers /\ L(r) = ListingOf[r.id] /\ T(r) = TokenIn(r.id)
  BY ActsOn, RequestKeys
<1>6. Value(r, c, Offr(r)) = "REJECTED"
  BY <1>5, ActsOn, ValuesAre
<1>7. c[TheOffer(r.id)] = "PENDING"
  BY <1>5, ActsOn, FoundAll
<1> QED  BY <1>4, <1>5, <1>6, <1>7, ActsOn, RejectIs

LEMMA TransferIntentActs ==
  ASSUME NEW r, NEW c, NEW d, Acts(r, c, d), r.kind = "transfer-intent"
  PROVE  Atomic!Next
<1>1. PICK W : W = Writes(r, c)
  OBVIOUS
<1>2. W = {Nonce(r), Deall(r)} \cup {k \in {Listg(r)} : c[k].status = "OFFER_ACCEPTED"}
  BY <1>1, ActsOn, WritesAre
<1>3. /\ Passp(r) \notin W /\ Deall(r) \in W /\ Offr(r) \notin W /\ PayTx(r.tx) \notin W
      /\ Listg(r) \in W <=> c[Listg(r)].status = "OFFER_ACCEPTED"
  BY <1>2, KeyTags
<1>4. /\ Passports(d) = Passports(c)
      /\ Listed(d) = IF c[TheListing(L(r))].status = "OFFER_ACCEPTED"
                     THEN [Listed(c) EXCEPT ![L(r)] = Value(r, c, Listg(r))] ELSE Listed(c)
      /\ Dealt(d) = [Dealt(c) EXCEPT ![r.id] = Value(r, c, Deall(r))]
      /\ Offered(d) = Offered(c)
      /\ Paid(d) = Paid(c)
  BY <1>1, <1>3, ActsOn, After
<1>5. r.id \in Offers /\ L(r) = ListingOf[r.id] /\ T(r) = TokenIn(r.id)
  BY ActsOn, RequestKeys
<1>6. /\ Value(r, c, Deall(r)) = [c[TheDeal(r.id)] EXCEPT !.intent = TRUE]
      /\ Value(r, c, Listg(r)) = [c[TheListing(L(r))] EXCEPT !.status = "IN_TRANSFER"]
  BY <1>5, ActsOn, ValuesAre
<1>7. c[TheDeal(r.id)].status = "OPEN" /\ c[PassportOf(T(r))].operator = SellerIn(r.id)
  BY <1>5, ActsOn, FoundAll
<1>8. c[TheListing(L(r))] \in Listing
  <2>1. L(r) \in Listings
    BY <1>5, MarketConstants
  <2> QED  BY <2>1 DEF Acts, Shaped
<1> QED  BY <1>4, <1>5, <1>6, <1>7, <1>8, ActsOn, TransferIntentIs

LEMMA TransferAcceptActs ==
  ASSUME NEW r, NEW c, NEW d, Acts(r, c, d), r.kind = "transfer-accept"
  PROVE  Atomic!Next
<1>1. PICK W : W = Writes(r, c)
  OBVIOUS
<1>2. W = {Nonce(r), Deall(r), Passp(r)}
  BY <1>1, ActsOn, WritesAre
<1>3. Passp(r) \in W /\ Listg(r) \notin W /\ Deall(r) \in W /\ Offr(r) \notin W /\ PayTx(r.tx) \notin W
  BY <1>2, KeyTags
<1>4. /\ Passports(d) = [Passports(c) EXCEPT ![T(r)] = Value(r, c, Passp(r))]
      /\ Listed(d) = Listed(c)
      /\ Dealt(d) = [Dealt(c) EXCEPT ![r.id] = Value(r, c, Deall(r))]
      /\ Offered(d) = Offered(c)
      /\ Paid(d) = Paid(c)
  BY <1>1, <1>3, ActsOn, After
<1>5. r.id \in Offers /\ L(r) = ListingOf[r.id] /\ T(r) = TokenIn(r.id)
  BY ActsOn, RequestKeys
<1>6. /\ Value(r, c, Deall(r)) = [c[TheDeal(r.id)] EXCEPT !.moved = TRUE]
      /\ Value(r, c, Passp(r)) = WithTransfer(c[PassportOf(T(r))], r.id)
  BY <1>5, ActsOn, ValuesAre
<1>7. /\ c[TheDeal(r.id)].status = "OPEN" /\ c[TheDeal(r.id)].intent
      /\ c[PassportOf(T(r))].operator = SellerIn(r.id)
  BY <1>5, ActsOn, FoundAll
<1>8. c[PassportOf(T(r))] \in Passport
  BY ActsOn, RequestKeys DEF Shaped
<1> QED  BY <1>4, <1>5, <1>6, <1>7, <1>8, ActsOn, TransferAcceptIs

LEMMA FeeRightActs ==
  ASSUME NEW r, NEW c, NEW d, Acts(r, c, d), r.kind = "fee-right-evidence"
  PROVE  Atomic!Next
<1>1. PICK W : W = Writes(r, c)
  OBVIOUS
<1>2. W = {Deall(r)}
  BY <1>1, ActsOn, WritesAre
<1>3. Passp(r) \notin W /\ Listg(r) \notin W /\ Deall(r) \in W /\ Offr(r) \notin W /\ PayTx(r.tx) \notin W
  BY <1>2, KeyTags
<1>4. /\ Passports(d) = Passports(c)
      /\ Listed(d) = Listed(c)
      /\ Dealt(d) = [Dealt(c) EXCEPT ![r.id] = Value(r, c, Deall(r))]
      /\ Offered(d) = Offered(c)
      /\ Paid(d) = Paid(c)
  BY <1>1, <1>3, ActsOn, After
<1>5. r.id \in Offers /\ L(r) = ListingOf[r.id] /\ T(r) = TokenIn(r.id) /\ r.tx \in Txs
  BY ActsOn, RequestKeys DEF HasNonce
<1>6. Value(r, c, Deall(r)) = [c[TheDeal(r.id)] EXCEPT !.feeTx = r.tx]
  BY <1>5, ActsOn, ValuesAre
<1>7. c[TheDeal(r.id)].status # "ABSENT"
  BY <1>5, ActsOn, FoundAll
<1>8. ListingOf[r.id] \in FeeIncluded
  BY <1>5 DEF Acts, WellFormed
<1> QED  BY <1>4, <1>5, <1>6, <1>7, <1>8, ActsOn, FeeRightIs

LEMMA PaymentActs ==
  ASSUME NEW r, NEW c, NEW d, Acts(r, c, d), r.kind = "payment-evidence"
  PROVE  Atomic!Next
<1>1. PICK W : W = Writes(r, c)
  OBVIOUS
<1>2. W = {PayTx(r.tx), Deall(r)}
  BY <1>1, ActsOn, WritesAre
<1>3. Passp(r) \notin W /\ Listg(r) \notin W /\ Deall(r) \in W /\ Offr(r) \notin W /\ PayTx(r.tx) \in W
  BY <1>2, KeyTags
<1>4. /\ Passports(d) = Passports(c)
      /\ Listed(d) = Listed(c)
      /\ Dealt(d) = [Dealt(c) EXCEPT ![r.id] = Value(r, c, Deall(r))]
      /\ Offered(d) = Offered(c)
      /\ Paid(d) = [Paid(c) EXCEPT ![r.tx] = Value(r, c, PayTx(r.tx))]
  BY <1>1, <1>3, ActsOn, After
<1>5. r.id \in Offers /\ L(r) = ListingOf[r.id] /\ T(r) = TokenIn(r.id) /\ r.tx \in Txs
  BY ActsOn, RequestKeys DEF HasNonce
<1>6. /\ Value(r, c, Deall(r)) = [c[TheDeal(r.id)] EXCEPT !.payTx = r.tx]
      /\ Value(r, c, PayTx(r.tx)) = r.id
  BY <1>5, ActsOn, ValuesAre
<1>7. c[TheDeal(r.id)].status # "ABSENT" /\ c[PayTx(r.tx)] = None /\ r.id \in Pays[r.tx]
  BY <1>5, ActsOn, FoundAll
<1>8. ListingOf[r.id] \in PaidOnChain
  BY <1>5 DEF Acts, WellFormed
<1> QED  BY <1>4, <1>5, <1>6, <1>7, <1>8, ActsOn, PaymentIs

LEMMA ConfirmPaymentActs ==
  ASSUME NEW r, NEW c, NEW d, Acts(r, c, d), r.kind = "confirm-payment"
  PROVE  Atomic!Next
<1>1. PICK W : W = Writes(r, c)
  OBVIOUS
<1>2. W = {Nonce(r), Deall(r)}
  BY <1>1, ActsOn, WritesAre
<1>3. Passp(r) \notin W /\ Listg(r) \notin W /\ Deall(r) \in W /\ Offr(r) \notin W /\ PayTx(r.tx) \notin W
  BY <1>2, KeyTags
<1>4. /\ Passports(d) = Passports(c)
      /\ Listed(d) = Listed(c)
      /\ Dealt(d) = [Dealt(c) EXCEPT ![r.id] = Value(r, c, Deall(r))]
      /\ Offered(d) = Offered(c)
      /\ Paid(d) = Paid(c)
  BY <1>1, <1>3, ActsOn, After
<1>5. r.id \in Offers /\ L(r) = ListingOf[r.id] /\ T(r) = TokenIn(r.id) /\ r.by \in Roles
  BY ActsOn, RequestKeys
<1>6. Value(r, c, Deall(r)) = [c[TheDeal(r.id)] EXCEPT !.payBy = @ \cup {r.by}]
  BY <1>5, ActsOn, ValuesAre
<1>7. c[TheDeal(r.id)].status = "OPEN"
  BY <1>5, ActsOn, FoundAll
<1>8. ListingOf[r.id] \notin PaidOnChain
  BY <1>5 DEF Acts, WellFormed
<1> QED  BY <1>4, <1>5, <1>6, <1>7, <1>8, ActsOn, ConfirmPaymentIs

LEMMA ConfirmAssetActs ==
  ASSUME NEW r, NEW c, NEW d, Acts(r, c, d), r.kind = "confirm-asset"
  PROVE  Atomic!Next
<1>1. PICK W : W = Writes(r, c)
  OBVIOUS
<1>2. W = {Nonce(r), Deall(r)}
  BY <1>1, ActsOn, WritesAre
<1>3. Passp(r) \notin W /\ Listg(r) \notin W /\ Deall(r) \in W /\ Offr(r) \notin W /\ PayTx(r.tx) \notin W
  BY <1>2, KeyTags
<1>4. /\ Passports(d) = Passports(c)
      /\ Listed(d) = Listed(c)
      /\ Dealt(d) = [Dealt(c) EXCEPT ![r.id] = Value(r, c, Deall(r))]
      /\ Offered(d) = Offered(c)
      /\ Paid(d) = Paid(c)
  BY <1>1, <1>3, ActsOn, After
<1>5. r.id \in Offers /\ L(r) = ListingOf[r.id] /\ T(r) = TokenIn(r.id) /\ r.by \in Roles
  BY ActsOn, RequestKeys
<1>6. Value(r, c, Deall(r)) = [c[TheDeal(r.id)] EXCEPT !.assetBy = @ \cup {r.by}]
  BY <1>5, ActsOn, ValuesAre
<1>7. c[TheDeal(r.id)].status = "OPEN"
  BY <1>5, ActsOn, FoundAll
<1>8. ListingOf[r.id] \in WithAsset
  BY <1>5 DEF Acts, WellFormed
<1> QED  BY <1>4, <1>5, <1>6, <1>7, <1>8, ActsOn, ConfirmAssetIs

LEMMA ConfirmCompleteActs ==
  ASSUME NEW r, NEW c, NEW d, Acts(r, c, d), r.kind = "confirm-complete"
  PROVE  Atomic!Next
<1>1. PICK W : W = Writes(r, c)
  OBVIOUS
<1>2. W = {Nonce(r), Deall(r)} \cup {k \in {Listg(r), Passp(r)} : Completes(r, c)}
  BY <1>1, ActsOn, WritesAre
<1>3. /\ Deall(r) \in W /\ Offr(r) \notin W /\ PayTx(r.tx) \notin W
      /\ Listg(r) \in W <=> Completes(r, c)
      /\ Passp(r) \in W <=> Completes(r, c)
  BY <1>2, KeyTags
<1>4. /\ Passports(d) = IF Completes(r, c) THEN [Passports(c) EXCEPT ![T(r)] = Value(r, c, Passp(r))]
                                           ELSE Passports(c)
      /\ Listed(d) = IF Completes(r, c) THEN [Listed(c) EXCEPT ![L(r)] = Value(r, c, Listg(r))] ELSE Listed(c)
      /\ Dealt(d) = [Dealt(c) EXCEPT ![r.id] = Value(r, c, Deall(r))]
      /\ Offered(d) = Offered(c)
      /\ Paid(d) = Paid(c)
  BY <1>1, <1>3, ActsOn, After
<1>5. r.id \in Offers /\ L(r) = ListingOf[r.id] /\ T(r) = TokenIn(r.id) /\ r.by \in Roles
  BY ActsOn, RequestKeys
<1>6. /\ Value(r, c, Deall(r)) = WithComplete(r.id, c[TheDeal(r.id)], r.by)
      /\ Value(r, c, Listg(r)) = [c[TheListing(L(r))] EXCEPT !.status = "COMPLETED"]
      /\ Value(r, c, Passp(r)) = Unlisted(c[PassportOf(T(r))], L(r))
  BY <1>5, ActsOn, ValuesAre
<1>7. c[TheDeal(r.id)].status = "OPEN"
  BY <1>5, ActsOn, FoundAll
<1>8. AllDone(r.id, c[TheDeal(r.id)])
  BY ActsOn DEF Acts, Granted
<1>9. PICK e : e = WithComplete(r.id, c[TheDeal(r.id)], r.by)
  OBVIOUS
<1>10. Completes(r, c) <=> e.status = "COMPLETED"
  BY <1>9, ActsOn DEF Completes
<1> QED  BY <1>4, <1>5, <1>6, <1>7, <1>8, <1>9, <1>10, ActsOn, ConfirmCompleteIs

LEMMA CancelDealActs ==
  ASSUME NEW r, NEW c, NEW d, Acts(r, c, d), r.kind = "deal-cancel"
  PROVE  Atomic!Next
<1>1. PICK W : W = Writes(r, c)
  OBVIOUS
<1>2. W = {Nonce(r), Listg(r), Offr(r), Passp(r)}
  BY <1>1, ActsOn, WritesAre
<1>3. Passp(r) \in W /\ Listg(r) \in W /\ Deall(r) \notin W /\ Offr(r) \in W /\ PayTx(r.tx) \notin W
  BY <1>2, KeyTags
<1>4. /\ Passports(d) = [Passports(c) EXCEPT ![T(r)] = Value(r, c, Passp(r))]
      /\ Listed(d) = [Listed(c) EXCEPT ![L(r)] = Value(r, c, Listg(r))]
      /\ Dealt(d) = Dealt(c)
      /\ Offered(d) = [Offered(c) EXCEPT ![r.id] = Value(r, c, Offr(r))]
      /\ Paid(d) = Paid(c)
  BY <1>1, <1>3, ActsOn, After
<1>5. r.id \in Offers /\ L(r) = ListingOf[r.id] /\ T(r) = TokenIn(r.id)
  BY ActsOn, RequestKeys
<1>6. /\ Value(r, c, Listg(r)) = Reopened(c[TheDeal(r.id)], c[TheListing(L(r))])
      /\ Value(r, c, Offr(r)) = "DEAL_CANCELLED" /\ Value(r, c, Passp(r)) = c[PassportOf(T(r))]
  BY <1>5, ActsOn, ValuesAre
<1>7. c[TheDeal(r.id)].status = "OPEN"
  BY <1>5, ActsOn, FoundAll
<1>8. Passports(d) = Passports(c)
  BY <1>4, <1>6 DEF Passports
<1> QED  BY <1>4, <1>5, <1>6, <1>7, <1>8, ActsOn, CancelDealIs

LEMMA AcceptActs ==
  ASSUME NEW r, NEW c, NEW d, Acts(r, c, d), r.kind = "accept"
  PROVE  Atomic!Next
<1>1. PICK W : W = Writes(r, c)
  OBVIOUS
<1>2. W = {Nonce(r), Offr(r), Listg(r), Deall(r)} \cup Superseded(r, c)
  BY <1>1, ActsOn, WritesAre
<1>3. r.id \in Offers /\ L(r) = ListingOf[r.id] /\ L(r) \in Listings
  BY ActsOn, RequestKeys
<1>4. \A k \in Superseded(r, c) : k[1] = "offer"
  BY KeyTags DEF Superseded
<1>5. Passp(r) \notin W /\ Listg(r) \in W /\ Deall(r) \in W /\ PayTx(r.tx) \notin W
  BY <1>2, <1>4, KeyTags
<1>6. /\ Passports(d) = Passports(c)
      /\ Listed(d) = [Listed(c) EXCEPT ![L(r)] = Value(r, c, Listg(r))]
      /\ Dealt(d) = [Dealt(c) EXCEPT ![r.id] = Value(r, c, Deall(r))]
      /\ Paid(d) = Paid(c)
  BY <1>1, <1>5, ActsOn, After
<1>7. /\ Value(r, c, Offr(r)) = "ACCEPTED" /\ Value(r, c, Deall(r)) = FreshDeal
      /\ Value(r, c, Listg(r)) = [status |-> "OFFER_ACCEPTED", deal |-> r.id]
  BY ActsOn, ValuesAre
<1>8. c[TheOffer(r.id)] = "PENDING" /\ c[TheListing(L(r))].status = "ACTIVE"
  BY ActsOn, FoundAll
<1>9. ASSUME NEW x \in Offers
      PROVE  /\ TheOffer(x) \in W <=> x = r.id \/ TheOffer(x) \in Superseded(r, c)
             /\ x # r.id => (TheOffer(x) \in Superseded(r, c) <=> ListingOf[x] = L(r) /\ c[TheOffer(x)] = "PENDING")
  <2>1. TheOffer(x) \in {Nonce(r), Listg(r), Deall(r), Offr(r)} <=> x = r.id
    BY KeyTags DEF Offr, TheOffer
  <2>2. TheOffer(x) \in Superseded(r, c) <=> x \in c[OffersOn(L(r))] \ {r.id} /\ c[TheOffer(x)] = "PENDING"
    BY DEF Superseded, TheOffer
  <2>3. x \in c[OffersOn(L(r))] => ListingOf[x] = L(r)
    BY <1>3 DEF Acts, Registered
  <2>4. ListingOf[x] = L(r) /\ c[TheOffer(x)] = "PENDING" => x \in c[OffersOn(L(r))]
    BY DEF Acts, Registered
  <2> QED  BY <1>2, <2>1, <2>2, <2>3, <2>4
<1>10. Offered(d) = [x \in Offers |-> IF TheOffer(x) \in W THEN Value(r, c, TheOffer(x)) ELSE c[TheOffer(x)]]
  BY <1>1, ActsOn, OfferView
<1>11. ASSUME NEW x \in Offers
       PROVE  (IF TheOffer(x) \in W THEN Value(r, c, TheOffer(x)) ELSE c[TheOffer(x)])
              = IF x = r.id THEN "ACCEPTED"
                ELSE IF ListingOf[x] = L(r) /\ c[TheOffer(x)] = "PENDING" THEN "SUPERSEDED"
                ELSE c[TheOffer(x)]
  <2>1. CASE x = r.id
    BY <1>7, <1>9, <2>1, ActsOn
  <2>2. CASE x # r.id /\ TheOffer(x) \in Superseded(r, c)
    <3>1. Value(r, c, TheOffer(x)) = "SUPERSEDED"
      BY <2>2, ActsOn, SupersededIs
    <3> QED  BY <1>9, <2>2, <3>1
  <2>3. CASE x # r.id /\ TheOffer(x) \notin Superseded(r, c)
    BY <1>9, <2>3
  <2> QED  BY <2>1, <2>2, <2>3
<1>12. Offered(d) = [x \in Offers |-> IF x = r.id THEN "ACCEPTED"
                                      ELSE IF ListingOf[x] = L(r) /\ c[TheOffer(x)] = "PENDING" THEN "SUPERSEDED"
                                      ELSE c[TheOffer(x)]]
  BY <1>10, <1>11
<1> QED  BY <1>3, <1>6, <1>7, <1>8, <1>12, ActsOn, AcceptIs

\* The fourteen handlers.
LEMMA ActsNext ==
  ASSUME NEW r, NEW c, NEW d, Acts(r, c, d)
  PROVE  Atomic!Next
<1>1. r.kind \in Kinds
  BY ActsOn, RequestKeys
<1> QED  BY <1>1, ClaimActs, ListActs, CancelListingActs, MakeOfferActs, AcceptActs, RejectActs,
            TransferIntentActs, TransferAcceptActs, FeeRightActs, PaymentActs, ConfirmPaymentActs,
            ConfirmAssetActs, ConfirmCompleteActs, CancelDealActs DEF Kinds

\* Stores with the same records look the same to Marketplace.
LEMMA SameViews ==
  ASSUME NEW c, calm = c, NEW d, calm' = d,
         Passports(d) = Passports(c), Listed(d) = Listed(c), Offered(d) = Offered(c),
         Dealt(d) = Dealt(c), Paid(d) = Paid(c)
  PROVE  UNCHANGED Atomic!vars
BY DEF Atomic!vars, Atomic!store, Atomic!time, Passports, Listed, Offered, Dealt, Paid

\* An invocation that ends has taken its action, or none.
LEMMA EndedNext ==
  ASSUME NEW r \in Requests, NEW c, Shaped(c), InStep(c), Registered(c), WellFormed(r),
         NEW d, Ended(r, c, d), calm = c, calm' = d
  PROVE  [Atomic!Next]_(Atomic!vars)
<1>1. CASE d = c
  BY <1>1, SameViews
<1>2. CASE HasNonce(r) /\ d = StoreAt(r, c, {Nonce(r)})
  <2>1. PICK X : X = {Nonce(r)}
    OBVIOUS
  <2>2. \A k \in X : k[1] = "nonce"
    BY <2>1, KeyTags
  <2>3. Within(r, X)
    BY <2>2 DEF Within
  <2>4. Passp(r) \notin X /\ Listg(r) \notin X /\ Deall(r) \notin X
    BY <2>2, KeyTags
  <2>5. Passports(d) = Passports(c)
    BY <1>2, <2>1, <2>3, <2>4, PassportView
  <2>6. Listed(d) = Listed(c)
    BY <1>2, <2>1, <2>3, <2>4, ListingView
  <2>7. Dealt(d) = Dealt(c)
    BY <1>2, <2>1, <2>3, <2>4, DealView
  <2>8. Offered(d) = Offered(c)
    BY <1>2, <2>1, <2>2, OfferView
  <2>9. Paid(d) = Paid(c)
    BY <1>2, <2>1, <2>2, PaidView
  <2> QED  BY <2>5, <2>6, <2>7, <2>8, <2>9, SameViews
<1>3. CASE Granted(r, c) /\ d = StoreAt(r, c, Writes(r, c))
  <2>1. Acts(r, c, d)
    BY <1>3 DEF Acts
  <2> QED  BY <2>1, ActsNext
<1> QED  BY <1>1, <1>2, <1>3 DEF Ended

\* A deal that is open has an offer that was accepted, and its listing exists.
LEMMA DealRegistered ==
  ASSUME NEW r \in Requests, NEW c, InStep(c), Registered(c), r.kind \in {"confirm-complete", "deal-cancel"},
         c[Deall(r)].status = "OPEN"
  PROVE  c[Offr(r)] # "ABSENT" /\ c[Listg(r)].status # "ABSENT"
<1>1. Deall(r) = TheDeal(r.id) /\ Offr(r) = TheOffer(r.id) /\ Listg(r) = TheListing(ListingOf[r.id])
      /\ r.id \in Offers
  BY RequestKeys DEF Deall, Offr, Listg
<1>2. c[TheOffer(r.id)] \in {"ACCEPTED", "DEAL_CANCELLED"}
  BY <1>1 DEF InStep
<1>3. c[TheListing(ListingOf[r.id])].status # "ABSENT"
  BY <1>1, <1>2 DEF Registered
<1> QED  BY <1>1, <1>2, <1>3

\* A listing that is written exists, and did before unless it is new.
LEMMA ListingThen ==
  ASSUME NEW r \in Requests, NEW c, Shaped(c), InStep(c), Registered(c), Granted(r, c),
         Listg(r) \in Writes(r, c)
  PROVE  /\ L(r) \in Listings /\ Value(r, c, Listg(r)).status # "ABSENT"
         /\ r.kind = "list" \/ c[Listg(r)].status # "ABSENT"
<1>1. Cleared(r, c)
  BY DEF Granted
<1>2. r.kind # "claim"
  BY PassportWritten, KeyTags
<1>3. L(r) \in Listings /\ c[Listg(r)] \in Listing
  BY <1>2, RequestKeys DEF Shaped, Listg
<1>4. PICK x, y : x = Value(r, c, Listg(r)) /\ y = c[Listg(r)]
  OBVIOUS
<1>5. y \in Listing
  BY <1>3, <1>4
<1>6. CASE r.kind = "list"
  <2>1. x = [status |-> "ACTIVE", deal |-> None]
    BY <1>4, <1>6, ValuesAre
  <2> QED  BY <1>3, <1>4, <1>6, <2>1
<1>7. CASE r.kind = "cancel-listing"
  <2>1. x = [y EXCEPT !.status = "CANCELLED"] /\ y.status = "ACTIVE"
    BY <1>1, <1>4, <1>7, ValuesAre, FoundAll
  <2> QED  BY <1>3, <1>4, <1>5, <2>1 DEF Listing
<1>8. CASE r.kind = "accept"
  <2>1. x = [status |-> "OFFER_ACCEPTED", deal |-> r.id] /\ y.status = "ACTIVE"
    BY <1>1, <1>4, <1>8, ValuesAre, FoundAll
  <2> QED  BY <1>3, <1>4, <2>1
<1>9. CASE r.kind = "transfer-intent"
  <2>1. Listg(r) \in {Nonce(r), Deall(r)} \cup {k \in {Listg(r)} : c[k].status = "OFFER_ACCEPTED"}
    BY <1>9, WritesAre
  <2>2. y.status = "OFFER_ACCEPTED"
    BY <1>4, <2>1, KeyTags
  <2>3. x = [y EXCEPT !.status = "IN_TRANSFER"]
    BY <1>4, <1>9, ValuesAre
  <2> QED  BY <1>3, <1>4, <1>5, <2>2, <2>3 DEF Listing
<1>10. CASE r.kind = "confirm-complete"
  <2>1. x = [y EXCEPT !.status = "COMPLETED"]
    BY <1>4, <1>10, ValuesAre
  <2>2. y.status # "ABSENT"
    BY <1>1, <1>4, <1>10, FoundAll, DealRegistered
  <2> QED  BY <1>3, <1>4, <1>5, <2>1, <2>2 DEF Listing
<1>11. CASE r.kind = "deal-cancel"
  <2>1. x = Reopened(c[Deall(r)], y)
    BY <1>4, <1>11, ValuesAre
  <2>2. x.status # "ABSENT"
    BY <1>5, <2>1 DEF Reopened, Listing
  <2>3. y.status # "ABSENT"
    BY <1>1, <1>4, <1>11, FoundAll, DealRegistered
  <2> QED  BY <1>3, <1>4, <2>2, <2>3
<1>12. ASSUME r.kind \notin {"list", "cancel-listing", "accept", "transfer-intent", "confirm-complete",
                             "deal-cancel"}
       PROVE  FALSE
  <2>1. Listg(r) \in {Nonce(r), Offr(r), OffersOn(L(r)), Deall(r), Passp(r), PayTx(r.tx)}
    BY <1>2, <1>12, RequestKeys, WritesAre DEF Kinds
  <2> QED  BY <2>1, KeyTags
<1> QED  BY <1>6, <1>7, <1>8, <1>9, <1>10, <1>11, <1>12

\* An offer that is written exists, and did before unless it is new.
LEMMA OfferKept ==
  ASSUME NEW r \in Requests, NEW c, Shaped(c), InStep(c), Registered(c), Granted(r, c),
         NEW o \in Offers, TheOffer(o) \in Writes(r, c)
  PROVE  (r.kind = "offer" /\ o = r.id) \/ c[TheOffer(o)] # "ABSENT"
<1>1. Cleared(r, c)
  BY DEF Granted
<1>2. CASE r.kind = "accept" /\ TheOffer(o) \in Superseded(r, c)
  BY <1>2, SupersededIs
<1>3. CASE TheOffer(o) = Offr(r)
  <2>1. o = r.id
    BY <1>3 DEF Offr, TheOffer
  <2>2. CASE r.kind \in {"accept", "reject"}
    <3>1. c[Offr(r)] = "PENDING"
      BY <1>1, <2>2, FoundAll
    <3> QED  BY <1>3, <3>1
  <2>3. CASE r.kind = "deal-cancel"
    <3>1. c[Offr(r)] # "ABSENT"
      BY <1>1, <2>3, FoundAll, DealRegistered
    <3> QED  BY <1>3, <3>1
  <2>4. CASE r.kind = "offer"
    BY <2>1, <2>4
  <2>5. ASSUME r.kind \notin {"accept", "reject", "deal-cancel", "offer"}
        PROVE  FALSE
    <3>1. TheOffer(o) \in {Nonce(r), Listg(r), Index, Deall(r), Passp(r), PayTx(r.tx)}
      BY <2>5, RequestKeys, WritesAre DEF Kinds
    <3> QED  BY <3>1, KeyTags
  <2> QED  BY <2>2, <2>3, <2>4, <2>5
<1> QED  BY <1>2, <1>3, PassportWritten, KeyTags

\* The ids that a handler leaves in the lists.
LEMMA ListsThen ==
  ASSUME NEW r \in Requests, NEW c, NEW d, d = StoreAt(r, c, Writes(r, c))
  PROVE  /\ c[Index] \subseteq d[Index] /\ (r.kind = "list" => r.id \in d[Index])
         /\ \A l \in Listings :
              /\ c[OffersOn(l)] \subseteq d[OffersOn(l)]
              /\ \A x \in d[OffersOn(l)] : x \in c[OffersOn(l)] \/ (r.kind = "offer" /\ l = L(r) /\ x = r.id)
         /\ r.kind = "offer" => r.id \in d[OffersOn(L(r))]
<1>1. Value(r, c, Index) = c[Index] \cup {r.id} /\ Index \in Keys
  BY ValueIs, RequestKeys
<1>2. r.kind = "offer" => Value(r, c, OffersOn(L(r))) = c[OffersOn(L(r))] \cup {r.id} /\ L(r) \in Listings
  BY ValueIs, RequestKeys
<1>3. d[Index] = IF Index \in Writes(r, c) THEN c[Index] \cup {r.id} ELSE c[Index]
  BY <1>1, StoreHas
<1>4. r.kind = "list" => Index \in Writes(r, c)
  BY WritesAre
<1>5. ASSUME NEW l \in Listings
      PROVE  d[OffersOn(l)] = IF r.kind = "offer" /\ l = L(r) THEN c[OffersOn(l)] \cup {r.id} ELSE c[OffersOn(l)]
  <2>1. OffersOn(l) \in Keys /\ OffersOn(l)[1] = "offers"
    BY KeyTags DEF Keys
  <2>2. OffersOn(l) \in Writes(r, c) => r.kind = "offer" /\ OffersOn(l) = OffersOn(L(r))
    BY <2>1, PassportWritten
  <2>3. OffersOn(l) = OffersOn(L(r)) => l = L(r)
    BY DEF OffersOn
  <2>4. r.kind = "offer" => OffersOn(L(r)) \in Writes(r, c)
    BY WritesAre
  <2>5. d[OffersOn(l)] = IF OffersOn(l) \in Writes(r, c) THEN Value(r, c, OffersOn(l)) ELSE c[OffersOn(l)]
    BY <2>1, StoreHas
  <2> QED  BY <1>2, <2>2, <2>3, <2>4, <2>5
<1> QED  BY <1>2, <1>3, <1>4, <1>5

LEMMA SameRegistered ==
  ASSUME NEW c, NEW d, Registered(c), d[Index] = c[Index],
         \A l \in Listings : d[TheListing(l)] = c[TheListing(l)] /\ d[OffersOn(l)] = c[OffersOn(l)],
         \A o \in Offers : d[TheOffer(o)] = c[TheOffer(o)]
  PROVE  Registered(d)
<1>1. \A o \in Offers : ListingOf[o] \in Listings
  BY MarketConstants
<1> QED  BY <1>1 DEF Registered

LEMMA RegisteredStays ==
  ASSUME NEW r \in Requests, NEW c, Shaped(c), InStep(c), Registered(c), NEW d, Ended(r, c, d)
  PROVE  Registered(d)
<1>1. /\ \A l \in Listings : TheListing(l) \in Keys /\ OffersOn(l) \in Keys
      /\ \A o \in Offers : TheOffer(o) \in Keys /\ ListingOf[o] \in Listings
      /\ Index \in Keys
  BY MarketConstants DEF Keys
<1>2. CASE d = c
  BY <1>2
<1>3. CASE HasNonce(r) /\ d = StoreAt(r, c, {Nonce(r)})
  <2>1. \A k \in Keys : k[1] # "nonce" => d[k] = c[k]
    BY <1>3, StoreHas, KeyTags
  <2>2. /\ d[Index] = c[Index]
        /\ \A l \in Listings : d[TheListing(l)] = c[TheListing(l)] /\ d[OffersOn(l)] = c[OffersOn(l)]
        /\ \A o \in Offers : d[TheOffer(o)] = c[TheOffer(o)]
    BY <1>1, <2>1, KeyTags
  <2> QED  BY <2>2, SameRegistered
<1>4. CASE Granted(r, c) /\ d = StoreAt(r, c, Writes(r, c))
  <2>1. ASSUME NEW l \in Listings
        PROVE  \/ d[TheListing(l)] = c[TheListing(l)]
               \/ /\ l = L(r) /\ Listg(r) \in Writes(r, c) /\ TheListing(l) = Listg(r)
                  /\ d[TheListing(l)].status # "ABSENT"
                  /\ r.kind = "list" \/ c[TheListing(l)].status # "ABSENT"
    <3>1. CASE TheListing(l) \notin Writes(r, c)
      BY <1>1, <1>4, <3>1, StoreHas
    <3>2. CASE TheListing(l) \in Writes(r, c)
      <4>1. TheListing(l) = Listg(r)
        BY <3>2, PassportWritten, KeyTags
      <4>2. l = L(r)
        BY <4>1 DEF Listg, TheListing
      <4>3. d[TheListing(l)] = Value(r, c, Listg(r))
        BY <1>1, <1>4, <3>2, <4>1, StoreHas
      <4> QED  BY <1>4, <3>2, <4>1, <4>2, <4>3, ListingThen
    <3> QED  BY <3>1, <3>2
  <2>2. ASSUME NEW o \in Offers
        PROVE  \/ d[TheOffer(o)] = c[TheOffer(o)]
               \/ (r.kind = "offer" /\ o = r.id)
               \/ c[TheOffer(o)] # "ABSENT"
    BY <1>1, <1>4, StoreHas, OfferKept
  <2>3. ASSUME NEW l \in Listings
        PROVE  IF d[TheListing(l)].status = "ABSENT" THEN d[TheListing(l)].deal = None ELSE l \in d[Index]
    <3>1. IF c[TheListing(l)].status = "ABSENT" THEN c[TheListing(l)].deal = None ELSE l \in c[Index]
      BY DEF Registered
    <3>2. c[Index] \subseteq d[Index] /\ (r.kind = "list" => r.id \in d[Index])
      BY <1>4, ListsThen
    <3>3. r.kind = "list" => L(r) = r.id
      BY RequestKeys
    <3> QED  BY <2>1, <3>1, <3>2, <3>3
  <2>4. ASSUME NEW o \in Offers, d[TheOffer(o)] # "ABSENT"
        PROVE  o \in d[OffersOn(ListingOf[o])] /\ d[TheListing(ListingOf[o])].status # "ABSENT"
    <3>1. CASE c[TheOffer(o)] # "ABSENT"
      <4>1. o \in c[OffersOn(ListingOf[o])] /\ c[TheListing(ListingOf[o])].status # "ABSENT"
        BY <3>1 DEF Registered
      <4> QED  BY <1>1, <1>4, <2>1, <4>1, ListsThen
    <3>2. CASE c[TheOffer(o)] = "ABSENT"
      <4>1. r.kind = "offer" /\ o = r.id
        BY <2>2, <2>4, <3>2
      <4>2. L(r) = ListingOf[o]
        BY <4>1, RequestKeys
      <4>3. c[Listg(r)].status = "ACTIVE"
        BY <1>4, <4>1, FoundAll DEF Granted
      <4>4. c[TheListing(ListingOf[o])].status # "ABSENT"
        BY <4>2, <4>3 DEF Listg
      <4> QED  BY <1>1, <1>4, <2>1, <4>1, <4>2, <4>4, ListsThen
    <3> QED  BY <3>1, <3>2
  <2>5. ASSUME NEW l \in Listings, NEW x \in d[OffersOn(l)]
        PROVE  ListingOf[x] = l
    <3>1. x \in c[OffersOn(l)] \/ (r.kind = "offer" /\ l = L(r) /\ x = r.id)
      BY <1>4, ListsThen
    <3>2. r.kind = "offer" => L(r) = ListingOf[r.id]
      BY RequestKeys
    <3> QED  BY <3>1, <3>2 DEF Registered
  <2> QED  BY <2>3, <2>4, <2>5 DEF Registered
<1> QED  BY <1>2, <1>3, <1>4 DEF Ended

-----------------------------------------------------------------------------
(* The refinement.                                                         *)

LEMMA CalmInit == ASSUME OneAtATime PROVE SerialInit => SerialInv /\ Atomic!Init
<1> SUFFICES ASSUME SerialInit PROVE SerialInv /\ Atomic!Init
  OBVIOUS
<1>1. Init /\ calm = Empty
  BY DEF SerialInit
<1>2. Base(Empty) /\ crashes \in Nat /\ Inv
  BY <1>1, InitBase, InitInv
<1>3. Registered(Empty)
  <2>1. \A o \in Offers : ListingOf[o] \in Listings
    BY MarketConstants
  <2> QED  BY <2>1, EmptyAt DEF Registered
<1>4. SerialInv
  BY <1>1, <1>2, <1>3 DEF SerialInv, Calm
<1>5. Atomic!Init
  BY <1>1, EmptyAt, SameRecords DEF Atomic!Init
<1> QED  BY <1>4, <1>5

\* Every step is an action of Marketplace, or changes nothing of it.
LEMMA CalmStep ==
  ASSUME OneAtATime
  PROVE  SerialInv /\ [SerialNext]_<<vars, calm>> => SerialInv' /\ [Atomic!Next]_(Atomic!vars)
<1> SUFFICES ASSUME SerialInv, [SerialNext]_<<vars, calm>>
             PROVE  SerialInv' /\ [Atomic!Next]_(Atomic!vars)
  OBVIOUS
<1>1. [Next]_vars /\ Inv /\ Inv' /\ crashes \in Nat
  BY StepInv DEF SerialNext, SerialInv
<1>2. PICK c : Base(c) /\ Calm(c)
  BY DEF SerialInv
<1>3. PICK d : Base(d)' /\ Outcome(c, d)
  BY <1>1, <1>2, BaseStep
<1>4. crashes' \in Nat
  BY <1>1, <1>3 DEF Outcome
<1>5. ASSUME Calm(d)'
      PROVE  SerialInv'
  BY <1>1, <1>3, <1>4, <1>5 DEF SerialInv
<1>6. ASSUME calm' = calm
      PROVE  [Atomic!Next]_(Atomic!vars)
  BY <1>6 DEF Atomic!vars, Atomic!store, Atomic!time
<1>7. (calm' = IF crashes' = 0 /\ Quiet' THEN kv' ELSE calm) \/ UNCHANGED <<vars, calm>>
  BY DEF SerialNext, Calms, Quiet
<1>8. CASE UNCHANGED <<vars, calm>>
  <2>1. Base(c)' /\ Calm(c)'
    BY <1>1, <1>2, <1>8, StutterBase DEF Calm, vars
  <2>2. SerialInv'
    BY <1>1, <1>4, <2>1 DEF SerialInv
  <2> QED  BY <1>6, <1>8, <2>2
<1>9. CASE crashes' # 0 /\ calm' = IF crashes' = 0 /\ Quiet' THEN kv' ELSE calm
  BY <1>5, <1>6, <1>9 DEF Calm
<1>10. CASE crashes' = 0 /\ calm' = IF crashes' = 0 /\ Quiet' THEN kv' ELSE calm
  <2>1. crashes = 0 /\ calm = c /\ Registered(c)
    BY <1>1, <1>2, <1>3, <1>10 DEF Outcome, Calm
  <2>2. CASE d = c /\ crashes' = crashes /\ (Quiet' => Quiet)
    <3>1. calm' = c
      <4>1. CASE Quiet'
        BY <1>3, <1>10, <2>2, <4>1 DEF Base
      <4>2. CASE ~Quiet'
        BY <1>10, <2>1, <4>2
      <4> QED  BY <4>1, <4>2
    <3>2. Calm(d)'
      BY <2>1, <2>2, <3>1 DEF Calm, Registered
    <3> QED  BY <1>5, <1>6, <2>1, <3>1, <3>2
  <2>3. CASE crashes' = crashes + 1
    BY <1>10, <2>1, <2>3
  <2>4. CASE /\ crashes' = crashes /\ Quiet' /\ d = kv'
             /\ \E r \in Requests : WellFormed(r) /\ Ended(r, c, kv')
    <3>1. PICK r \in Requests : WellFormed(r) /\ Ended(r, c, d)
      BY <2>4
    <3>2. Shaped(c) /\ InStep(c)
      BY <1>2 DEF Base
    <3>3. calm' = d
      BY <1>10, <2>4
    <3>4. Registered(d)
      BY <2>1, <3>1, <3>2, RegisteredStays
    <3>5. Calm(d)'
      BY <3>3, <3>4 DEF Calm, Registered
    <3>6. [Atomic!Next]_(Atomic!vars)
      BY <2>1, <3>1, <3>2, <3>3, EndedNext
    <3> QED  BY <1>5, <3>5, <3>6
  <2> QED  BY <1>3, <2>2, <2>3, <2>4 DEF Outcome
<1> QED  BY <1>7, <1>8, <1>9, <1>10

\* When invocations do not overlap, whatever the order of its reads and writes,
\* a handler that ends has made exactly the changes of one action of
\* Marketplace, enabled where it began, or none but spending its nonce.
THEOREM RefinementTheorem ==
  ASSUME OneAtATime
  PROVE  SerialSpec => ImplementsMarketplace
<1>1. SerialInit => SerialInv /\ Atomic!Init
  BY CalmInit
<1>2. SerialInv /\ [SerialNext]_<<vars, calm>> => SerialInv' /\ [Atomic!Next]_(Atomic!vars)
  BY CalmStep
<1> QED  BY <1>1, <1>2, PTL DEF SerialSpec, ImplementsMarketplace, Atomic!Spec
=============================================================================
