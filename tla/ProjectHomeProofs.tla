-------------------------- MODULE ProjectHomeProofs --------------------------
(***************************************************************************)
(* Proofs about ProjectHome for any projects, operators, payments and any  *)
(* number of concurrent invocations.  The invariant that carries them says *)
(* what an invocation still knows: of every key that is fresh, that the    *)
(* store still has what the handler's guards found there (Knows).          *)
(***************************************************************************)
EXTENDS ProjectHome, TLAPS

\* What the invocation r, of any slot, still knows of the store.
Knows(r) ==
  /\ r.kind # "none" => r.token \in Tokens
  /\ r.kind = "quote" /\ OpenK(r.token) \in r.fresh
       => open[r.token] = None \/ intent[open[r.token]].status # "OPEN"
  /\ r.kind = "verify" =>
       /\ r.intent \in Intents /\ r.tx \in Txs
       /\ TokenFor[r.intent] = r.token
       /\ intent[r.intent].status # "NONE"
       /\ r.saw \in {"nothing", "safe", "finalized"}
       /\ r.saw # "nothing" => Pays[r.tx] = intent[r.intent].amount
       /\ r.saw = "finalized" =>
            chain[r.tx].on /\ chain[r.tx].block = r.block /\ chain[r.tx].level = "finalized"
  /\ r.kind = "reconcile" =>
       /\ r.intent \in Intents
       /\ EntK(r.token) \in r.fresh =>
            LET e == ent[r.token] IN
            /\ e.kind = "paid" /\ e.status = "ACTIVE" /\ e.req = r.intent
            /\ r.saw = "finalized" =>
                 chain[e.tx].on /\ chain[e.tx].block = e.block /\ chain[e.tx].level = "finalized"
  /\ r.kind \in {"publish", "unpublish"} =>
       /\ r.by \in Wallets
       /\ PassportK(r.token) \in r.fresh => passport[r.token] = r.by
       /\ CurK(r.token) \in r.fresh => cur[r.token].at < r.at
  /\ r.kind = "publish" =>
       /\ SuspensionK(r.token) \in r.fresh => ~suspended[r.token]
       /\ EntK(r.token) \in r.fresh =>
            IF r.saw = "beta" THEN ent[r.token].status = "NONE"
                              ELSE ent[r.token].status \in PaidStates

RunsKnow == \A s \in Slots : Knows(run[s])

\* The activation of a project and the request and payment it rests on.
EntitlementRests ==
  \A t \in Tokens : LET e == ent[t] IN
    /\ e.kind = "paid" =>
         /\ e.req \in Intents /\ e.tx \in Txs
         /\ TokenFor[e.req] = t
         /\ paylog[e.tx] = e.req
         /\ act[e.tx] = t
         /\ Pays[e.tx] = intent[e.req].amount
         /\ e.status \in PaidStates => intent[e.req].status = "CONSUMED"
         /\ e.status = "INVALIDATED_BY_REORG" => intent[e.req].status = "REORGED"
         /\ e.status # "NONE"
    /\ e.status = "INVALIDATED_BY_REORG" => e.kind = "paid"

\* The open key names the open quote.
OpenNamesQuote ==
  /\ \A i \in Intents \ expired : intent[i].status = "OPEN" => open[TokenFor[i]] = i
  /\ \A t \in Tokens : open[t] # None => intent[open[t]].status # "NONE"

Inv == TypeOK /\ RunsKnow /\ EntitlementRests /\ FinalIsFinal /\ OpenNamesQuote

-----------------------------------------------------------------------------
(* What a step does to the invocations.                                    *)

\* Slot q is idle afterwards, or carries on without the keys ks.
Carries(q, ks) ==
  \/ run'[q] = Idle
  \/ run'[q] = [run[q] EXCEPT !.fresh = @ \ ks]

LEMMA IdleTyped == Idle \in Invocation
BY HomeConstants DEF Idle, Invocation

LEMMA TouchedTyped ==
  ASSUME TypeOK, NEW ks
  PROVE  Touched(ks) \in [Slots -> Invocation]
<1>1. ASSUME NEW q \in Slots PROVE [run[q] EXCEPT !.fresh = @ \ ks] \in Invocation
  <2>1. run[q] \in Invocation
    BY DEF TypeOK
  <2> QED  BY <2>1 DEF Invocation
<1> QED  BY <1>1 DEF Touched

LEMMA TouchedFacts ==
  ASSUME TypeOK, NEW ks, run' = Touched(ks)
  PROVE  /\ run' \in [Slots -> Invocation]
         /\ \A q \in Slots : Carries(q, ks)
<1>1. run' \in [Slots -> Invocation]
  BY TouchedTyped
<1>2. ASSUME NEW q \in Slots PROVE Carries(q, ks)
  BY DEF Touched, Carries
<1> QED  BY <1>1, <1>2

LEMMA CasFacts ==
  ASSUME TypeOK, NEW s \in Slots, NEW expects, NEW ks, Cas(s, expects, ks)
  PROVE  /\ run' \in [Slots -> Invocation]
         /\ \A q \in Slots : Carries(q, ks)
         /\ expects \subseteq run[s].fresh
<1>1. run' = [Touched(ks) EXCEPT ![s] = Idle] /\ expects \subseteq run[s].fresh
  BY DEF Cas
<1>2. Touched(ks) \in [Slots -> Invocation]
  BY TouchedTyped
<1>3. run' \in [Slots -> Invocation]
  BY <1>1, <1>2, IdleTyped
<1>4. ASSUME NEW q \in Slots PROVE Carries(q, ks)
  <2>1. CASE q = s
    BY <2>1, <1>1, <1>2 DEF Carries
  <2>2. CASE q # s
    BY <2>2, <1>1, <1>2 DEF Carries, Touched
  <2> QED  BY <2>1, <2>2
<1> QED  BY <1>1, <1>3, <1>4

LEMMA BeginsFacts ==
  ASSUME TypeOK, NEW s \in Slots, NEW r \in Invocation, Begins(s, r)
  PROVE  /\ run' \in [Slots -> Invocation]
         /\ run'[s] = r
         /\ \A q \in Slots \ {s} : run'[q] = run[q]
         /\ UNCHANGED <<mode, store, expired, chain>>
BY DEF Begins, TypeOK

\* The idle invocation knows nothing.
LEMMA IdleKnows == Knows(Idle)
BY DEF Knows, Idle

LEMMA IdleKnowsNext == Knows(Idle)'
BY DEF Knows, Idle

\* What an invocation that stays as it is carries on without: nothing.
LEMMA StaysCarries ==
  ASSUME TypeOK, NEW q \in Slots, run'[q] = run[q]
  PROVE  Carries(q, {})
<1>1. run[q] \in Invocation
  BY DEF TypeOK
<1>2. [run[q] EXCEPT !.fresh = @ \ {}] = run[q]
  BY <1>1 DEF Invocation
<1> QED  BY <1>2 DEF Carries

\* A step that writes the keys ks and leaves everything else that an
\* invocation may know as it is.
Respects(ks) ==
  /\ \A t \in Tokens : PassportK(t) \notin ks => passport'[t] = passport[t]
  /\ \A t \in Tokens : SuspensionK(t) \notin ks => suspended'[t] = suspended[t]
  /\ \A t \in Tokens : EntK(t) \notin ks => ent'[t] = ent[t]
  /\ \A t \in Tokens : CurK(t) \notin ks => cur'[t] = cur[t]
  /\ \A t \in Tokens : OpenK(t) \notin ks =>
       /\ open'[t] = open[t]
       /\ open[t] # None /\ intent[open[t]].status # "OPEN" => intent'[open[t]].status # "OPEN"
  /\ \A i \in Intents : intent[i].status # "NONE" =>
       intent'[i].status # "NONE" /\ intent'[i].amount = intent[i].amount
  /\ \A x \in Txs : chain[x].on /\ chain[x].level = "finalized" => chain'[x] = chain[x]

\* What an invocation knows outlives every such step.
LEMMA KnowsOn ==
  ASSUME Inv, NEW ks, Respects(ks), NEW q \in Slots, Carries(q, ks)
  PROVE  Knows(run[q])'
<1>1. CASE run'[q] = Idle
  BY <1>1, IdleKnowsNext
<1>2. CASE run'[q] = [run[q] EXCEPT !.fresh = @ \ ks]
  <2> DEFINE r == run[q]
  <2>1. r \in Invocation /\ Knows(r)
    BY DEF Inv, TypeOK, RunsKnow
  <2>2. /\ run'[q].kind = r.kind /\ run'[q].token = r.token /\ run'[q].by = r.by
        /\ run'[q].at = r.at /\ run'[q].intent = r.intent /\ run'[q].tx = r.tx
        /\ run'[q].saw = r.saw /\ run'[q].block = r.block
        /\ run'[q].fresh = r.fresh \ ks
    BY <1>2, <2>1 DEF Invocation
  <2>3. r.kind # "none" => r.token \in Tokens
    BY <2>1 DEF Knows
  <2>4. r.kind = "quote" /\ OpenK(r.token) \in r.fresh \ ks
          => open'[r.token] = None \/ intent'[open'[r.token]].status # "OPEN"
    BY <2>1, <2>3 DEF Knows, Respects
  <2>5. r.kind = "verify" =>
          /\ r.intent \in Intents /\ r.tx \in Txs
          /\ TokenFor[r.intent] = r.token
          /\ intent'[r.intent].status # "NONE"
          /\ r.saw \in {"nothing", "safe", "finalized"}
          /\ r.saw # "nothing" => Pays[r.tx] = intent'[r.intent].amount
          /\ r.saw = "finalized" =>
               chain'[r.tx].on /\ chain'[r.tx].block = r.block /\ chain'[r.tx].level = "finalized"
    BY <2>1 DEF Knows, Respects
  <2>6. ASSUME r.kind = "reconcile", EntK(r.token) \in r.fresh \ ks
        PROVE  LET e == ent'[r.token] IN
               /\ e.kind = "paid" /\ e.status = "ACTIVE" /\ e.req = r.intent
               /\ r.saw = "finalized" =>
                    chain'[e.tx].on /\ chain'[e.tx].block = e.block /\ chain'[e.tx].level = "finalized"
    <3>1. r.token \in Tokens /\ ent'[r.token] = ent[r.token]
      BY <2>3, <2>6 DEF Respects
    <3>2. /\ ent[r.token].kind = "paid" /\ ent[r.token].status = "ACTIVE"
          /\ ent[r.token].req = r.intent
          /\ r.saw = "finalized" =>
               /\ chain[ent[r.token].tx].on /\ chain[ent[r.token].tx].block = ent[r.token].block
               /\ chain[ent[r.token].tx].level = "finalized"
      BY <2>1, <2>6 DEF Knows
    <3>3. ent[r.token].tx \in Txs
      BY <3>1, <3>2 DEF Inv, EntitlementRests
    <3>4. r.saw = "finalized" => chain'[ent[r.token].tx] = chain[ent[r.token].tx]
      BY <3>2, <3>3 DEF Respects
    <3> QED  BY <3>1, <3>2, <3>4
  <2>7. r.kind \in {"publish", "unpublish"} =>
          /\ r.by \in Wallets
          /\ PassportK(r.token) \in r.fresh \ ks => passport'[r.token] = r.by
          /\ CurK(r.token) \in r.fresh \ ks => cur'[r.token].at < r.at
    BY <2>1, <2>3 DEF Knows, Respects
  <2>8. r.kind = "publish" =>
          /\ SuspensionK(r.token) \in r.fresh \ ks => ~suspended'[r.token]
          /\ EntK(r.token) \in r.fresh \ ks =>
               IF r.saw = "beta" THEN ent'[r.token].status = "NONE"
                                 ELSE ent'[r.token].status \in PaidStates
    BY <2>1, <2>3 DEF Knows, Respects
  <2>9. r.kind = "reconcile" => r.intent \in Intents
    BY <2>1 DEF Knows
  <2> HIDE DEF r
  <2> QED  BY <2>2, <2>3, <2>4, <2>5, <2>6, <2>7, <2>8, <2>9 DEF Knows
<1> QED  BY <1>1, <1>2 DEF Carries

\* The same for all the invocations, but for the one that acts, s, if its
\* own new knowledge is accounted for.
LEMMA RunsKnowOn ==
  ASSUME Inv, NEW ks, Respects(ks),
         \A q \in Slots : Carries(q, ks) \/ Knows(run[q])'
  PROVE  RunsKnow'
BY KnowsOn DEF RunsKnow

\* A step that keeps the activations, their claims and what they rest on.
LEMMA RestsOn ==
  ASSUME Inv, UNCHANGED <<ent, paylog, act>>,
         \A i \in Intents : intent[i].status # "NONE" =>
           intent'[i].amount = intent[i].amount /\ intent'[i].status = intent[i].status
  PROVE  EntitlementRests'
<1> SUFFICES ASSUME NEW t \in Tokens
             PROVE  LET e == ent[t] IN
               /\ e.kind = "paid" =>
                    /\ e.req \in Intents /\ e.tx \in Txs
                    /\ TokenFor[e.req] = t
                    /\ paylog[e.tx] = e.req
                    /\ act[e.tx] = t
                    /\ Pays[e.tx] = intent'[e.req].amount
                    /\ e.status \in PaidStates => intent'[e.req].status = "CONSUMED"
                    /\ e.status = "INVALIDATED_BY_REORG" => intent'[e.req].status = "REORGED"
                    /\ e.status # "NONE"
               /\ e.status = "INVALIDATED_BY_REORG" => e.kind = "paid"
  BY DEF EntitlementRests
<1>1. ent[t].status \in {"NONE"} \cup PaidStates \cup {"INVALIDATED_BY_REORG"}
  BY DEF Inv, TypeOK, Entitlement, PaidStates
<1>2. ent[t].kind = "paid" => ent[t].req \in Intents /\ intent[ent[t].req].status # "NONE"
  BY <1>1 DEF Inv, EntitlementRests
<1> QED  BY <1>2 DEF Inv, EntitlementRests

\* A step that keeps the activations and what is final on the chain.
LEMMA FinalOn ==
  ASSUME Inv, ent' = ent,
         \A x \in Txs : chain[x].on /\ chain[x].level = "finalized" => chain'[x] = chain[x]
  PROVE  FinalIsFinal'
BY DEF Inv, FinalIsFinal, EntitlementRests

\* A step after which no intent is open that was not, no lock is undone, and
\* the open keys are what they were.
LEMMA OpenOn ==
  ASSUME Inv, open' = open, expired \subseteq expired',
         \A i \in Intents :
           /\ intent'[i].status = "OPEN" => intent[i].status = "OPEN"
           /\ intent[i].status # "NONE" => intent'[i].status # "NONE"
  PROVE  OpenNamesQuote'
<1>1. \A i \in Intents \ expired' : i \in Intents \ expired
  OBVIOUS
<1>2. \A t \in Tokens : open[t] # None => open[t] \in Intents
  BY DEF Inv, TypeOK
<1> QED  BY <1>1, <1>2 DEF Inv, OpenNamesQuote

-----------------------------------------------------------------------------
(* Steps that only move an invocation.                                     *)

\* Nothing but the invocation of s changes, and what it knows is so.
LEMMA RunMoves ==
  ASSUME Inv, NEW s \in Slots, UNCHANGED <<mode, store, expired, chain>>,
         run' \in [Slots -> Invocation],
         \A q \in Slots \ {s} : run'[q] = run[q],
         Knows(run[s])'
  PROVE  Inv'
<1>1. TypeOK'
  BY DEF Inv, TypeOK, store
<1>2. RunsKnow'
  <2>1. Respects({})
    BY DEF Respects, store
  <2>2. \A q \in Slots : Carries(q, {}) \/ Knows(run[q])'
    BY StaysCarries DEF Inv
  <2> QED  BY <2>1, <2>2, RunsKnowOn
<1>3. EntitlementRests' /\ FinalIsFinal' /\ OpenNamesQuote'
  BY DEF Inv, EntitlementRests, FinalIsFinal, OpenNamesQuote, store
<1> QED  BY <1>1, <1>2, <1>3 DEF Inv

\* The start of an invocation r that knows what it read.
LEMMA BeginsKeeps ==
  ASSUME Inv, NEW s \in Slots, NEW r \in Invocation, Begins(s, r), Knows(run[s])'
  PROVE  Inv'
<1>1. /\ run' \in [Slots -> Invocation] /\ run'[s] = r
      /\ \A q \in Slots \ {s} : run'[q] = run[q]
      /\ UNCHANGED <<mode, store, expired, chain>>
  BY BeginsFacts DEF Inv
<1> QED  BY <1>1, RunMoves

LEMMA KeysTyped ==
  /\ \A t \in Tokens : /\ PassportK(t) \in Keys /\ SuspensionK(t) \in Keys /\ EntK(t) \in Keys
                        /\ OpenK(t) \in Keys /\ CurK(t) \in Keys
  /\ \A i \in Intents : IntentK(i) \in Keys
BY DEF Keys, PassportK, SuspensionK, EntK, OpenK, CurK, IntentK

LEMMA BeginQuoteKeeps ==
  ASSUME Inv, NEW s \in Slots, NEW t \in Tokens, NEW w \in Wallets, BeginQuote(s, t, w)
  PROVE  Inv'
<1> DEFINE r == [Idle EXCEPT !.kind = "quote", !.token = t,
                   !.fresh = {PassportK(t), EntK(t), OpenK(t)}]
<1>1. Begins(s, r) /\ UNCHANGED <<open, intent>>
  BY DEF BeginQuote, Begins, store
<1>2. r \in Invocation
  BY IdleTyped, KeysTyped DEF Invocation
<1>3. run'[s].kind = "quote" /\ run'[s].token = t
  <2>1. run'[s] = r
    BY <1>1, <1>2, BeginsFacts DEF Inv
  <2> QED  BY <2>1, IdleTyped DEF Idle, Invocation
<1>4. open[t] # None => intent[open[t]].status # "OPEN"
  BY DEF BeginQuote
<1>5. Knows(run[s])'
  BY <1>1, <1>3, <1>4 DEF Knows
<1> HIDE DEF r
<1> QED  BY <1>1, <1>2, <1>5, BeginsKeeps

LEMMA BeginVerifyKeeps ==
  ASSUME Inv, NEW s \in Slots, NEW i \in Intents, NEW x \in Txs, BeginVerify(s, i, x)
  PROVE  Inv'
<1> DEFINE t == TokenFor[i]
           r == [Idle EXCEPT !.kind = "verify", !.token = t, !.intent = i, !.tx = x,
                   !.again = /\ intent[i].status = "REORGED"
                             /\ ent[t].status = "INVALIDATED_BY_REORG"
                             /\ ent[t].req = i /\ ent[t].tx = x,
                   !.fresh = {EntK(t), IntentK(i)}]
<1>1. Begins(s, r) /\ UNCHANGED intent
  BY DEF BeginVerify, Begins, store
<1>2. t \in Tokens
  BY HomeConstants
<1>3. r \in Invocation
  BY <1>2, IdleTyped, KeysTyped DEF Invocation
<1>4. run'[s].kind = "verify" /\ run'[s].token = t /\ run'[s].intent = i /\ run'[s].tx = x /\ run'[s].saw = "nothing"
  <2>1. run'[s] = r
    BY <1>1, <1>3, BeginsFacts DEF Inv
  <2> QED  BY <2>1, IdleTyped DEF Idle, Invocation
<1>5. intent[i].status # "NONE"
  BY DEF BeginVerify
<1>6. Knows(run[s])'
  BY <1>1, <1>2, <1>4, <1>5 DEF Knows
<1> HIDE DEF r
<1> QED  BY <1>1, <1>3, <1>6, BeginsKeeps

LEMMA BeginReconcileKeeps ==
  ASSUME Inv, NEW s \in Slots, NEW t \in Tokens, BeginReconcile(s, t)
  PROVE  Inv'
<1> DEFINE e == ent[t]
           r == [Idle EXCEPT !.kind = "reconcile", !.token = t, !.intent = e.req,
                   !.tx = e.tx, !.saw = Verdict(e), !.fresh = {EntK(t)}]
<1>1. Begins(s, r) /\ UNCHANGED <<ent, chain>>
  BY DEF BeginReconcile, Begins, store
<1>2. e.kind = "paid" /\ e.status = "ACTIVE" /\ e.req \in Intents /\ e.tx \in Txs
  BY DEF BeginReconcile, Inv, EntitlementRests
<1>3. Verdict(e) \in {"nothing", "finalized", "reorg"}
  BY DEF Verdict
<1>4. r \in Invocation
  BY <1>2, <1>3, IdleTyped, KeysTyped DEF Invocation
<1>5. run'[s].kind = "reconcile" /\ run'[s].token = t /\ run'[s].intent = e.req /\ run'[s].saw = Verdict(e)
  <2>1. run'[s] = r
    BY <1>1, <1>4, BeginsFacts DEF Inv
  <2> QED  BY <2>1, IdleTyped DEF Idle, Invocation
<1>6. Verdict(e) = "finalized" =>
        chain[e.tx].on /\ chain[e.tx].block = e.block /\ chain[e.tx].level = "finalized"
  BY DEF Verdict
<1>7. Knows(run[s])'
  BY <1>1, <1>2, <1>5, <1>6 DEF Knows
<1> HIDE DEF r
<1> QED  BY <1>1, <1>4, <1>7, BeginsKeeps

LEMMA BeginPublishKeeps ==
  ASSUME Inv, NEW s \in Slots, NEW t \in Tokens, NEW w \in Wallets, NEW at \in Nat,
         BeginPublish(s, t, w, at)
  PROVE  Inv'
<1> DEFINE sees == IF ent[t].status = "NONE" THEN "beta" ELSE "nothing"
           r == [Idle EXCEPT !.kind = "publish", !.token = t, !.by = w, !.at = at,
                   !.saw = sees, !.fresh = {PassportK(t), SuspensionK(t), EntK(t), CurK(t)}]
<1>1. Begins(s, r) /\ UNCHANGED <<passport, suspended, ent, cur>>
  BY DEF BeginPublish, Begins, store
<1>2. r \in Invocation
  <2>1. sees \in {"nothing", "beta"}
    OBVIOUS
  <2> HIDE DEF sees
  <2> QED  BY <2>1, IdleTyped, KeysTyped DEF Invocation
<1>3. run'[s].kind = "publish" /\ run'[s].token = t /\ run'[s].by = w /\ run'[s].at = at /\ run'[s].saw = sees
  <2>1. run'[s] = r
    BY <1>1, <1>2, BeginsFacts DEF Inv
  <2> QED  BY <2>1, IdleTyped DEF Idle, Invocation
<1>4. /\ passport[t] = w /\ ~suspended[t] /\ cur[t].at < at
      /\ ent[t].status \in PaidStates \/ ent[t].status = "NONE"
  BY DEF BeginPublish
<1>5. Knows(run[s])'
  BY <1>1, <1>3, <1>4 DEF Knows
<1> HIDE DEF r
<1> QED  BY <1>1, <1>2, <1>5, BeginsKeeps

LEMMA BeginUnpublishKeeps ==
  ASSUME Inv, NEW s \in Slots, NEW t \in Tokens, NEW w \in Wallets, NEW at \in Nat,
         BeginUnpublish(s, t, w, at)
  PROVE  Inv'
<1> DEFINE r == [Idle EXCEPT !.kind = "unpublish", !.token = t, !.by = w, !.at = at,
                   !.fresh = {PassportK(t), CurK(t)}]
<1>1. Begins(s, r) /\ UNCHANGED <<passport, cur>>
  BY DEF BeginUnpublish, Begins, store
<1>2. r \in Invocation
  BY IdleTyped, KeysTyped DEF Invocation
<1>3. run'[s].kind = "unpublish" /\ run'[s].token = t /\ run'[s].by = w /\ run'[s].at = at
  <2>1. run'[s] = r
    BY <1>1, <1>2, BeginsFacts DEF Inv
  <2> QED  BY <2>1, IdleTyped DEF Idle, Invocation
<1>4. passport[t] = w /\ cur[t].at < at
  BY DEF BeginUnpublish
<1>5. Knows(run[s])'
  BY <1>1, <1>3, <1>4 DEF Knows
<1> HIDE DEF r
<1> QED  BY <1>1, <1>2, <1>5, BeginsKeeps

LEMMA SeeSafeKeeps ==
  ASSUME Inv, NEW s \in Slots, SeeSafe(s)
  PROVE  Inv'
<1> DEFINE c == chain[run[s].tx]
           r == [run[s] EXCEPT !.saw = c.level, !.block = c.block]
<1>1. run[s] \in Invocation /\ Knows(run[s])
  BY DEF Inv, TypeOK, RunsKnow
<1>2. /\ run[s].kind = "verify" /\ c.on /\ c.level # "latest"
      /\ Pays[run[s].tx] = intent[run[s].intent].amount
  BY DEF SeeSafe, Matches
<1>3. c \in Inclusion
  BY <1>1, <1>2 DEF Knows, Inv, TypeOK
<1>4. c.level \in {"safe", "finalized"} /\ c.block \in Nat
  BY <1>2, <1>3 DEF Inclusion, Levels
<1>5. r \in Invocation
  BY <1>1, <1>4 DEF Invocation
<1>6. run' = [run EXCEPT ![s] = r] /\ UNCHANGED <<mode, store, expired, chain>>
  BY DEF SeeSafe
<1>7. /\ run' \in [Slots -> Invocation] /\ run'[s] = r
      /\ \A q \in Slots \ {s} : run'[q] = run[q]
  BY <1>5, <1>6 DEF Inv, TypeOK
<1>8. /\ r.kind = "verify" /\ r.token = run[s].token /\ r.intent = run[s].intent
      /\ r.tx = run[s].tx /\ r.saw = c.level /\ r.block = c.block
  BY <1>1, <1>2 DEF Invocation
<1>9. intent' = intent /\ chain' = chain
  BY <1>6 DEF store
<1>10. Knows(run[s])'
  <2> HIDE DEF r
  <2> QED  BY <1>1, <1>2, <1>4, <1>7, <1>8, <1>9 DEF Knows
<1> QED  BY <1>6, <1>7, <1>10, RunMoves

LEMMA EndKeeps ==
  ASSUME Inv, NEW s \in Slots, End(s)
  PROVE  Inv'
<1>1. /\ run' \in [Slots -> Invocation] /\ run'[s] = Idle
      /\ \A q \in Slots \ {s} : run'[q] = run[q]
      /\ UNCHANGED <<mode, store, expired, chain>>
  BY IdleTyped DEF End, Inv, TypeOK
<1>2. Knows(run[s])'
  BY <1>1, IdleKnowsNext
<1> QED  BY <1>1, <1>2, RunMoves

-----------------------------------------------------------------------------
(* The commits.                                                            *)

LEMMA IntentTyped ==
  ASSUME TypeOK, NEW i \in Intents
  PROVE  intent[i] \in Intent /\ TokenFor[i] \in Tokens
BY HomeConstants DEF TypeOK

LEMMA CommitQuoteKeeps ==
  ASSUME Inv, NEW s \in Slots, NEW i \in Intents, NEW a \in Amounts, CommitQuote(s, i, a)
  PROVE  Inv'
<1> DEFINE t == TokenFor[i]
           ks == {OpenK(t), IntentK(i)}
           new == [NoIntent EXCEPT !.status = "OPEN", !.amount = a]
<1>1. /\ run[s].kind = "quote" /\ run[s].token = t /\ intent[i].status = "NONE"
      /\ intent' = [intent EXCEPT ![i] = new] /\ open' = [open EXCEPT ![t] = i]
      /\ amount' = [amount EXCEPT ![a] = i]
      /\ UNCHANGED <<mode, passport, suspended, ent, paylog, act, cur, expired, chain>>
      /\ Cas(s, QuoteExpects(t), ks)
  BY DEF CommitQuote
<1>2. /\ run' \in [Slots -> Invocation] /\ \A q \in Slots : Carries(q, ks)
      /\ QuoteExpects(t) \subseteq run[s].fresh
  BY <1>1, CasFacts DEF Inv
<1>3. t \in Tokens /\ Knows(run[s])
  BY IntentTyped DEF Inv, RunsKnow
<1>4. open[t] = None \/ intent[open[t]].status # "OPEN"
  BY <1>1, <1>2, <1>3 DEF Knows, QuoteExpects
<1>5. new \in Intent /\ new.status = "OPEN"
  BY DEF NoIntent, Intent
<1> HIDE DEF new
<1>6. TypeOK'
  BY <1>1, <1>2, <1>3, <1>5 DEF Inv, TypeOK
<1>7. \A j \in Intents : intent[j].status # "NONE" => j # i /\ intent'[j] = intent[j]
  BY <1>1 DEF Inv, TypeOK
<1>8. RunsKnow'
  <2>1. ASSUME NEW u \in Tokens, OpenK(u) \notin ks
        PROVE  /\ open'[u] = open[u]
               /\ open[u] # None => intent'[open[u]] = intent[open[u]]
    <3>1. u # t
      BY <2>1
    <3>2. open'[u] = open[u]
      BY <1>1, <3>1 DEF Inv, TypeOK
    <3>3. open[u] # None => open[u] \in Intents /\ intent[open[u]].status # "NONE"
      BY DEF Inv, TypeOK, OpenNamesQuote
    <3> QED  BY <1>7, <3>2, <3>3
  <2>2. Respects(ks)
    BY <1>1, <1>7, <2>1 DEF Respects
  <2> QED  BY <1>2, <2>2, RunsKnowOn
<1>9. EntitlementRests'
  BY <1>1, <1>7, RestsOn
<1>10. FinalIsFinal'
  BY <1>1, FinalOn
<1>11. OpenNamesQuote'
  <2>1. ASSUME NEW j \in Intents \ expired, intent'[j].status = "OPEN"
        PROVE  open'[TokenFor[j]] = j
    <3>1. CASE j = i
      BY <3>1, <1>1, <1>3 DEF Inv, TypeOK
    <3>2. CASE j # i
      <4>1. intent[j].status = "OPEN"
        BY <3>2, <2>1, <1>1 DEF Inv, TypeOK
      <4>2. open[TokenFor[j]] = j
        BY <4>1, <2>1 DEF Inv, OpenNamesQuote
      <4>3. j # None
        BY HomeConstants
      <4>4. TokenFor[j] # t
        BY <4>1, <4>2, <4>3, <1>4
      <4> QED  BY <4>2, <4>4, <1>1 DEF Inv, TypeOK
    <3> QED  BY <3>1, <3>2
  <2>2. ASSUME NEW u \in Tokens, open'[u] # None
        PROVE  intent'[open'[u]].status # "NONE"
    <3>1. CASE u = t
      BY <3>1, <1>1, <1>3, <1>5 DEF Inv, TypeOK
    <3>2. CASE u # t
      <4>1. open'[u] = open[u] /\ open[u] \in Intents /\ intent[open[u]].status # "NONE"
        BY <3>2, <2>2, <1>1 DEF Inv, TypeOK, OpenNamesQuote
      <4> QED  BY <4>1, <1>7
    <3> QED  BY <3>1, <3>2
  <2> QED  BY <1>1, <2>1, <2>2 DEF OpenNamesQuote
<1> QED  BY <1>6, <1>8, <1>9, <1>10, <1>11 DEF Inv

LEMMA SeePendingKeeps ==
  ASSUME Inv, NEW s \in Slots, SeePending(s)
  PROVE  Inv'
<1> DEFINE i == run[s].intent
           ks == {IntentK(i)}
           new == [intent[i] EXCEPT !.observed = "held"]
<1>1. /\ run[s].kind = "verify"
      /\ intent' = [intent EXCEPT ![i].observed = "held"]
      /\ UNCHANGED <<mode, passport, suspended, ent, open, amount, paylog, act, cur, expired, chain>>
      /\ Cas(s, ks, ks)
  BY DEF SeePending, Matches
<1>2. run' \in [Slots -> Invocation] /\ \A q \in Slots : Carries(q, ks)
  BY <1>1, CasFacts DEF Inv
<1>3. i \in Intents
  BY <1>1 DEF Inv, RunsKnow, Knows
<1>4. new \in Intent /\ new.status = intent[i].status /\ new.amount = intent[i].amount
  BY <1>3, IntentTyped DEF Inv, Intent
<1>5. intent' = [intent EXCEPT ![i] = new]
  BY <1>1, <1>3 DEF Inv, TypeOK
<1> HIDE DEF i, new
<1>6. \A j \in Intents :
        intent'[j].status = intent[j].status /\ intent'[j].amount = intent[j].amount
  BY <1>3, <1>4, <1>5 DEF Inv, TypeOK
<1>7. TypeOK'
  BY <1>1, <1>2, <1>3, <1>4, <1>5 DEF Inv, TypeOK
<1>8. RunsKnow'
  <2>1. \A t \in Tokens : open[t] # None => open[t] \in Intents
    BY DEF Inv, TypeOK
  <2>2. Respects(ks)
    BY <1>1, <1>6, <2>1 DEF Respects
  <2> QED  BY <1>2, <2>2, RunsKnowOn
<1>9. EntitlementRests'
  BY <1>1, <1>6, RestsOn
<1>10. FinalIsFinal' /\ OpenNamesQuote'
  BY <1>1, <1>6, FinalOn, OpenOn
<1> QED  BY <1>7, <1>8, <1>9, <1>10 DEF Inv

\* No other project rests on the request, nor on a payment it may claim.
LEMMA OthersRestElsewhere ==
  ASSUME Inv, NEW i \in Intents, NEW u \in Tokens, u # TokenFor[i], ent[u].kind = "paid"
  PROVE  ent[u].req # i /\ \A x \in Txs : Claimable(i, x) => ent[u].tx # x
<1>1. ent[u].req \in Intents /\ TokenFor[ent[u].req] = u /\ paylog[ent[u].tx] = ent[u].req
  BY DEF Inv, EntitlementRests
<1>2. ent[u].req # None
  BY <1>1, HomeConstants
<1> QED  BY <1>1, <1>2 DEF Claimable

LEMMA CommitPaymentKeeps ==
  ASSUME Inv, NEW s \in Slots, CommitPayment(s)
  PROVE  Inv'
<1> DEFINE r == run[s]
           t == r.token
           i == r.intent
           x == r.tx
           ks == {EntK(t), IntentK(i)}
           e == [status |-> IF r.saw = "finalized" THEN "FINALIZED" ELSE "ACTIVE",
                 kind |-> "paid", req |-> i, tx |-> x, block |-> r.block]
           new == [intent[i] EXCEPT !.status = "CONSUMED"]
<1>1. /\ r.kind = "verify" /\ r.saw \in {"safe", "finalized"} /\ Claimable(i, x)
      /\ paylog' = [paylog EXCEPT ![x] = i] /\ ent' = [ent EXCEPT ![t] = e]
      /\ intent' = [intent EXCEPT ![i].status = "CONSUMED"] /\ act' = [act EXCEPT ![x] = t]
      /\ UNCHANGED <<mode, passport, suspended, open, amount, cur, expired, chain>>
      /\ Cas(s, PaymentExpects(i), ks)
  BY DEF CommitPayment
<1>2. run' \in [Slots -> Invocation] /\ \A q \in Slots : Carries(q, ks)
  BY <1>1, CasFacts DEF Inv
<1>3. /\ i \in Intents /\ x \in Txs /\ t \in Tokens /\ TokenFor[i] = t
      /\ intent[i].status # "NONE" /\ Pays[x] = intent[i].amount
      /\ r.saw = "finalized" =>
           chain[x].on /\ chain[x].block = r.block /\ chain[x].level = "finalized"
  BY <1>1, HomeConstants DEF Inv, RunsKnow, Knows
<1>4. r.block \in Nat
  BY DEF Inv, TypeOK, Invocation
<1>5. /\ e \in Entitlement /\ e.kind = "paid" /\ e.req = i /\ e.tx = x /\ e.block = r.block
      /\ e.status \in PaidStates /\ (e.status = "FINALIZED" <=> r.saw = "finalized")
  BY <1>3, <1>4 DEF Entitlement, PaidStates
<1>6. new \in Intent /\ new.status = "CONSUMED" /\ new.amount = intent[i].amount
  BY <1>3, IntentTyped DEF Inv, Intent
<1>7. intent' = [intent EXCEPT ![i] = new]
  BY <1>1, <1>3 DEF Inv, TypeOK
<1> HIDE DEF t, i, x, e, new
<1>8. TypeOK'
  BY <1>1, <1>2, <1>3, <1>5, <1>6, <1>7 DEF Inv, TypeOK
<1>9. \A j \in Intents : /\ intent'[j].amount = intent[j].amount
                         /\ intent'[j].status = IF j = i THEN "CONSUMED" ELSE intent[j].status
  BY <1>3, <1>6, <1>7 DEF Inv, TypeOK
<1>10. RunsKnow'
  <2>1. \A u \in Tokens : open[u] # None => open[u] \in Intents
    BY DEF Inv, TypeOK
  <2>2. \A u \in Tokens : EntK(u) \notin ks => ent'[u] = ent[u]
    BY <1>1, <1>3 DEF Inv, TypeOK
  <2>3. Respects(ks)
    BY <1>1, <1>9, <2>1, <2>2 DEF Respects
  <2> QED  BY <1>2, <2>3, RunsKnowOn
<1>11. ent'[t] = e /\ \A u \in Tokens \ {t} : ent'[u] = ent[u]
  BY <1>1, <1>3 DEF Inv, TypeOK
<1>12. EntitlementRests'
  <2>1. paylog'[x] = i /\ act'[x] = t
    BY <1>1, <1>3 DEF Inv, TypeOK
  <2>2. ASSUME NEW u \in Tokens \ {t}, ent[u].kind = "paid"
        PROVE  LET d == ent[u] IN
               /\ d.req \in Intents /\ d.tx \in Txs /\ TokenFor[d.req] = u
               /\ paylog'[d.tx] = d.req /\ act'[d.tx] = u
               /\ Pays[d.tx] = intent'[d.req].amount
               /\ d.status \in PaidStates => intent'[d.req].status = "CONSUMED"
               /\ d.status = "INVALIDATED_BY_REORG" => intent'[d.req].status = "REORGED"
               /\ d.status # "NONE"
    <3>1. ent[u].req # i /\ ent[u].tx # x
      BY <1>1, <1>3, <2>2, OthersRestElsewhere
    <3>2. ent[u].req \in Intents /\ ent[u].tx \in Txs
      BY <2>2 DEF Inv, EntitlementRests
    <3>3. paylog'[ent[u].tx] = paylog[ent[u].tx] /\ act'[ent[u].tx] = act[ent[u].tx]
      BY <1>1, <1>3, <3>1, <3>2 DEF Inv, TypeOK
    <3> QED  BY <1>9, <2>2, <3>1, <3>3 DEF Inv, EntitlementRests
  <2>3. \A u \in Tokens \ {t} : ent[u].status = "INVALIDATED_BY_REORG" => ent[u].kind = "paid"
    BY DEF Inv, EntitlementRests
  <2>4. e.status # "INVALIDATED_BY_REORG" /\ e.status # "NONE"
    BY <1>5 DEF PaidStates
  <2> QED  BY <1>3, <1>5, <1>9, <1>11, <2>1, <2>2, <2>3, <2>4 DEF EntitlementRests
<1>13. FinalIsFinal'
  BY <1>1, <1>3, <1>5, <1>11 DEF Inv, FinalIsFinal
<1>14. OpenNamesQuote'
  BY <1>1, <1>9, OpenOn
<1> QED  BY <1>8, <1>10, <1>12, <1>13, <1>14 DEF Inv

LEMMA CommitFinalKeeps ==
  ASSUME Inv, NEW s \in Slots, CommitFinal(s)
  PROVE  Inv'
<1> DEFINE t == run[s].token
           ks == {EntK(t)}
           e == [ent[t] EXCEPT !.status = "FINALIZED"]
<1>1. /\ run[s].kind = "reconcile" /\ run[s].saw = "finalized"
      /\ ent' = [ent EXCEPT ![t].status = "FINALIZED"]
      /\ UNCHANGED <<mode, passport, suspended, intent, open, amount, paylog, act, cur, expired, chain>>
      /\ Cas(s, ks, ks)
  BY DEF CommitFinal
<1>2. /\ run' \in [Slots -> Invocation] /\ \A q \in Slots : Carries(q, ks)
      /\ ks \subseteq run[s].fresh
  BY <1>1, CasFacts DEF Inv
<1>3. /\ t \in Tokens /\ ent[t].kind = "paid" /\ ent[t].status = "ACTIVE"
      /\ chain[ent[t].tx].on /\ chain[ent[t].tx].block = ent[t].block
      /\ chain[ent[t].tx].level = "finalized"
  BY <1>1, <1>2 DEF Inv, RunsKnow, Knows
<1>4. /\ e \in Entitlement /\ e.status = "FINALIZED" /\ e.kind = "paid"
      /\ e.req = ent[t].req /\ e.tx = ent[t].tx /\ e.block = ent[t].block
  BY <1>3 DEF Inv, TypeOK, Entitlement
<1>5. ent' = [ent EXCEPT ![t] = e]
  BY <1>1, <1>3 DEF Inv, TypeOK
<1> HIDE DEF t, e
<1>6. TypeOK'
  BY <1>1, <1>2, <1>3, <1>4, <1>5 DEF Inv, TypeOK
<1>7. ent'[t] = e /\ \A u \in Tokens \ {t} : ent'[u] = ent[u]
  BY <1>3, <1>5 DEF Inv, TypeOK
<1>8. RunsKnow'
  <2>1. Respects(ks)
    BY <1>1, <1>7 DEF Respects
  <2> QED  BY <1>2, <2>1, RunsKnowOn
<1>9. EntitlementRests'
  <2>1. ent[t].status \in PaidStates /\ e.status \in PaidStates
    BY <1>3, <1>4 DEF PaidStates
  <2> QED  BY <1>1, <1>3, <1>4, <1>7, <2>1 DEF Inv, EntitlementRests
<1>10. FinalIsFinal'
  BY <1>1, <1>3, <1>4, <1>7 DEF Inv, FinalIsFinal
<1>11. OpenNamesQuote'
  BY <1>1, OpenOn
<1> QED  BY <1>6, <1>8, <1>9, <1>10, <1>11 DEF Inv

LEMMA CommitReorgKeeps ==
  ASSUME Inv, NEW s \in Slots, CommitReorg(s)
  PROVE  Inv'
<1> DEFINE t == run[s].token
           i == run[s].intent
           ks == {EntK(t), IntentK(i)}
           e == [ent[t] EXCEPT !.status = "INVALIDATED_BY_REORG"]
           new == [intent[i] EXCEPT !.status = "REORGED"]
<1>1. /\ run[s].kind = "reconcile"
      /\ ent' = [ent EXCEPT ![t].status = "INVALIDATED_BY_REORG"]
      /\ intent' = [intent EXCEPT ![i].status = "REORGED"]
      /\ UNCHANGED <<mode, passport, suspended, open, amount, paylog, act, cur, expired, chain>>
      /\ Cas(s, {EntK(t)}, ks)
  BY DEF CommitReorg, Reopened
<1>2. /\ run' \in [Slots -> Invocation] /\ \A q \in Slots : Carries(q, ks)
      /\ EntK(t) \in run[s].fresh
  BY <1>1, CasFacts DEF Inv
<1>3. /\ t \in Tokens /\ ent[t].kind = "paid" /\ ent[t].status = "ACTIVE"
      /\ ent[t].req = i /\ i \in Intents
  BY <1>1, <1>2 DEF Inv, RunsKnow, Knows
<1>4. TokenFor[i] = t /\ intent[i].status = "CONSUMED"
  BY <1>3 DEF Inv, EntitlementRests, PaidStates
<1>5. /\ e \in Entitlement /\ e.status = "INVALIDATED_BY_REORG" /\ e.kind = "paid"
      /\ e.req = i /\ e.tx = ent[t].tx
  BY <1>3 DEF Inv, TypeOK, Entitlement
<1>6. new \in Intent /\ new.status = "REORGED" /\ new.amount = intent[i].amount
  BY <1>3, IntentTyped DEF Inv, Intent
<1>7. ent' = [ent EXCEPT ![t] = e] /\ intent' = [intent EXCEPT ![i] = new]
  BY <1>1, <1>3 DEF Inv, TypeOK
<1> HIDE DEF t, i, e, new
<1>8. TypeOK'
  BY <1>1, <1>2, <1>3, <1>5, <1>6, <1>7 DEF Inv, TypeOK
<1>9. ent'[t] = e /\ \A u \in Tokens \ {t} : ent'[u] = ent[u]
  BY <1>3, <1>7 DEF Inv, TypeOK
<1>10. \A j \in Intents : /\ intent'[j].amount = intent[j].amount
                          /\ intent'[j].status = IF j = i THEN "REORGED" ELSE intent[j].status
  BY <1>3, <1>6, <1>7 DEF Inv, TypeOK
<1>11. RunsKnow'
  <2>1. \A u \in Tokens : open[u] # None => open[u] \in Intents
    BY DEF Inv, TypeOK
  <2>2. Respects(ks)
    BY <1>1, <1>9, <1>10, <2>1 DEF Respects
  <2> QED  BY <1>2, <2>2, RunsKnowOn
<1>12. EntitlementRests'
  <2>1. \A u \in Tokens \ {t} : ent[u].kind = "paid" => ent[u].req # i
    BY <1>3, <1>4, OthersRestElsewhere
  <2>2. e.status \notin PaidStates
    BY <1>5 DEF PaidStates
  <2> QED  BY <1>1, <1>3, <1>5, <1>9, <1>10, <2>1, <2>2 DEF Inv, EntitlementRests
<1>13. FinalIsFinal'
  BY <1>1, <1>5, <1>9 DEF Inv, FinalIsFinal
<1>14. OpenNamesQuote'
  BY <1>1, <1>10, OpenOn
<1> QED  BY <1>8, <1>11, <1>12, <1>13, <1>14 DEF Inv

\* A free entitlement for a project that has none.
LEMMA FreeKeeps ==
  ASSUME Inv, NEW t \in Tokens, NEW kind \in {"beta", "complimentary"}, ent[t].status = "NONE",
         ent' = [ent EXCEPT ![t] = Free(kind)], UNCHANGED <<intent, paylog, act, chain>>
  PROVE  /\ ent' \in [Tokens -> Entitlement]
         /\ EntitlementRests' /\ FinalIsFinal'
         /\ \A u \in Tokens \ {t} : ent'[u] = ent[u]
<1>1. /\ Free(kind) \in Entitlement /\ Free(kind).kind # "paid"
      /\ Free(kind).status # "INVALIDATED_BY_REORG"
  BY DEF Free, NoEntitlement, Entitlement
<1>2. ent' \in [Tokens -> Entitlement] /\ ent'[t] = Free(kind)
  BY <1>1 DEF Inv, TypeOK
<1>3. \A u \in Tokens \ {t} : ent'[u] = ent[u]
  BY DEF Inv, TypeOK
<1>4. EntitlementRests'
  BY <1>1, <1>2, <1>3 DEF Inv, EntitlementRests
<1>5. FinalIsFinal'
  BY <1>1, <1>2, <1>3 DEF Inv, FinalIsFinal
<1> QED  BY <1>2, <1>3, <1>4, <1>5

LEMMA CommitPublishKeeps ==
  ASSUME Inv, NEW s \in Slots, CommitPublish(s)
  PROVE  Inv'
<1> DEFINE t == run[s].token
           beta == run[s].saw = "beta"
           ks == {CurK(t)} \cup IF beta THEN {EntK(t)} ELSE {}
           new == [state |-> "PUBLISHED", signer |-> run[s].by, at |-> run[s].at]
<1>1. /\ run[s].kind = "publish" /\ cur' = [cur EXCEPT ![t] = new]
      /\ ent' = IF beta THEN [ent EXCEPT ![t] = Free("beta")] ELSE ent
      /\ UNCHANGED <<mode, passport, suspended, intent, open, amount, paylog, act, expired, chain>>
      /\ Cas(s, PublishExpects(t), ks)
  BY DEF CommitPublish
<1>2. /\ run' \in [Slots -> Invocation] /\ \A q \in Slots : Carries(q, ks)
      /\ PublishExpects(t) \subseteq run[s].fresh
  BY <1>1, CasFacts DEF Inv
<1>3. t \in Tokens /\ (beta => ent[t].status = "NONE")
  BY <1>1, <1>2 DEF Inv, RunsKnow, Knows, PublishExpects
<1>4. new \in Pointer
  BY DEF Inv, TypeOK, Invocation, Pointer
<1>5. /\ ent' \in [Tokens -> Entitlement] /\ EntitlementRests' /\ FinalIsFinal'
      /\ \A u \in Tokens : EntK(u) \notin ks => ent'[u] = ent[u]
  <2>1. CASE beta
    <3>1. ent' = [ent EXCEPT ![t] = Free("beta")] /\ EntK(t) \in ks
      BY <1>1, <2>1
    <3>2. /\ ent' \in [Tokens -> Entitlement] /\ EntitlementRests' /\ FinalIsFinal'
          /\ \A u \in Tokens \ {t} : ent'[u] = ent[u]
      <4> HIDE DEF t, ks
      <4> QED  BY <1>1, <1>3, <2>1, <3>1, FreeKeeps
    <3> QED
      <4> HIDE DEF t, ks
      <4> QED  BY <3>1, <3>2
  <2>2. CASE ~beta
    <3>1. ent' = ent
      BY <1>1, <2>2
    <3>2. ent' \in [Tokens -> Entitlement]
      BY <3>1 DEF Inv, TypeOK
    <3>3. EntitlementRests' /\ FinalIsFinal'
      BY <1>1, <3>1, RestsOn, FinalOn
    <3> QED  BY <3>1, <3>2, <3>3
  <2> QED  BY <2>1, <2>2
<1> HIDE DEF new
<1>6. TypeOK'
  BY <1>1, <1>2, <1>3, <1>4, <1>5 DEF Inv, TypeOK
<1>7. RunsKnow'
  <2>1. \A u \in Tokens : CurK(u) \notin ks => cur'[u] = cur[u]
    BY <1>1, <1>3 DEF Inv, TypeOK
  <2>2. Respects(ks)
    <3> HIDE DEF ks
    <3> QED  BY <1>1, <1>5, <2>1 DEF Respects
  <2> QED  BY <1>2, <2>2, RunsKnowOn
<1>8. OpenNamesQuote'
  BY <1>1, OpenOn
<1> QED  BY <1>5, <1>6, <1>7, <1>8 DEF Inv

LEMMA CommitUnpublishKeeps ==
  ASSUME Inv, NEW s \in Slots, CommitUnpublish(s)
  PROVE  Inv'
<1> DEFINE t == run[s].token
           ks == {CurK(t)}
           new == [state |-> "UNPUBLISHED", signer |-> run[s].by, at |-> run[s].at]
<1>1. /\ run[s].kind = "unpublish" /\ cur' = [cur EXCEPT ![t] = new]
      /\ UNCHANGED <<mode, passport, suspended, ent, intent, open, amount, paylog, act, expired, chain>>
      /\ Cas(s, {PassportK(t), CurK(t)}, ks)
  BY DEF CommitUnpublish
<1>2. run' \in [Slots -> Invocation] /\ \A q \in Slots : Carries(q, ks)
  BY <1>1, CasFacts DEF Inv
<1>3. t \in Tokens
  BY <1>1 DEF Inv, RunsKnow, Knows
<1>4. new \in Pointer
  BY DEF Inv, TypeOK, Invocation, Pointer
<1> HIDE DEF new
<1>5. TypeOK'
  BY <1>1, <1>2, <1>3, <1>4 DEF Inv, TypeOK
<1>6. RunsKnow'
  <2>1. \A u \in Tokens : CurK(u) \notin ks => cur'[u] = cur[u]
    BY <1>1, <1>3 DEF Inv, TypeOK
  <2>2. Respects(ks)
    BY <1>1, <2>1 DEF Respects
  <2> QED  BY <1>2, <2>2, RunsKnowOn
<1>7. EntitlementRests' /\ FinalIsFinal' /\ OpenNamesQuote'
  BY <1>1, RestsOn, FinalOn, OpenOn
<1> QED  BY <1>5, <1>6, <1>7 DEF Inv

-----------------------------------------------------------------------------
(* SyncNet's operators, time and the chain.                                *)

LEMMA GrantKeeps ==
  ASSUME Inv, NEW t \in Tokens, GrantComplimentary(t)
  PROVE  Inv'
<1>1. /\ ent[t].status = "NONE" /\ ent' = [ent EXCEPT ![t] = Free("complimentary")]
      /\ run' = Touched({EntK(t)})
      /\ UNCHANGED <<mode, passport, suspended, intent, open, amount, paylog, act, cur, expired, chain>>
  BY DEF GrantComplimentary
<1>2. /\ ent' \in [Tokens -> Entitlement] /\ EntitlementRests' /\ FinalIsFinal'
      /\ \A u \in Tokens \ {t} : ent'[u] = ent[u]
  BY <1>1, FreeKeeps
<1>3. run' \in [Slots -> Invocation] /\ \A q \in Slots : Carries(q, {EntK(t)})
  BY <1>1, TouchedFacts DEF Inv
<1>4. TypeOK'
  BY <1>1, <1>2, <1>3 DEF Inv, TypeOK
<1>5. RunsKnow'
  <2>1. Respects({EntK(t)})
    BY <1>1, <1>2 DEF Respects
  <2> QED  BY <1>3, <2>1, RunsKnowOn
<1>6. OpenNamesQuote'
  BY <1>1, OpenOn
<1> QED  BY <1>2, <1>4, <1>5, <1>6 DEF Inv

LEMMA SetSuspendedKeeps ==
  ASSUME Inv, NEW t \in Tokens, NEW b \in BOOLEAN, SetSuspended(t, b)
  PROVE  Inv'
<1>1. /\ suspended' = [suspended EXCEPT ![t] = b] /\ run' = Touched({SuspensionK(t)})
      /\ UNCHANGED <<mode, passport, ent, intent, open, amount, paylog, act, cur, expired, chain>>
  BY DEF SetSuspended
<1>2. run' \in [Slots -> Invocation] /\ \A q \in Slots : Carries(q, {SuspensionK(t)})
  BY <1>1, TouchedFacts DEF Inv
<1>3. TypeOK'
  BY <1>1, <1>2 DEF Inv, TypeOK
<1>4. RunsKnow'
  <2>1. \A u \in Tokens : SuspensionK(u) \notin {SuspensionK(t)} => suspended'[u] = suspended[u]
    BY <1>1 DEF Inv, TypeOK
  <2>2. Respects({SuspensionK(t)})
    BY <1>1, <2>1 DEF Respects
  <2> QED  BY <1>2, <2>2, RunsKnowOn
<1>5. EntitlementRests' /\ FinalIsFinal' /\ OpenNamesQuote'
  BY <1>1, RestsOn, FinalOn, OpenOn
<1> QED  BY <1>3, <1>4, <1>5 DEF Inv

LEMMA TransferKeeps ==
  ASSUME Inv, NEW t \in Tokens, NEW w \in Wallets, Transfer(t, w)
  PROVE  Inv'
<1>1. /\ passport' = [passport EXCEPT ![t] = w] /\ run' = Touched({PassportK(t)})
      /\ UNCHANGED <<mode, suspended, ent, intent, open, amount, paylog, act, cur, expired, chain>>
  BY DEF Transfer
<1>2. run' \in [Slots -> Invocation] /\ \A q \in Slots : Carries(q, {PassportK(t)})
  BY <1>1, TouchedFacts DEF Inv
<1>3. TypeOK'
  BY <1>1, <1>2 DEF Inv, TypeOK
<1>4. RunsKnow'
  <2>1. \A u \in Tokens : PassportK(u) \notin {PassportK(t)} => passport'[u] = passport[u]
    BY <1>1 DEF Inv, TypeOK
  <2>2. Respects({PassportK(t)})
    BY <1>1, <2>1 DEF Respects
  <2> QED  BY <1>2, <2>2, RunsKnowOn
<1>5. EntitlementRests' /\ FinalIsFinal' /\ OpenNamesQuote'
  BY <1>1, RestsOn, FinalOn, OpenOn
<1> QED  BY <1>3, <1>4, <1>5 DEF Inv

\* What no invocation knows, and nothing rests on, may change: the mode and
\* the reservations of amounts.
LEMMA UnseenKeeps ==
  ASSUME Inv, mode' \in Modes, amount' \in [Amounts -> Intents \cup {None}],
         UNCHANGED <<passport, suspended, ent, intent, open, paylog, act, cur, expired, chain, run>>
  PROVE  Inv'
<1>1. TypeOK'
  BY DEF Inv, TypeOK
<1>2. RunsKnow'
  <2> SUFFICES ASSUME NEW s \in Slots PROVE Knows(run[s])'
    BY DEF RunsKnow
  <2>1. Knows(run[s]) /\ run'[s] = run[s]
    BY DEF Inv, RunsKnow
  <2> QED  BY <2>1 DEF Knows
<1>3. EntitlementRests' /\ FinalIsFinal' /\ OpenNamesQuote'
  BY RestsOn, FinalOn, OpenOn
<1> QED  BY <1>1, <1>2, <1>3 DEF Inv

LEMMA ExpireKeeps ==
  ASSUME Inv, NEW i \in Intents, Expire(i)
  PROVE  Inv'
<1> DEFINE t == TokenFor[i]
           ks == IF open[t] = i THEN {OpenK(t)} ELSE {}
<1>1. /\ expired' = expired \cup {i} /\ t \in Tokens /\ i # None
      /\ open' = [open EXCEPT ![t] = IF open[t] = i THEN None ELSE open[t]]
      /\ run' = IF open[t] = i THEN Touched({OpenK(t)}) ELSE run
      /\ UNCHANGED <<mode, passport, suspended, ent, intent, amount, paylog, act, cur, chain>>
  BY HomeConstants DEF Expire, Inv, TypeOK
<1>2. run' \in [Slots -> Invocation] /\ \A q \in Slots : Carries(q, ks)
  <2>1. CASE open[t] = i
    BY <2>1, <1>1, TouchedFacts DEF Inv
  <2>2. CASE open[t] # i
    BY <2>2, <1>1, StaysCarries DEF Inv, TypeOK
  <2> QED  BY <2>1, <2>2
<1>3. TypeOK'
  BY <1>1, <1>2 DEF Inv, TypeOK
<1>4. \A u \in Tokens : open'[u] = IF open[u] = i /\ u = t THEN None ELSE open[u]
  BY <1>1 DEF Inv, TypeOK
<1>5. RunsKnow'
  <2>1. \A u \in Tokens : OpenK(u) \notin ks => open'[u] = open[u]
    BY <1>4
  <2>2. Respects(ks)
    <3> HIDE DEF ks
    <3> QED  BY <1>1, <2>1 DEF Respects
  <2> QED  BY <1>2, <2>2, RunsKnowOn
<1>6. EntitlementRests' /\ FinalIsFinal'
  BY <1>1, RestsOn, FinalOn
<1>7. OpenNamesQuote'
  <2>1. ASSUME NEW j \in Intents \ expired', intent[j].status = "OPEN"
        PROVE  open'[TokenFor[j]] = j
    <3>1. j \in Intents \ expired /\ j # i
      BY <1>1, <2>1
    <3>2. open[TokenFor[j]] = j /\ TokenFor[j] \in Tokens
      BY <2>1, <3>1, IntentTyped DEF Inv, OpenNamesQuote
    <3> QED  BY <1>4, <3>1, <3>2
  <2>2. ASSUME NEW u \in Tokens, open'[u] # None
        PROVE  intent[open'[u]].status # "NONE"
    <3>1. open'[u] = open[u]
      BY <1>4, <2>2
    <3> QED  BY <2>2, <3>1 DEF Inv, OpenNamesQuote
  <2> QED  BY <1>1, <2>1, <2>2 DEF OpenNamesQuote
<1> QED  BY <1>3, <1>5, <1>6, <1>7 DEF Inv

LEMMA ReleaseHoldKeeps ==
  ASSUME Inv, NEW i \in Intents, ReleaseHold(i)
  PROVE  Inv'
<1> DEFINE new == [intent[i] EXCEPT !.observed = "past"]
<1>1. /\ intent' = [intent EXCEPT ![i].observed = "past"]
      /\ UNCHANGED <<mode, passport, suspended, ent, open, amount, paylog, act, cur, expired, chain, run>>
  BY DEF ReleaseHold
<1>2. new \in Intent /\ new.status = intent[i].status /\ new.amount = intent[i].amount
  BY IntentTyped DEF Inv, Intent
<1>3. intent' = [intent EXCEPT ![i] = new]
  BY <1>1 DEF Inv, TypeOK
<1> HIDE DEF new
<1>4. \A j \in Intents :
        intent'[j].status = intent[j].status /\ intent'[j].amount = intent[j].amount
  BY <1>2, <1>3 DEF Inv, TypeOK
<1>5. TypeOK'
  BY <1>1, <1>2, <1>3 DEF Inv, TypeOK
<1>6. RunsKnow'
  <2>1. \A t \in Tokens : open[t] # None => open[t] \in Intents
    BY DEF Inv, TypeOK
  <2>2. Respects({})
    BY <1>1, <1>4, <2>1 DEF Respects
  <2>3. \A q \in Slots : Carries(q, {})
    BY <1>1, StaysCarries DEF Inv
  <2> QED  BY <2>2, <2>3, RunsKnowOn
<1>7. EntitlementRests' /\ FinalIsFinal' /\ OpenNamesQuote'
  BY <1>1, <1>4, RestsOn, FinalOn, OpenOn
<1> QED  BY <1>5, <1>6, <1>7 DEF Inv

\* The chain moves, but for what is final.
LEMMA ChainKeeps ==
  ASSUME Inv, NEW x \in Txs, NEW c \in Inclusion, chain' = [chain EXCEPT ![x] = c],
         ~(chain[x].on /\ chain[x].level = "finalized"),
         UNCHANGED <<mode, store, expired, run>>
  PROVE  Inv'
<1>1. TypeOK'
  BY DEF Inv, TypeOK, store
<1>2. \A y \in Txs : chain[y].on /\ chain[y].level = "finalized" => chain'[y] = chain[y]
  BY DEF Inv, TypeOK
<1>3. RunsKnow'
  <2>1. Respects({})
    BY <1>2 DEF Respects, store
  <2>2. \A q \in Slots : Carries(q, {})
    BY StaysCarries DEF Inv
  <2> QED  BY <2>1, <2>2, RunsKnowOn
<1>4. EntitlementRests' /\ FinalIsFinal' /\ OpenNamesQuote'
  BY <1>2, RestsOn, FinalOn, OpenOn DEF store
<1> QED  BY <1>1, <1>3, <1>4 DEF Inv

LEMMA ChainStepsKeep ==
  ASSUME Inv, NEW x \in Txs, Mine(x) \/ Confirm(x) \/ Reorganise(x)
  PROVE  Inv'
<1>1. chain[x] \in Inclusion
  BY DEF Inv, TypeOK
<1>2. CASE Mine(x)
  <2> DEFINE c == [on |-> TRUE, block |-> chain[x].block + 1, level |-> "latest",
                   inTime |-> {i \in Intents : intent[i].status # "NONE"} \ expired]
  <2>1. c \in Inclusion
    BY <1>1 DEF Inclusion, Levels
  <2> QED  BY <1>2, <2>1, ChainKeeps DEF Mine, Inv, TypeOK
<1>3. CASE Confirm(x)
  <2> DEFINE c == [chain[x] EXCEPT !.level =
                     IF chain[x].level = "latest" THEN "safe" ELSE "finalized"]
  <2>1. c \in Inclusion
    BY <1>1 DEF Inclusion, Levels
  <2>2. chain' = [chain EXCEPT ![x] = c]
    BY <1>3 DEF Confirm, Inv, TypeOK
  <2> QED  BY <1>3, <2>1, <2>2, ChainKeeps DEF Confirm
<1>4. CASE Reorganise(x)
  <2> DEFINE c == [chain[x] EXCEPT !.on = FALSE, !.level = "latest", !.inTime = {}]
  <2>1. c \in Inclusion
    BY <1>1 DEF Inclusion, Levels
  <2>2. chain' = [chain EXCEPT ![x] = c]
    BY <1>4 DEF Reorganise, Inv, TypeOK
  <2> QED  BY <1>4, <2>1, <2>2, ChainKeeps DEF Reorganise
<1> QED  BY <1>2, <1>3, <1>4

-----------------------------------------------------------------------------
(* The invariant, and what follows from it.                                *)

LEMMA InitInv == Init => Inv
<1> SUFFICES ASSUME Init PROVE Inv
  OBVIOUS
<1>1. /\ NoEntitlement \in Entitlement /\ NoEntitlement.kind # "paid"
      /\ NoEntitlement.status # "INVALIDATED_BY_REORG"
  BY DEF NoEntitlement, Entitlement
<1>2. NoIntent \in Intent /\ NoIntent.status = "NONE" /\ NoPointer \in Pointer
  BY DEF NoIntent, Intent, NoPointer, Pointer
<1>3. [on |-> FALSE, block |-> 0, level |-> "latest", inTime |-> {}] \in Inclusion
  BY DEF Inclusion, Levels
<1>4. TypeOK
  BY <1>1, <1>2, <1>3, IdleTyped DEF Init, TypeOK
<1>5. RunsKnow
  BY IdleKnows DEF Init, RunsKnow
<1>6. EntitlementRests /\ FinalIsFinal
  BY <1>1 DEF Init, EntitlementRests, FinalIsFinal
<1>7. OpenNamesQuote
  BY <1>2 DEF Init, OpenNamesQuote
<1> QED  BY <1>4, <1>5, <1>6, <1>7 DEF Inv

LEMMA HandlerKeeps ==
  ASSUME Inv, NEW s \in Slots, Handler(s)
  PROVE  Inv'
<1>1. ASSUME NEW t \in Tokens, NEW w \in Wallets, BeginQuote(s, t, w) PROVE Inv'
  BY <1>1, BeginQuoteKeeps
<1>2. ASSUME NEW i \in Intents, NEW a \in Amounts, CommitQuote(s, i, a) PROVE Inv'
  BY <1>2, CommitQuoteKeeps
<1>3. ASSUME NEW i \in Intents, NEW x \in Txs, BeginVerify(s, i, x) PROVE Inv'
  BY <1>3, BeginVerifyKeeps
<1>4. CASE SeePending(s) \/ SeeSafe(s) \/ CommitPayment(s)
  BY <1>4, SeePendingKeeps, SeeSafeKeeps, CommitPaymentKeeps
<1>5. ASSUME NEW t \in Tokens, BeginReconcile(s, t) PROVE Inv'
  BY <1>5, BeginReconcileKeeps
<1>6. CASE CommitFinal(s) \/ CommitReorg(s)
  BY <1>6, CommitFinalKeeps, CommitReorgKeeps
<1>7. ASSUME NEW t \in Tokens, NEW w \in Wallets, NEW at \in 1..MaxAt,
             BeginPublish(s, t, w, at) \/ BeginUnpublish(s, t, w, at)
      PROVE  Inv'
  <2>1. at \in Nat
    BY HomeConstants
  <2> QED  BY <1>7, <2>1, BeginPublishKeeps, BeginUnpublishKeeps
<1>8. CASE CommitPublish(s) \/ CommitUnpublish(s) \/ End(s)
  BY <1>8, CommitPublishKeeps, CommitUnpublishKeeps, EndKeeps
<1> QED  BY <1>1, <1>2, <1>3, <1>4, <1>5, <1>6, <1>7, <1>8 DEF Handler

LEMMA EnvironmentKeeps ==
  ASSUME Inv, Environment
  PROVE  Inv'
<1>1. ASSUME NEW t \in Tokens,
             GrantComplimentary(t) \/ SetSuspended(t, TRUE) \/ SetSuspended(t, FALSE)
      PROVE  Inv'
  BY <1>1, GrantKeeps, SetSuspendedKeeps
<1>2. ASSUME NEW m \in Modes, SwitchMode(m) PROVE Inv'
  BY <1>2, UnseenKeeps DEF SwitchMode, store, Inv, TypeOK
<1>3. ASSUME NEW t \in Tokens, NEW w \in Wallets, Transfer(t, w) PROVE Inv'
  BY <1>3, TransferKeeps
<1>4. ASSUME NEW i \in Intents, Expire(i) \/ ReleaseHold(i) PROVE Inv'
  BY <1>4, ExpireKeeps, ReleaseHoldKeeps
<1>5. ASSUME NEW a \in Amounts, ReleaseAmount(a) PROVE Inv'
  BY <1>5, UnseenKeeps DEF ReleaseAmount, Inv, TypeOK
<1>6. ASSUME NEW x \in Txs, Mine(x) \/ Confirm(x) \/ Reorganise(x) PROVE Inv'
  BY <1>6, ChainStepsKeep
<1> QED  BY <1>1, <1>2, <1>3, <1>4, <1>5, <1>6 DEF Environment

LEMMA StepInv == Inv /\ [Next]_vars => Inv'
<1> SUFFICES ASSUME Inv, [Next]_vars PROVE Inv'
  OBVIOUS
<1>1. CASE UNCHANGED vars
  BY <1>1, UnseenKeeps DEF vars, store, Inv, TypeOK
<1>2. CASE Next
  BY <1>2, HandlerKeeps, EnvironmentKeeps DEF Next
<1> QED  BY <1>1, <1>2

\* The invariant holds, whatever the projects, payments and concurrent
\* invocations of the handlers of project-home.js.
THEOREM HomeInvariant == Spec => []Inv
BY InitInv, StepInv, PTL DEF Spec

\* The records of project-home.js keep their shape.
THEOREM HomeTypes == Spec => []TypeOK
<1>1. Inv => TypeOK
  BY DEF Inv
<1> QED  BY <1>1, HomeInvariant, PTL

\* A paid entitlement has its own payment, claimed for its own request and of
\* that request's exact amount, whatever verifications, reconciliations and
\* quotes run at the same time.
THEOREM HomePayments == Spec => []PaidByItsPayment
<1>1. Inv => PaidByItsPayment
  BY DEF Inv, EntitlementRests, PaidByItsPayment
<1> QED  BY <1>1, HomeInvariant, PTL

\* A final entitlement's block is final: reconcile and verifyPayment never
\* record as FINALIZED what the chain can still take back.
THEOREM HomeFinality == Spec => []FinalIsFinal
<1>1. Inv => FinalIsFinal
  BY DEF Inv
<1> QED  BY <1>1, HomeInvariant, PTL

\* The request of an invalidated payment is open to verification again.
THEOREM HomeReopens == Spec => []ReorgReopens
<1>1. Inv => ReorgReopens
  BY DEF Inv, EntitlementRests, ReorgReopens
<1> QED  BY <1>1, HomeInvariant, PTL

\* Concurrent calls of createIntent leave at most one quote to pay.
THEOREM HomeQuotes == Spec => []OneOpenQuote
<1>1. Inv => OneOpenQuote
  BY DEF Inv, OpenNamesQuote, OneOpenQuote
<1> QED  BY <1>1, HomeInvariant, PTL

-----------------------------------------------------------------------------
(* What a step may not do.                                                 *)

\* Which steps write the claims, the entitlements and the published pointers.
LEMMA Writers ==
  ASSUME [Next]_vars
  PROVE  /\ paylog' = paylog \/ \E s \in Slots : CommitPayment(s)
         /\ cur' = cur \/ \E s \in Slots : CommitPublish(s) \/ CommitUnpublish(s)
         /\ \/ ent' = ent
            \/ \E s \in Slots : CommitPayment(s) \/ CommitFinal(s) \/ CommitReorg(s) \/ CommitPublish(s)
            \/ \E t \in Tokens : GrantComplimentary(t)
<1> DEFINE Others == UNCHANGED <<paylog, cur, ent>>
<1>1. CASE UNCHANGED vars
  BY <1>1 DEF vars, store
<1>2. ASSUME NEW s \in Slots, Handler(s)
      PROVE  \/ Others
             \/ CommitPayment(s)
             \/ (CommitPublish(s) \/ CommitUnpublish(s)) /\ paylog' = paylog /\ (CommitUnpublish(s) => ent' = ent)
             \/ (CommitFinal(s) \/ CommitReorg(s)) /\ UNCHANGED <<paylog, cur>>
  <2>1. ASSUME NEW t \in Tokens, NEW w \in Wallets, BeginQuote(s, t, w) PROVE Others
    BY <2>1 DEF BeginQuote, Begins, store
  <2>2. ASSUME NEW i \in Intents, NEW a \in Amounts, CommitQuote(s, i, a) PROVE Others
    BY <2>2 DEF CommitQuote
  <2>3. ASSUME NEW i \in Intents, NEW x \in Txs, BeginVerify(s, i, x) PROVE Others
    BY <2>3 DEF BeginVerify, Begins, store
  <2>4. CASE SeePending(s) \/ SeeSafe(s) \/ End(s)
    BY <2>4 DEF SeePending, SeeSafe, End, store
  <2>5. ASSUME NEW t \in Tokens, BeginReconcile(s, t) PROVE Others
    BY <2>5 DEF BeginReconcile, Begins, store
  <2>6. ASSUME NEW t \in Tokens, NEW w \in Wallets, NEW at \in 1..MaxAt,
               BeginPublish(s, t, w, at) \/ BeginUnpublish(s, t, w, at)
        PROVE  Others
    BY <2>6 DEF BeginPublish, BeginUnpublish, Begins, store
  <2>7. CASE CommitFinal(s) \/ CommitReorg(s)
    BY <2>7 DEF CommitFinal, CommitReorg
  <2>8. CASE CommitPublish(s) \/ CommitUnpublish(s)
    BY <2>8 DEF CommitPublish, CommitUnpublish
  <2> HIDE DEF Others
  <2> QED  BY <1>2, <2>1, <2>2, <2>3, <2>4, <2>5, <2>6, <2>7, <2>8 DEF Handler
<1>3. ASSUME Environment
      PROVE  UNCHANGED <<paylog, cur>> /\ (ent' = ent \/ \E t \in Tokens : GrantComplimentary(t))
  BY <1>3 DEF Environment, GrantComplimentary, SetSuspended, SwitchMode, Transfer, Expire,
              ReleaseHold, ReleaseAmount, Mine, Confirm, Reorganise, store
<1>4. CASE \E s \in Slots : Handler(s)
  <2>1. PICK s \in Slots : Handler(s)
    BY <1>4
  <2>2. CASE Others
    BY <2>2
  <2>3. CASE CommitPayment(s)
    <3>1. cur' = cur
      BY <2>3 DEF CommitPayment
    <3> QED  BY <2>3, <3>1
  <2>4. CASE CommitPublish(s) /\ paylog' = paylog
    BY <2>4
  <2>5. CASE CommitUnpublish(s) /\ paylog' = paylog /\ ent' = ent
    BY <2>5
  <2>6. CASE (CommitFinal(s) \/ CommitReorg(s)) /\ UNCHANGED <<paylog, cur>>
    BY <2>6
  <2> HIDE DEF Others
  <2> QED  BY <1>2, <2>1, <2>2, <2>3, <2>4, <2>5, <2>6
<1> QED  BY <1>1, <1>3, <1>4 DEF Next

\* What the commits of an invocation rely on, at the moment they happen.
LEMMA PaymentReplaces ==
  ASSUME Inv, NEW s \in Slots, CommitPayment(s)
  PROVE  /\ run[s].token \in Tokens
         /\ ent[run[s].token].status \in {"NONE", "INVALIDATED_BY_REORG"}
<1> DEFINE r == run[s]
<1>1. /\ r.kind = "verify" /\ Cas(s, PaymentExpects(r.intent), {EntK(r.token), IntentK(r.intent)})
      /\ EntK(r.token) \in r.fresh => ent[r.token].status \notin PaidStates
  BY DEF CommitPayment
<1>2. r.token \in Tokens /\ TokenFor[r.intent] = r.token
  BY <1>1 DEF Inv, RunsKnow, Knows
<1>3. EntK(r.token) \in r.fresh
  BY <1>1, <1>2 DEF Cas, PaymentExpects
<1>4. ent[r.token].status \in {"NONE", "ACTIVE", "FINALIZED", "INVALIDATED_BY_REORG"}
  BY <1>2 DEF Inv, TypeOK, Entitlement
<1> QED  BY <1>1, <1>2, <1>3, <1>4 DEF PaidStates

LEMMA ReconcileReplaces ==
  ASSUME Inv, NEW s \in Slots, CommitFinal(s) \/ CommitReorg(s)
  PROVE  /\ run[s].token \in Tokens
         /\ ent[run[s].token].kind = "paid" /\ ent[run[s].token].status = "ACTIVE"
<1>1. run[s].kind = "reconcile" /\ EntK(run[s].token) \in run[s].fresh
  BY DEF CommitFinal, CommitReorg, Cas
<1> QED  BY <1>1 DEF Inv, RunsKnow, Knows

LEMMA PublishFinds ==
  ASSUME Inv, NEW s \in Slots, CommitPublish(s)
  PROVE  LET r == run[s] IN
         /\ r.token \in Tokens /\ r.by = passport[r.token] /\ cur[r.token].at < r.at
         /\ ~suspended[r.token]
         /\ IF r.saw = "beta" THEN ent[r.token].status = "NONE"
                              ELSE ent[r.token].status \in PaidStates
<1>1. run[s].kind = "publish" /\ PublishExpects(run[s].token) \subseteq run[s].fresh
  BY DEF CommitPublish, Cas
<1>2. Knows(run[s])
  BY DEF Inv, RunsKnow
<1> QED  BY <1>1, <1>2 DEF Knows, PublishExpects

LEMMA UnpublishFinds ==
  ASSUME Inv, NEW s \in Slots, CommitUnpublish(s)
  PROVE  LET r == run[s] IN
         r.token \in Tokens /\ r.by = passport[r.token] /\ cur[r.token].at < r.at
<1>1. run[s].kind = "unpublish" /\ {PassportK(run[s].token), CurK(run[s].token)} \subseteq run[s].fresh
  BY DEF CommitUnpublish, Cas
<1>2. Knows(run[s])
  BY DEF Inv, RunsKnow
<1> QED  BY <1>1, <1>2 DEF Knows

\* A payment that a request has claimed is never claimed by another one.
THEOREM HomeClaims == Spec => ClaimStays
<1> DEFINE Stays == \A x \in Txs : paylog[x] # None => paylog'[x] = paylog[x]
<1>1. Inv /\ [Next]_vars => [Stays]_paylog
  <2> SUFFICES ASSUME Inv, NEW s \in Slots, CommitPayment(s) PROVE Stays
    BY Writers
  <2>1. /\ paylog' = [paylog EXCEPT ![run[s].tx] = run[s].intent]
        /\ paylog[run[s].tx] \in {None, run[s].intent}
    BY DEF CommitPayment, Claimable
  <2> QED  BY <2>1 DEF Inv, TypeOK
<1> QED  BY <1>1, HomeInvariant, PTL DEF Spec, ClaimStays

\* What has activated a project is only ever finalised, or invalidated while
\* it is not final, or replaced once it was invalidated.
THEOREM HomeActivations == Spec => ActivatedOnce
<1> DEFINE Changes ==
      \A t \in Tokens : ent'[t] # ent[t] =>
        \/ ent[t].status = "NONE"
        \/ ent[t].kind = "paid" /\ ent[t].status = "ACTIVE"
           /\ ent'[t] \in {[ent[t] EXCEPT !.status = "FINALIZED"],
                           [ent[t] EXCEPT !.status = "INVALIDATED_BY_REORG"]}
        \/ ent[t].status = "INVALIDATED_BY_REORG" /\ ent'[t].status \in PaidStates
<1>1. Inv /\ [Next]_vars => [Changes]_ent
  <2> SUFFICES ASSUME Inv, [Next]_vars, ent' # ent PROVE Changes
    OBVIOUS
  <2>1. ASSUME NEW s \in Slots, CommitPayment(s) PROVE Changes
    <3>1. \A t \in Tokens \ {run[s].token} : ent'[t] = ent[t]
      BY <2>1 DEF CommitPayment, Inv, TypeOK
    <3>2. ent'[run[s].token].status \in PaidStates
      BY <2>1, PaymentReplaces DEF CommitPayment, Inv, TypeOK, PaidStates
    <3> QED  BY <2>1, <3>1, <3>2, PaymentReplaces
  <2>2. ASSUME NEW s \in Slots, CommitFinal(s) \/ CommitReorg(s) PROVE Changes
    <3>1. \A t \in Tokens \ {run[s].token} : ent'[t] = ent[t]
      BY <2>2 DEF CommitFinal, CommitReorg, Inv, TypeOK
    <3>2. ent'[run[s].token] \in {[ent[run[s].token] EXCEPT !.status = "FINALIZED"],
                                  [ent[run[s].token] EXCEPT !.status = "INVALIDATED_BY_REORG"]}
      BY <2>2, ReconcileReplaces DEF CommitFinal, CommitReorg, Inv, TypeOK
    <3> QED  BY <2>2, <3>1, <3>2, ReconcileReplaces
  <2>3. ASSUME NEW s \in Slots, CommitPublish(s) PROVE Changes
    <3>1. run[s].saw = "beta"
      BY <2>3 DEF CommitPublish
    <3>2. \A t \in Tokens \ {run[s].token} : ent'[t] = ent[t]
      BY <2>3 DEF CommitPublish, Inv, TypeOK
    <3> QED  BY <2>3, <3>1, <3>2, PublishFinds
  <2>4. ASSUME NEW t \in Tokens, GrantComplimentary(t) PROVE Changes
    BY <2>4 DEF GrantComplimentary, Inv, TypeOK
  <2> QED  BY <2>1, <2>2, <2>3, <2>4, Writers
<1> QED  BY <1>1, HomeInvariant, PTL DEF Spec, ActivatedOnce

\* Whoever changes the published site is the project's operator when the
\* change is stored, however long ago the request was checked.
THEOREM HomeAuthority == Spec => WriteTimeAuthority
<1> DEFINE Authorised ==
      \A t \in Tokens : cur'[t] # cur[t] =>
        /\ cur'[t].signer = passport[t]
        /\ cur[t].at < cur'[t].at
        /\ cur'[t].state = "PUBLISHED" => ent'[t].status \in PaidStates /\ ~suspended[t]
<1>1. Inv /\ [Next]_vars => [Authorised]_cur
  <2> SUFFICES ASSUME Inv, [Next]_vars, cur' # cur PROVE Authorised
    OBVIOUS
  <2>1. ASSUME NEW s \in Slots, CommitPublish(s) PROVE Authorised
    <3> DEFINE t == run[s].token
    <3>1. /\ t \in Tokens /\ run[s].by = passport[t] /\ cur[t].at < run[s].at /\ ~suspended[t]
          /\ IF run[s].saw = "beta" THEN ent[t].status = "NONE" ELSE ent[t].status \in PaidStates
      BY <2>1, PublishFinds
    <3>2. ent'[t].status \in PaidStates
      <4>1. Free("beta").status \in PaidStates
        BY DEF Free, NoEntitlement, PaidStates
      <4> QED  BY <2>1, <3>1, <4>1 DEF CommitPublish, Inv, TypeOK
    <3>3. /\ cur'[t] = [state |-> "PUBLISHED", signer |-> run[s].by, at |-> run[s].at]
          /\ \A u \in Tokens \ {t} : cur'[u] = cur[u]
      BY <2>1, <3>1 DEF CommitPublish, Inv, TypeOK
    <3> QED  BY <3>1, <3>2, <3>3
  <2>2. ASSUME NEW s \in Slots, CommitUnpublish(s) PROVE Authorised
    <3> DEFINE t == run[s].token
    <3>1. t \in Tokens /\ run[s].by = passport[t] /\ cur[t].at < run[s].at
      BY <2>2, UnpublishFinds
    <3>2. /\ cur'[t] = [state |-> "UNPUBLISHED", signer |-> run[s].by, at |-> run[s].at]
          /\ \A u \in Tokens \ {t} : cur'[u] = cur[u]
      BY <2>2, <3>1 DEF CommitUnpublish, Inv, TypeOK
    <3> QED  BY <3>1, <3>2
  <2> QED  BY <2>1, <2>2, Writers
<1> QED  BY <1>1, HomeInvariant, PTL DEF Spec, WriteTimeAuthority
=============================================================================
