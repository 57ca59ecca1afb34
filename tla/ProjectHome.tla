----------------------------- MODULE ProjectHome -----------------------------
(***************************************************************************)
(* Project Home: quotes, activation by a payment on Robinhood Chain, the   *)
(* reconciliation of reorganised payments, publication by the project's    *)
(* operator and suspension by SyncNet (netlify/functions/project-home.js,  *)
(* netlify/lib/project-home-suspension.js).                                *)
(*                                                                         *)
(* Every handler reads, then commits with one compare-and-set over the     *)
(* keys whose value it relies on.  An invocation carries the keys that are *)
(* unchanged since it read them (fresh): a write takes its keys out of     *)
(* every other invocation's fresh, and a commit needs the keys it expects. *)
(* (Records carry timestamps: a key written again has another raw value.)  *)
(* A read that no commit expects may be stale when the commit happens.     *)
(***************************************************************************)
EXTENDS Naturals, FiniteSets

CONSTANTS
  Wallets, Tokens, Intents, Amounts, Txs, Slots,
  None,
  TokenFor,        \* intent id -> the token it is a quote for
  Pays,            \* transaction -> the exact amount it transfers to the sink
  MaxAt,           \* bound: issuedAt of signed site changes
  MaxBlocks        \* bound: blocks that include one transaction

ASSUME HomeConstants ==
  /\ TokenFor \in [Intents -> Tokens]
  /\ Pays \in [Txs -> Amounts]
  /\ MaxAt \in Nat /\ MaxBlocks \in Nat
  /\ None \notin Wallets \cup Intents \cup Amounts \cup Txs \cup Tokens

VARIABLES
  mode,            \* deployment configuration
  passport,        \* the Marketplace's Passport operator, read only here
  suspended,       \* site:suspension
  ent,             \* site:entitlement
  intent,          \* site:intent
  open,            \* site:open, the open intent of a token
  amount,          \* site:amt, the intent an exact amount is reserved for
  paylog,          \* site:paylog, the request that claimed a payment
  act,             \* site:act, the activation registry: payment -> token
  cur,             \* site:cur, the published pointer
  expired,         \* intents whose lock has passed
  chain,           \* what Robinhood Chain says of each transaction
  run              \* slot -> its invocation

store == <<passport, suspended, ent, intent, open, amount, paylog, act, cur>>
vars  == <<mode, store, expired, chain, run>>

-----------------------------------------------------------------------------
(* Types.                                                                  *)

\* A closed deployment is one whose handlers do not begin.
Modes == {"paid", "free-beta"}

PaidStates == {"ACTIVE", "FINALIZED"}
Entitlement == [status : {"NONE", "ACTIVE", "FINALIZED", "INVALIDATED_BY_REORG"},
                kind : {"none", "paid", "beta", "complimentary"},
                req : Intents \cup {None}, tx : Txs \cup {None}, block : Nat]
NoEntitlement == [status |-> "NONE", kind |-> "none", req |-> None, tx |-> None, block |-> 0]
Free(kind) == [NoEntitlement EXCEPT !.status = "ACTIVE", !.kind = kind]

\* observed: a payment was seen that is not yet SAFE; held for six hours.
Intent == [status : {"NONE", "OPEN", "CONSUMED", "REORGED"},
           amount : Amounts \cup {None}, observed : {"no", "held", "past"}]
NoIntent == [status |-> "NONE", amount |-> None, observed |-> "no"]

Pointer == [state : {"NONE", "PUBLISHED", "UNPUBLISHED"},
            signer : Wallets \cup {None}, at : Nat]
NoPointer == [state |-> "NONE", signer |-> None, at |-> 0]

\* block: which of its blocks last included it (0: never mined); level: how
\* far the height of that block is confirmed; inTime: the intents that
\* existed and were not expired at that block's timestamp.
Levels == {"latest", "safe", "finalized"}
Inclusion == [on : BOOLEAN, block : Nat, level : Levels, inTime : SUBSET Intents]

Keys == {"passport", "suspension", "entitlement", "open", "current"} \X Tokens
        \cup {"intent"} \X Intents
PassportK(t) == <<"passport", t>>
SuspensionK(t) == <<"suspension", t>>
EntK(t) == <<"entitlement", t>>
OpenK(t) == <<"open", t>>
CurK(t) == <<"current", t>>
IntentK(i) == <<"intent", i>>

\* again: the payment was this intent's and was reorganised away; saw: what
\* it has learned so far.
Invocation == [kind : {"none", "quote", "verify", "reconcile", "publish", "unpublish"},
               token : Tokens \cup {None}, by : Wallets \cup {None}, at : Nat,
               intent : Intents \cup {None}, tx : Txs \cup {None}, again : BOOLEAN,
               saw : {"nothing", "beta", "safe", "finalized", "reorg"}, block : Nat,
               fresh : SUBSET Keys]
Idle == [kind |-> "none", token |-> None, by |-> None, at |-> 0, intent |-> None,
         tx |-> None, again |-> FALSE, saw |-> "nothing", block |-> 0, fresh |-> {}]

TypeOK ==
  /\ mode \in Modes
  /\ passport \in [Tokens -> Wallets \cup {None}]
  /\ suspended \in [Tokens -> BOOLEAN]
  /\ ent \in [Tokens -> Entitlement]
  /\ intent \in [Intents -> Intent]
  /\ open \in [Tokens -> Intents \cup {None}]
  /\ amount \in [Amounts -> Intents \cup {None}]
  /\ paylog \in [Txs -> Intents \cup {None}]
  /\ act \in [Txs -> Tokens \cup {None}]
  /\ cur \in [Tokens -> Pointer]
  /\ expired \subseteq Intents
  /\ chain \in [Txs -> Inclusion]
  /\ run \in [Slots -> Invocation]

Init ==
  /\ mode \in Modes
  /\ passport = [t \in Tokens |-> None]
  /\ suspended = [t \in Tokens |-> FALSE]
  /\ ent = [t \in Tokens |-> NoEntitlement]
  /\ intent = [i \in Intents |-> NoIntent]
  /\ open = [t \in Tokens |-> None]
  /\ amount = [a \in Amounts |-> None]
  /\ paylog = [x \in Txs |-> None]
  /\ act = [x \in Txs |-> None]
  /\ cur = [t \in Tokens |-> NoPointer]
  /\ expired = {}
  /\ chain = [x \in Txs |-> [on |-> FALSE, block |-> 0, level |-> "latest", inTime |-> {}]]
  /\ run = [s \in Slots |-> Idle]

-----------------------------------------------------------------------------
(* Invocations and the store's compare-and-set.                            *)

Begins(s, r) ==
  /\ run[s] = Idle
  /\ run' = [run EXCEPT ![s] = r]
  /\ UNCHANGED <<mode, store, expired, chain>>

\* The keys ks are written: no invocation's reading of them is fresh.
Touched(ks) == [s \in Slots |-> [run[s] EXCEPT !.fresh = @ \ ks]]

\* The commit of s, which expects the keys expects unchanged and writes ks.
Cas(s, expects, ks) ==
  /\ expects \subseteq run[s].fresh
  /\ run' = [Touched(ks) EXCEPT ![s] = Idle]

\* An invocation ends without a commit: its compare-and-set failed, a read
\* did, or it was stopped.
End(s) ==
  /\ run[s] # Idle
  /\ run' = [run EXCEPT ![s] = Idle]
  /\ UNCHANGED <<mode, store, expired, chain>>

-----------------------------------------------------------------------------
(* 1. Quotes: createIntent.                                                *)

\* The suspension and the observed payments are read and not expected later.
BeginQuote(s, t, w) ==
  /\ mode = "paid"
  /\ passport[t] = w
  /\ ~suspended[t]
  /\ ent[t].status \notin PaidStates
  /\ \A i \in Intents : TokenFor[i] = t /\ intent[i].observed = "held"
       => intent[i].status = "CONSUMED"
  /\ open[t] # None => intent[open[t]].status # "OPEN"
  /\ Begins(s, [Idle EXCEPT !.kind = "quote", !.token = t,
                  !.fresh = {PassportK(t), EntK(t), OpenK(t)}])

\* Mutation of QuoteExpects: the open intent is not expected.
QuoteExpects_NotOpen(t) == {PassportK(t), EntK(t)}
QuoteExpects(t) == {PassportK(t), EntK(t), OpenK(t)}

\* A requestId and a tag are drawn until the exact amount is free.
CommitQuote(s, i, a) ==
  LET t == TokenFor[i] IN
  /\ run[s].kind = "quote"
  /\ run[s].token = t
  /\ intent[i].status = "NONE"
  /\ amount[a] = None
  /\ intent' = [intent EXCEPT ![i] = [NoIntent EXCEPT !.status = "OPEN", !.amount = a]]
  /\ open' = [open EXCEPT ![t] = i]
  /\ amount' = [amount EXCEPT ![a] = i]
  /\ Cas(s, QuoteExpects(t), {OpenK(t), IntentK(i)})
  /\ UNCHANGED <<mode, passport, suspended, ent, paylog, act, cur, expired, chain>>

-----------------------------------------------------------------------------
(* 2. Verification and activation: verifyPayment.                          *)

BeginVerify(s, i, x) ==
  LET t == TokenFor[i] IN
  /\ mode = "paid"
  /\ intent[i].status \in {"OPEN", "REORGED"}
  /\ Begins(s, [Idle EXCEPT !.kind = "verify", !.token = t, !.intent = i, !.tx = x,
                  !.again = /\ intent[i].status = "REORGED"
                            /\ ent[t].status = "INVALIDATED_BY_REORG"
                            /\ ent[t].req = i /\ ent[t].tx = x,
                  !.fresh = {EntK(t), IntentK(i)}])

\* The receipt and its block: the exact amount, mined in the intent's window;
\* a transaction that was mined in time and is included again may be late.
Matches(r) ==
  /\ r.kind = "verify" /\ r.saw = "nothing"
  /\ chain[r.tx].on
  /\ Pays[r.tx] = intent[r.intent].amount
  /\ r.intent \in chain[r.tx].inTime \/ r.again

\* Mutation of SeePending: the intent it read is written back blindly.
SeePending_Blind(s) ==
  LET i == run[s].intent IN
  /\ Matches(run[s])
  /\ chain[run[s].tx].level = "latest"
  /\ intent' = [intent EXCEPT ![i].status = IF run[s].again THEN "REORGED" ELSE "OPEN",
                              ![i].observed = "held"]
  /\ Cas(s, {}, {IntentK(i)})
  /\ UNCHANGED <<mode, passport, suspended, ent, open, amount, paylog, act, cur, expired, chain>>

\* recordObserved: not SAFE yet.
SeePending(s) ==
  LET i == run[s].intent IN
  /\ Matches(run[s])
  /\ chain[run[s].tx].level = "latest"
  /\ intent[i].observed = "no"
  /\ intent' = [intent EXCEPT ![i].observed = "held"]
  /\ Cas(s, {IntentK(i)}, {IntentK(i)})
  /\ UNCHANGED <<mode, passport, suspended, ent, open, amount, paylog, act, cur, expired, chain>>

SeeSafe(s) ==
  /\ Matches(run[s])
  /\ chain[run[s].tx].level # "latest"
  /\ run' = [run EXCEPT ![s].saw = chain[run[s].tx].level,
                        ![s].block = chain[run[s].tx].block]
  /\ UNCHANGED <<mode, store, expired, chain>>

\* Mutation of Claimable: what another request claimed is not looked at.
Claimable_Any(i, x) == x \in Txs
Claimable(i, x) == paylog[x] \in {None, i}

PaymentExpects(i) == {EntK(TokenFor[i]), IntentK(i)}

\* Claims the payment, creates the entitlement, consumes the intent and
\* registers the activation.
CommitPayment(s) ==
  LET r == run[s]
      t == r.token
  IN /\ r.kind = "verify" /\ r.saw \in {"safe", "finalized"}
     /\ Claimable(r.intent, r.tx)
     /\ EntK(t) \in r.fresh => ent[t].status \notin PaidStates
     /\ paylog' = [paylog EXCEPT ![r.tx] = r.intent]
     /\ ent' = [ent EXCEPT ![t] = [status |-> IF r.saw = "finalized" THEN "FINALIZED" ELSE "ACTIVE",
                                   kind |-> "paid", req |-> r.intent, tx |-> r.tx,
                                   block |-> r.block]]
     /\ intent' = [intent EXCEPT ![r.intent].status = "CONSUMED"]
     /\ act' = [act EXCEPT ![r.tx] = t]
     /\ Cas(s, PaymentExpects(r.intent), {EntK(t), IntentK(r.intent)})
     /\ UNCHANGED <<mode, passport, suspended, open, amount, cur, expired, chain>>

-----------------------------------------------------------------------------
(* 3. Finality and reorganisations: reconcile.                             *)

\* What the chain says of the entitlement e: its block is no longer the one
\* at that height, it is final, or neither.
Verdict(e) ==
  IF ~chain[e.tx].on \/ chain[e.tx].block # e.block THEN "reorg"
  ELSE IF chain[e.tx].level = "finalized" THEN "finalized"
  ELSE "nothing"

BeginReconcile(s, t) ==
  LET e == ent[t] IN
  /\ e.kind = "paid" /\ e.status = "ACTIVE"
  /\ Verdict(e) # "nothing"
  /\ Begins(s, [Idle EXCEPT !.kind = "reconcile", !.token = t, !.intent = e.req,
                  !.tx = e.tx, !.saw = Verdict(e), !.fresh = {EntK(t)}])

CommitFinal(s) ==
  LET t == run[s].token IN
  /\ run[s].kind = "reconcile" /\ run[s].saw = "finalized"
  /\ ent' = [ent EXCEPT ![t].status = "FINALIZED"]
  /\ Cas(s, {EntK(t)}, {EntK(t)})
  /\ UNCHANGED <<mode, passport, suspended, intent, open, amount, paylog, act, cur, expired, chain>>

Reopened(i) == [intent EXCEPT ![i].status = "REORGED"]

\* The entitlement is invalidated and the same intent reopened (its record
\* is read, and expected, right before the commit).
CommitReorg(s) ==
  LET t == run[s].token IN
  /\ run[s].kind = "reconcile" /\ run[s].saw = "reorg"
  /\ ent' = [ent EXCEPT ![t].status = "INVALIDATED_BY_REORG"]
  /\ intent' = Reopened(run[s].intent)
  /\ Cas(s, {EntK(t)}, {EntK(t), IntentK(run[s].intent)})
  /\ UNCHANGED <<mode, passport, suspended, open, amount, paylog, act, cur, expired, chain>>

-----------------------------------------------------------------------------
(* 4. Publication: publish and unpublish, signed by w at issuedAt at.      *)

BeginPublish(s, t, w, at) ==
  /\ passport[t] = w
  /\ ~suspended[t]
  /\ \/ ent[t].status \in PaidStates
     \/ ent[t].status = "NONE" /\ mode = "free-beta"
  /\ cur[t].at < at
  /\ Begins(s, [Idle EXCEPT !.kind = "publish", !.token = t, !.by = w, !.at = at,
                  !.saw = IF ent[t].status = "NONE" THEN "beta" ELSE "nothing",
                  !.fresh = {PassportK(t), SuspensionK(t), EntK(t), CurK(t)}])

\* Mutation of PublishExpects: a suspension since the read is overlooked.
PublishExpects_NotSuspension(t) == {PassportK(t), EntK(t), CurK(t)}
PublishExpects(t) == {PassportK(t), SuspensionK(t), EntK(t), CurK(t)}

\* A project without an entitlement gets its free one in the same commit.
CommitPublish(s) ==
  LET t == run[s].token
      beta == run[s].saw = "beta"
  IN /\ run[s].kind = "publish"
     /\ cur' = [cur EXCEPT ![t] = [state |-> "PUBLISHED", signer |-> run[s].by, at |-> run[s].at]]
     /\ ent' = IF beta THEN [ent EXCEPT ![t] = Free("beta")] ELSE ent
     /\ Cas(s, PublishExpects(t), {CurK(t)} \cup IF beta THEN {EntK(t)} ELSE {})
     /\ UNCHANGED <<mode, passport, suspended, intent, open, amount, paylog, act, expired, chain>>

BeginUnpublish(s, t, w, at) ==
  /\ passport[t] = w
  /\ cur[t].state = "PUBLISHED"
  /\ cur[t].at < at
  /\ Begins(s, [Idle EXCEPT !.kind = "unpublish", !.token = t, !.by = w, !.at = at,
                  !.fresh = {PassportK(t), CurK(t)}])

CommitUnpublish(s) ==
  LET t == run[s].token IN
  /\ run[s].kind = "unpublish"
  /\ cur' = [cur EXCEPT ![t] = [state |-> "UNPUBLISHED", signer |-> run[s].by, at |-> run[s].at]]
  /\ Cas(s, {PassportK(t), CurK(t)}, {CurK(t)})
  /\ UNCHANGED <<mode, passport, suspended, ent, intent, open, amount, paylog, act, expired, chain>>

-----------------------------------------------------------------------------
(* SyncNet's operators, from the command line: one compare-and-set each.   *)

GrantComplimentary(t) ==
  /\ ent[t].status = "NONE"
  /\ ent' = [ent EXCEPT ![t] = Free("complimentary")]
  /\ run' = Touched({EntK(t)})
  /\ UNCHANGED <<mode, passport, suspended, intent, open, amount, paylog, act, cur, expired, chain>>

\* suspend and reinstate.
SetSuspended(t, b) ==
  /\ suspended[t] # b
  /\ suspended' = [suspended EXCEPT ![t] = b]
  /\ run' = Touched({SuspensionK(t)})
  /\ UNCHANGED <<mode, passport, ent, intent, open, amount, paylog, act, cur, expired, chain>>

SwitchMode(m) ==
  /\ m # mode
  /\ mode' = m
  /\ UNCHANGED <<store, expired, chain, run>>

\* The Marketplace's claim and transfer-accept.
Transfer(t, w) ==
  /\ passport[t] # w
  /\ passport' = [passport EXCEPT ![t] = w]
  /\ run' = Touched({PassportK(t)})
  /\ UNCHANGED <<mode, suspended, ent, intent, open, amount, paylog, act, cur, expired, chain>>

-----------------------------------------------------------------------------
(* Time and the chain.                                                     *)

\* The lock and the open key end together.
Expire(i) ==
  /\ intent[i].status # "NONE" /\ i \notin expired
  /\ expired' = expired \cup {i}
  /\ open' = [open EXCEPT ![TokenFor[i]] = IF @ = i THEN None ELSE @]
  /\ run' = IF open[TokenFor[i]] = i THEN Touched({OpenK(TokenFor[i])}) ELSE run
  /\ UNCHANGED <<mode, passport, suspended, ent, intent, amount, paylog, act, cur, chain>>

\* An amount stays reserved beyond its intent's lock.
ReleaseAmount(a) ==
  /\ amount[a] \in expired
  /\ amount' = [amount EXCEPT ![a] = None]
  /\ UNCHANGED <<mode, passport, suspended, ent, intent, open, paylog, act, cur, expired, chain, run>>

\* OBSERVED_HOLD passes.
ReleaseHold(i) ==
  /\ i \in expired /\ intent[i].observed = "held"
  /\ intent' = [intent EXCEPT ![i].observed = "past"]
  /\ UNCHANGED <<mode, passport, suspended, ent, open, amount, paylog, act, cur, expired, chain, run>>

Mine(x) ==
  /\ ~chain[x].on
  /\ chain[x].block < MaxBlocks                    \* bound
  /\ chain' = [chain EXCEPT ![x] =
       [on |-> TRUE, block |-> @.block + 1, level |-> "latest",
        inTime |-> {i \in Intents : intent[i].status # "NONE"} \ expired]]
  /\ UNCHANGED <<mode, store, expired, run>>

Confirm(x) ==
  /\ chain[x].on /\ chain[x].level # "finalized"
  /\ chain' = [chain EXCEPT ![x].level = IF @ = "latest" THEN "safe" ELSE "finalized"]
  /\ UNCHANGED <<mode, store, expired, run>>

\* What is not final may be replaced, SAFE or not.
Reorganise(x) ==
  /\ chain[x].on /\ chain[x].level # "finalized"
  /\ chain' = [chain EXCEPT ![x] = [@ EXCEPT !.on = FALSE, !.level = "latest", !.inTime = {}]]
  /\ UNCHANGED <<mode, store, expired, run>>

-----------------------------------------------------------------------------
Handler(s) ==
  \/ \E t \in Tokens, w \in Wallets : BeginQuote(s, t, w)
  \/ \E i \in Intents, a \in Amounts : CommitQuote(s, i, a)
  \/ \E i \in Intents, x \in Txs : BeginVerify(s, i, x)
  \/ SeePending(s)
  \/ SeeSafe(s)
  \/ CommitPayment(s)
  \/ \E t \in Tokens : BeginReconcile(s, t)
  \/ CommitFinal(s)
  \/ CommitReorg(s)
  \/ \E t \in Tokens, w \in Wallets, at \in 1..MaxAt :
       BeginPublish(s, t, w, at) \/ BeginUnpublish(s, t, w, at)
  \/ CommitPublish(s)
  \/ CommitUnpublish(s)
  \/ End(s)

Environment ==
  \/ \E t \in Tokens : GrantComplimentary(t) \/ SetSuspended(t, TRUE) \/ SetSuspended(t, FALSE)
  \/ \E m \in Modes : SwitchMode(m)
  \/ \E t \in Tokens, w \in Wallets : Transfer(t, w)
  \/ \E i \in Intents : Expire(i) \/ ReleaseHold(i)
  \/ \E a \in Amounts : ReleaseAmount(a)
  \/ \E x \in Txs : Mine(x) \/ Confirm(x) \/ Reorganise(x)

Next == (\E s \in Slots : Handler(s)) \/ Environment

Spec == Init /\ [][Next]_vars
-----------------------------------------------------------------------------
(* Safety.                                                                 *)

\* "One chain payment log can activate at most one project": an active paid
\* entitlement has its own payment, claimed for its own request, of the exact
\* amount of that request, which is used up.
PaidByItsPayment ==
  \A t \in Tokens : ent[t].kind = "paid" =>
    LET e == ent[t] IN
    /\ TokenFor[e.req] = t
    /\ paylog[e.tx] = e.req
    /\ act[e.tx] = t
    /\ Pays[e.tx] = intent[e.req].amount
    /\ e.status \in PaidStates => intent[e.req].status = "CONSUMED"

\* A payment a request has claimed stays claimed by it.
ClaimStays == [][\A x \in Txs : paylog[x] # None => paylog'[x] = paylog[x]]_paylog

\* A final entitlement rests on a block that is final.
FinalIsFinal ==
  \A t \in Tokens : LET e == ent[t] IN
    e.kind = "paid" /\ e.status = "FINALIZED" =>
      chain[e.tx].on /\ chain[e.tx].block = e.block /\ chain[e.tx].level = "finalized"

\* "A token can be activated at most once": what has activated a project
\* stays, but for a payment the chain takes back while it is not final.
ActivatedOnce ==
  [][\A t \in Tokens : ent'[t] # ent[t] =>
       \/ ent[t].status = "NONE"
       \/ ent[t].kind = "paid" /\ ent[t].status = "ACTIVE"
          /\ ent'[t] \in {[ent[t] EXCEPT !.status = "FINALIZED"],
                          [ent[t] EXCEPT !.status = "INVALIDATED_BY_REORG"]}
       \/ ent[t].status = "INVALIDATED_BY_REORG" /\ ent'[t].status \in PaidStates]_ent

\* An invalidated payment can be verified again: its request is reopened.
ReorgReopens ==
  \A t \in Tokens : ent[t].status = "INVALIDATED_BY_REORG" =>
    intent[ent[t].req].status = "REORGED"

\* One amount to pay at a time: a project has at most one open quote whose
\* lock has not passed.
OneOpenQuote ==
  \A i, j \in Intents \ expired :
    intent[i].status = "OPEN" /\ intent[j].status = "OPEN" /\ TokenFor[i] = TokenFor[j] => i = j

\* Write-time authority: the signer of a change to the published site is the
\* Passport's operator at that very moment, the change is newer than the one
\* it replaces, and a publication finds the project activated (or activates
\* it) and not suspended.
WriteTimeAuthority ==
  [][\A t \in Tokens : cur'[t] # cur[t] =>
       /\ cur'[t].signer = passport[t]
       /\ cur[t].at < cur'[t].at
       /\ cur'[t].state = "PUBLISHED" => ent'[t].status \in PaidStates /\ ~suspended[t]]_cur

-----------------------------------------------------------------------------
(* What the documents say and the code does not do.                        *)

\* metrics: an activation counts unless its payment is the one the project's
\* entitlement was invalidated for.
Counted(x) ==
  /\ act[x] # None
  /\ LET e == ent[act[x]] IN ~(e.status = "INVALIDATED_BY_REORG" /\ e.tx = x)

\* "reorg-invalidated activations are excluded": a project is counted once.
CountedOnce ==
  \A x, y \in Txs : Counted(x) /\ Counted(y) /\ act[x] = act[y] => x = y
=============================================================================
