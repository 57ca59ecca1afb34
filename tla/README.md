# A formal model of SyncNet

SyncNet is a static site and a set of Netlify functions around one key-value
store and a handful of blockchains. Its pages help a wallet launch a token; its
functions keep the records that the pages, and other people, rely on: who
operates a project, what was sold and paid, whose page is published, what was
attested. This directory holds TLA+ models of those functions, the TLC
configurations that check them on small instances, and TLAPS proofs of the
properties that matter most.

Paths below are relative to the repository's root.

## 1. The system

| Component | Source | State it keeps | Modelled in |
|---|---|---|---|
| Marketplace service | `netlify/functions/marketplace.js`, `lib/syncnet-market.js` | Passports, listings, offers, deals, payment hashes, nonces | `MarketRecords`, `Marketplace`, `MarketplaceAsync`, `MarketplaceSerial` |
| Live project classification | `netlify/lib/live-project.js`, `lib/syncnet-origins.js` | none (reads the chain) | its answers only |
| Key-value store | `netlify/lib/store.js` | everything | as the steps of the services: get, set, sadd, sorted sets, counters, compare-and-set |
| Project Home | `netlify/functions/project-home.js`, `netlify/lib/project-home-*.js` | requests, amounts, payment claims, entitlements, published pointers, suspensions, signers | `ProjectHome` |
| Payment editor | `home-editor.js` | the quote and the payment the browser remembers | `HomeEditor` |
| SYNC Proof receipts (EARLY) | `netlify/functions/early.js`, `early-snapshot.js`, `netlify/lib/early-match.js` | intents, receipts, claimed transfers, the finality queue | `Receipts` |
| SYNC Proof creators | `early.js` (creator-*), `early-youtube-auth.js`, `early-x-auth.js` | manifests, the pending change of wallet, links | `CreatorIdentity` |
| SYNC Proof anchoring | `early-anchor.js`, `netlify/lib/early-attest.js`, `early-tx.js`, `early-ots.js`, `lib/syncnet-early.js` | attestations, daily queues, bundles, anchor attempts, run lock | `Anchoring`, `Bundle`, `Ots` |
| Launch records and builder | `launch-records.js`, `builder-v2.js`, `launches-v2.js`, `launch-engine-v2.js` | the browser's list of launches, a cross-tab lock | `Launches`, `Preflight` |
| Launch verdicts | `lib/syncnet-provenance.js`, `lib/syncnet-chain.js` | none | `Evidence` |
| Curve, ABI, typed data, texts | `lib/syncnet-core.js` | none | `Curve`, `Abi`, `TypedData`, `TextPolicy` |
| Pons discovery index | `netlify/lib/pons-index.js`, `pons-indexer.js`, `pons-backfill.js` | cursor, journal, indexed launches | `PonsIndex` |
| Solana and pump.fun index | `netlify/lib/solana-launch-index.js`, `pump-indexer.js`, `pump-backfill.js` | checkpoint, backfill progress, indexed launches | `SolanaIndex` |
| Economies | `netlify/functions/economies.js`, `lib/syncnet-economy.js` | signed definitions and events | `Economies` |
| Rate limits, sessions, uploads | `netlify/lib/ratelimit.js`, `upload-session.js`, `canary-auth.js`, `upload-auth.js`, `ipfs-upload.js` | window counters, lockouts, challenges, sessions | `Access` |
| Image sanitising | `netlify/lib/image-sanitize.js` | none | `Lzw`, `GifImage`, `PngChunks`, `PngPixels`; not JPEG, WebP, zlib |
| Token list and feeds | `par-tokenlist.js`, `par-launches-all.js` | a cache and a shared refresh | `LaunchFeed` |
| Launch guard, registry | `launch-guard.js`, `registry.js` | one append-only submission list | no: no protocol |
| IPFS and site checks | `ipfs-check.js`, `site-*.js` | none | no: outbound reads with limits |
| Revenue sink contracts | `contracts/project-home-sink/src` | balances | no: Solidity with tests of its own; the services treat the sink as an address |
| Other browser pages | `*-v2.js`, `labs-*.js`, ... | form state | no: the services apply every rule again |

How they interact: the pages sign messages with the user's wallet and post them
to the functions. A function verifies the signature, reads records from the
store and, where it needs evidence, from a chain RPC, and writes records back.
Functions never call each other; they meet in the store. The Passport that the
Marketplace keeps is read by Project Home (who may publish), Economies and the
receipts. Scheduled functions (anchoring, snapshots, indexers) work on what the
others have queued.

What is hard about it:

- **Interleaving.** Any number of invocations run at once. The Marketplace
  touches the store one operation at a time, with no lock and no
  compare-and-set; Project Home and the receipts read freely and commit with one
  compare-and-set over the keys they name.
- **Partial failure.** An invocation may stop between any two operations: a
  store timeout, a chain error, the platform's limit. Nothing is retried by the
  service, and a request's nonce is spent by then.
- **The chain.** Payments are seen before they are safe and safe before they are
  final; a block may be replaced, and the transaction mined again or not at all.
- **Long protocols.** A sale takes eight signed messages from two parties, with
  evidence that anybody may submit in between; a project may be sold back.

For each component, what makes it correct:

- *Marketplace*: a Passport's operator is explained by its history of signed
  transfers; a deal exists for an accepted offer, is completed only when every
  item is done and both parties signed, and is never undone; a payment settles
  one deal.
- *Project Home*: a payment activates one project, once; a reorganised payment
  can be verified again; there is one amount to pay at a time; what is published
  has its authority when it is stored. In the browser, in one tab, no second transfer
  is asked for while one is alive.
- *Receipts*: intent, receipt and claim agree; a final receipt is of a final
  block; the transfer was made inside the window the fan had signed before.
- *Creators*: the receiving wallet changes only after its cooldown and never
  inside an intent's window, and a due change takes effect.
- *Anchoring*: a bundle is complete, stays as it is, is anchored by one
  transaction for each recorded attempt, and is anchored in the end.
- *Launches*: what was broadcast is never forgotten, one launch runs at a time
  per browser, and what goes out is what was reviewed.
- *Indexes*: the index of the canonical chain's blocks up to the cursor, whatever
  the reorganisations and the interrupted runs.
- *Economies*, *access*, *feeds*: the fold of the signed events; limits that hold
  for concurrent attempts, and challenges used once; answers that are recent.
- *Libraries*: what is written is read back, what is shown is what is signed, and
  hostile input is refused within bounds.

## 2. The modules

| Module | Models |
|---|---|
| `MarketRecords` | the Marketplace's records and what a handler makes of one |
| `Marketplace` | the service as its protocol intends it: one request, one step |
| `MarketplaceAsync` | the service as it runs: invocations, operations, crashes |
| `MarketplaceSerial` | the refinement from the second to the first |
| `ProjectHome` | Project Home with its store, SyncNet's commands and the chain |
| `HomeEditor` | the payment in the browser: tabs, loops, the remembered transfer |
| `Receipts` | intents, receipts, claims and their reconciliation with the chain |
| `CreatorIdentity` | manifests and the change of a creator's wallet |
| `Anchoring` | the daily job, its lock and its write-ahead transaction |
| `Bundle`, `Ots` | Merkle trees and proofs; timestamp trees and their upgrade |
| `PonsIndex`, `SolanaIndex` | the two launch indexes with their chains and backfills |
| `Access`, `Economies`, `LaunchFeed` | limits and sessions; curation; cached lists |
| `Launches`, `Preflight`, `Evidence` | the builder's records and lock; the checks before a launch; the verdict after it |
| `Lzw`, `GifImage`, `PngChunks`, `PngPixels` | the image formats |
| `Curve`, `Abi`, `TypedData`, `TextPolicy` | the pages' core library |
| `MarketRecordsProofs`, `MarketplaceProofs`, `MarketplaceAsyncProofs`, `ProjectHomeProofs`, `ReceiptsProofs`, `CreatorIdentityProofs`, `AnchoringProofs`, `PonsIndexProofs` | the proofs |
| `MC...` | instances for TLC; `MCServices`, `MCFormats` and `MCLibraries` hold several components that do not interact, one `part` each |

### Marketplace

A listing's or an offer's id is the digest of what its owner signed, so ids fix
the signed fields, and those are constant functions of the id (`TokenOf`,
`SellerOf`, `ListingOf`, `BuyerOf`, `FeeIncluded`, ...). A deal is named by its
offer: `dealId` hashes the two. The variables `passport`, `listing`, `offer`,
`deal` and `payTx` are the stored records of the keys `K.passport`, `K.listing`,
`K.offer`, `K.deal` and `K.payTx`; `expired` and `lapsed` say which signed
expiries have passed.

Each POST action of `write()` is an action of `Marketplace`: `Claim`, `List`,
`CancelListing`, `MakeOffer`, `Reject`, `Accept`, `TransferIntent`,
`TransferAccept`, `FeeRightEvidence`, `PaymentEvidence`, `ConfirmPayment`,
`ConfirmAsset`, `ConfirmComplete`, `CancelDeal`. A refused request changes nothing
and is no step. In `CancelDeal` the deal's record is left alone, because the
handler sets the status of its own copy and never writes it.

`MarketplaceAsync` is the same service operation by operation. A handler is its
`Plan` (the gets, sets and sadds it awaits, in order), `May` (the conditions, each
at the read that decides it), `Adds` (operations a read leads to: the rows of the
index, the offers to supersede, the closing of listing and Passport) and `New`
(what it writes, computed from the records it *read*). `run` holds each running
invocation's remaining operations and memory. `Read`, `Write`, `AddToSet` execute
the next operation; `Crash` drops the rest. The nonce is the get and the set of
`consumeNonce`.

`MarketplaceSerial` adds an auxiliary variable `calm`, the store between
invocations, and states that with one slot the handlers implement `Marketplace`
(`ImplementsMarketplace == Atomic!Spec`).

Abstractions. Amounts, canonical JSON and EIP-712 digests are the identity of the
signed fields; `Pays` says which deals a transaction is a sufficient payment for
(sender, recipient, amount and time). What the factory says of a project is any
value of `FeeRights` at each read. Nonces are fresh in the atomic model, and their
90-day lifetime is not modelled. `loadListings` reads the rows in a fixed order.
In `MarketplaceAsync` signed expiries do not pass, a deal's TransferIntent is sent
once, and a completion signed over a state that is no longer the deal's (409
`stale_state`) ends like an incomplete one. GET views change nothing and are left
out. History entries that name no operator, and display fields, are leaf data.

### Project Home

The variables are the keys of `K`: `ent`, `intent`, `open`, `amount`, `paylog`,
`act`, `cur`, plus `suspended` (`project-home-suspension.js`), the Marketplace's
`passport`, and the chain. Each handler is a `Begin...` step (its reads and
refusals) and a `Commit...` step (its compare-and-set), with the chain read of
verification in between (`SeePending`, `SeeSafe`). An invocation carries `fresh`,
the keys unchanged since it read them: a write removes its keys from every other
invocation's `fresh`, and a commit requires the keys it *expects* to be fresh.
That is what comparing raw values amounts to, since every record carries
timestamps or ids that make a rewritten value different. A key that is read and
not expected may be stale at the commit: the suspension and the observed
payments in `createIntent` are such reads.

The chain is a record per transaction: whether it is mined, in which of its
blocks, how far that height is confirmed, and which requests were open at the
block's time. `Mine`, `Confirm` and `Reorganise` move it; only what is final
stays. `reconcile` compares block hashes, so a transaction in another block than
the recorded one is a reorganisation.

SyncNet's operators act with `GrantComplimentary` and `SetSuspended`, the
deployment's configuration with `SwitchMode` (in a closed deployment no handler
begins, which `End` and the absence of steps cover), the Marketplace with
`Transfer`, and time with `Expire`, `ReleaseAmount` and `ReleaseHold` (the lock,
the longer reservation of the exact amount, and the six hours an observed payment
holds back a new request).

Abstractions. A payment is a transaction with one transfer to the sink, of the
amount `Pays`. The reads of one verification see one view of the chain (they take
seconds; finality takes minutes), and a transaction that is mined again in a block
of the same height has another hash. Prices, rates, the deployment check, page
content, nonces of quotes and the recording of a newer Terms version on an open
request are not modelled.

### SYNC Proof

`Receipts` takes the intents of one tuple (sender, receiver, token, amount); those
of other tuples share no key, window or match. Its variables are the keys of
`early.js`' `K` (`intent`, `open`, `tupleLast`, `txlog`, `receipt`, `pending`), the
chain (`mined`, `branch`: which reorganisation made a block, so its hash) and
`run`, what an invocation has read and will commit. A commit expects the raw
records that were read, so an invocation whose record was written meanwhile has
nothing more to do and is `Idle`. `Verify` decides between the outcomes of
`early-match.js`; `Reconcile` and the hourly job (`JobReads`, `JobCommits`,
`JobRemoves`) settle receipts. The number of a block is its timestamp.

`CreatorIdentity` is one creator: `creator`, `manifest`, the last sign-in `link`
and one intent of a fan, whose window a change of wallet must not cut.
`creator-manifest` is three steps (`RotateReads`, `Reload`, `RotateCommits`),
because it decides from one reading and expects a later one.

`Anchoring` is the schedule: requests read the date of the open bundle and queue a
leaf later (`Issue...`); a run builds the bundles of past days, records an attempt,
sends it, marks what became of it and takes the OpenTimestamps proof further. `held`
has the dates that requests at work have read; it survives midnight, so a request
may queue for a day that is over. That such a request is done before a run builds
the bundle of its day is an assumption of time, not of order: runs start 20 and 50
minutes past the hour (`netlify.toml`, `phase > 0` in `Start`), and no request takes
twenty minutes. A run may outlive its lock by a unit of time, so two work at once.
The network may forget a transaction, and a reorganisation may take it out of its
block (`Reorg`); `anchorOnChain` takes the first receipt for the answer and does not
ask again. What a proof is, and how trees are united and upgraded, is in `Bundle` and
`Ots`, where a hash is the term it is taken of.

### Launches and indexes

`Launches` has two builder tabs and MY LAUNCHES over one localStorage value, read
and written in synchronous steps, the lock (`WebLocks` says which of the two
implementations the browser has), the wallet's window and the chain. A launch whose
transaction reverted may be sent again with the same id: the new attempt is written
over the old record, which keeps the old hash until the wallet answers
(builder-v2.js:629, launch-records.js:50); `MaxAttempts` bounds that. `Preflight`
is the reads before a launch and right before sending, each of which an older block
may answer, against an owner who changes PAR's parameters; `Evidence` the reads and
the verdict after it.

`PonsIndex` and `SolanaIndex` are an indexer's run and an operator's backfill, one
call to chain or store a step, with crashes between any two. Pons' chain
reorganises (`Shallow` within the confirmations, `Deep` beyond). What is assumed of
the chain is in `Deep`: `Quiet` says that a deep reorganisation finds nothing running
and nothing half written. It is an assumption the code needs: a run compares the
cursor's hash once, when it begins (pons-index.js:204), and a deep reorganisation
between that and the first header it reads moves the cursor to a block of the new
chain with a gap behind it. Under `Quiet` the check of the header before the logs of a
window (:221) never finds them torn. A deep reorganisation's depth is at most the rewind (from the cursor) and
at most the journal (`Reach`, from the highest confirmed head). The second bound does
not follow from the first: the backfill reads the cursor, writes its launches and
then moves the cursor to the block it began with (pons-backfill.js:139-141), which
may by then lie far behind the block a run has trimmed the journal from; a
reorganisation in between would leave launches that no undo finds. With the code's
constants (a journal of 20000 blocks, a rewind of 2000) that takes a backfill that
the chain outruns by 18000 blocks. Solana's finalized transactions only append.
The backfill of `SolanaIndex` may be started in every way the script accepts
(`Modes`); the run leaves out `--restart` together with `--catch-up`, see below.

### Access, economies, feeds, the editor

`Access` runs the unlock, the sign-in and the upload from one await to the next over
durable counters. `Economies` keeps signed events and folds them for whoever is
curator at the time. `LaunchFeed` is the shared refresh with its cache, back-off and
budget, and the workers that walk a list which grows at its head. `HomeEditor` is
`home-editor.js` with the answers `ProjectHome` gives it. It has several tabs, a
wallet that may answer with an error after it has sent (`Ambiguous`), and recoveries at
any time; the run has one tab, a wallet whose errors mean "not sent", and a recovery
only while no answer about a payment is on its way, because the code keeps its promise
only then.

### Libraries

The formats and the core library are models of what they do to data, with the
data small: terms for hashes, a curve of 31 points, ABI words of two bytes, rows of
one or two pixels. Their variables are inputs, chosen in the initial states or one
piece at a time, and what the code makes of them. They use RECURSIVE operators where
the code recurses, and are checked by TLC only.

## 3. What is checked

TLC runs. Every constant set is as small as it can be while the case the run is
about still happens; each bound is named in the module that has it.

| Run | Instance | Checks |
|---|---|---|
| `market` | 2 wallets, 1 token, two listings, sold and sold back (`Moves = {1, 2}`: the lengths of a history that a transfer may extend), two offers on the first listing, one payment that fits the deals of both, creator-fee right, a manual asset, expiry | `HistoryExplainsOperator`, `CompletedIsSettled`, `DealIffAccepted`, `PaymentSingleUse`, `SettledStays` |
| `market_race` | a sale with payment, completion and a second claim, 2 slots, 1 crash | `HistoryIsSound`, `DealIsSound`, `TransferIsSigned` |
| `market_serial` | every handler, 2 offers, 1 slot, 1 crash | `WritesAreOrdered`, `ImplementsMarketplace` |
| `home` | 1 project, 2 requests that may draw one amount, 1 payment, 2 slots; a case with payments and reorganisations, a case with two operators and suspension | `PaidByItsPayment`, `OneOpenQuote`, `ClaimStays`, `WriteTimeAuthority` |
| `receipts` | 2 intents of one tuple, 2 transfers, 2 slots and the job, 4 blocks, 1 reorganisation | `ReceiptsAgree`, `FinalIsCanonical`, `InvalidatedIsGone`, `ReceiptFitsIntent`, `ClaimIsKept` |
| `identity` | 3 manifests, 2 slots, a cooldown of 3, 6 days | `OneStory`, `ChangeIsTimely`, `DueTakesEffect` |
| `anchoring` | 2 attestations, 2 days, 2 runs, 1 fault, 1 transaction forgotten or taken out of its block, requests that write after midnight | `NoStraggler`, `RecordIsTrue`, `NothingIsLost`, `EventuallyAnchored` |
| `pons` | 5 blocks, 1 token, 2 reorganisations, one of them deep and between runs (`Quiet = TRUE`), 1 crash; the journal is shorter than the chain and is trimmed | `IndexIsExact`, `CatchesUp` |
| `services` | `Access` and `Economies` with two requests, `LaunchFeed` with two requests or two workers, `HomeEditor` with one tab and its loops, `SolanaIndex` with the indexer and the backfill, `Launches` with two tabs, Web Locks and a second attempt | `AccessIsBounded`, `EconomyIsSound`, `FeedIsRecent`, `NoSecondTransfer`, `SolanaIsExact`, `LaunchIsKept`, `OnlyForward` |
| `libraries` | the formats and the core library over small inputs, `Preflight`, `Evidence` | `ImagesAreKept`, `ProofsAreKept`, `EncodingsAreExact`, `ShownIsMeant`, `LaunchIsAsReviewed` |
| `market_kept` | a sale and a second claim by the seller, 2 slots, no crash | refutes `TransferIsKept` |
| `ots_upgrade` | two calendars that promise the digest itself | refutes `NothingLost` |

What the passing runs show: handled one at a time, the Marketplace keeps its
promises, and its handlers, with their order of reads and writes, implement those
atomic steps; when they overlap or stop, every stored record is still sound *by
itself*, and the records are written in an order that leaves no Passport without its
deal and no deal with an unclaimed payment. Project Home, the receipts, the creators
and the anchoring keep theirs under interleaving, reorganisation and interruption;
the indexes, limits, feeds and the builder likewise.

Why the bounds are enough: two slots are two overlapping invocations, and every
pair of handlers overlaps at every pair of operations; a third would need a property
over three records that one invocation each writes, and there is none. One crash
leaves each possible prefix of a handler's writes. Two transfers of one token are the
resale in which an older deal is still around, open or cancelled, and its seller no
longer operates the token. Two blocks are a
payment, its reorganisation and its inclusion again. Durations keep their order, not
their lengths: the properties compare times. What a small instance cannot show for
more projects, requests and invocations, the theorems of section 4 do.

`CHECK_DEADLOCK FALSE` stands where requests are sent once each or a clock, a chain
or a list has a bound: the system stops when they are spent.

Fairness. Nothing schedules the handlers of the Marketplace and of Project Home (a
request is sent or not), so nothing has to happen there and no liveness is claimed.

- `Anchoring`: the hourly schedule starts runs again and again, each step of a run
  that has not crashed happens, time passes and the network mines what it has not
  forgotten. Crashes, refusals and reorganisations are bounded and not fair. This gives
  `EventuallyAnchored`: recorded as confirmed in the end, which a reorganisation after
  the confirmation does not change.
- `CreatorIdentity`: requests that touch a creator keep coming, and each one
  completes a change that is due (`maybeCompleteRotation`): weak fairness of
  `Complete` alone, for `DueTakesEffect`.
- `PonsIndex`: the schedule starts runs, a run's calls are answered, not every run is
  out of time before its first window (strong fairness of `Header`), the operator
  repeats the backfill until a cursor exists, and the chain goes on. This gives
  `CatchesUp`.

### Where the code and the documents disagree

Two runs are kept that TLC refutes:

- `market_kept`: `list` registers a listing before it writes back the whole Passport it
  read when it began (marketplace.js:334-339). In TLC's trace the sale of that listing
  goes through while this last write is still to come; it then restores the seller and
  drops the transfer, against MARKETPLACE_SECURITY.md:84. `claim` does the same
  (:263, :294): a refresh by the seller in flight during the transfer.
- `ots_upgrade`: `upgrade` removes an attestation by an index taken before earlier ones
  were removed, and can remove the Bitcoin attestation it has just fetched, against
  its own comment (early-ots.js:6).

The modules state other sentences of the documents that the code does not keep. They
are definitions that no run lists; given to TLC on the instances above, with the
constants the table changes, each is refuted:

| Definition | Sentence | What the code does |
|---|---|---|
| `CancelledDealIsClosed` (`Marketplace`) | MARKETPLACE_SECURITY.md:113 | `deal-cancel` never stores the cancelled deal: it stays OPEN |
| `SignedTogether` (`Marketplace`; one listing with the creator-fee right, one offer, `Txs = {x1, x2}`, `Moves = {1}`) | MARKETPLACE_SECURITY.md:59, :125 | the two completions may cover different states: evidence of the creator-fee right is accepted between them, and the second one does not look at what the first one signed |
| `OneActiveListing` (`Marketplace`) | MARKETPLACE_SECURITY.md:104 | cancelling reopens a listing beside a newer active one |
| `CompletedHasMoved` (`MarketplaceAsync`) | MARKETPLACE_SECURITY.md:125 | a transfer cut short between its two writes can still be completed |
| `PaymentIsSingleUse` (`MarketplaceAsync`, with two deals of the same parties) | MARKETPLACE_SECURITY.md:122 | two pieces of payment evidence in flight use one payment twice |
| `CountedOnce` (`ProjectHome`) | docs/PROJECT_HOME.md:390 | a reorganised payment counts again once another has replaced it |
| `LockStays` (`CreatorIdentity`, with four manifests, `Cooldown = 2`, `Window = 1`) | early.js:916, docs/sync-proof-early-spec.md:658 | a change decided before another one was started and cancelled by the wallet is written with the expectation of the second reading; it takes the lock of that cancellation back and needs no second sign-in |
| `PauseStays` (`CreatorIdentity`) | none | a pause between the two readings of `creator-manifest` is lost |
| `ConfirmedIsMined` (`Anchoring`) | docs/early/CANARY_CHECKLIST.md:29 | an anchor is confirmed with the first receipt, neither safe nor final, and never looked at again; a reorganisation leaves a confirmed bundle without an anchor |
| `IndexIsExact`, `NothingMissed` (`PonsIndex`, with `Quiet = FALSE`) | docs/PONS_DISCOVERY.md:45 | a deep reorganisation during a run moves the cursor over a gap (:204, :218), and one during a backfill leaves what it wrote |
| `NothingSkipped` (`SolanaIndex`, with `Modes` all of them, "recatch" included) | docs/SOLANA_DISCOVERY.md:96 | `--restart --catch-up` walks back to a checkpoint that the discarded walk had seeded above what it had not walked (pump-backfill.js:71, :85), and the history is then called complete |
| `OneTransferPerQuote` (`HomeEditor`, with two tabs) | docs/PROJECT_HOME.md:496 | one tab forgets the payment while the other still shows the quote |
| `NoSecondTransfer` (`HomeEditor`, with two tabs, with `Ambiguous = TRUE`, or with `Recovers` at any time) | home-editor.js:395 | any error of the wallet forgets the payment, also one after the broadcast (:407); the answer to a loop that a recovery replaced forgets the payment made since (:435) |
| `OneLaunch` (`Launches`, with `WebLocks = FALSE`) | RECOVERY_GUIDE.md:83 | the localStorage fallback of the lock lets two tabs pass |
| `OneLaunchEver` (`Launches`, with Web Locks and `MaxAttempts = 2`) | RECOVERY_GUIDE.md:83 | a launch that reverted is sent again under its old record, whose hash is the reverted one: a verification marks the new attempt as failed, and nothing holds the next launch back |

## 4. What is proved

The theorems hold for all values of the constants that satisfy the assumptions each
module names: the constant functions have their types, bounds and durations are
natural numbers, `None` is no id, and, where the code's constants say so, durations
keep their order (`Freeze < Window < Cooldown`, `Slack < Window`). `AsyncConstants`
types the requests by their kind, as the handlers' validation does. The sets may be
infinite. Each module of proofs states one inductive invariant `Inv`, proves it of
`Init` and of every action in a lemma of its own, and reads the properties off.
TLC checked each invariant on the instances above first.

**Marketplace, atomic** (`MarketRecordsProofs`, `MarketplaceProofs`). `MarketRecordsProofs` has the lemmas about records that both
views of the service need: each helper that builds a record keeps its type, and a
claim and a transfer keep `Explained`.

- `TypeCorrect`: `TypeOK` is inductive.
- `HistoryTheorem`: every step changes a Passport in one of the ways listed by
  `PassportStep` (a first claim, a transfer by an open deal of the operator, its
  `listing` field), and each of them keeps `Explained`.
- `DealTheorem`, `SettledTheorem`, `OfferTheorem`, `PaymentTheorem`,
  `RecordedTheorem`, `CompletionTheorem`: likewise from `DealStep`, the list of
  what a step may do to a deal. `DealIffAccepted` is not inductive alone: accepting
  an offer writes a fresh deal, which must not overwrite one, so the invariant adds
  `AbsentIsBlank`, that a deal not yet made is blank.

**Marketplace, operation by operation** (`MarketplaceAsyncProofs`): `HistoryIsSound`,
`DealIsSound` and `TransferIsSigned`, for any requests, any number of invocations at a
time and any crashes. Of completions `DealIsSound` says that each signature was given
over a state with nothing pending, not that both were given over one state. Nothing protects a record between a handler's read and its
write, so the invariant speaks of values instead: whatever is stored, *or was read and
may be written back changed*, is sound by itself (`Sound`). The only part of the store
a sound value speaks of is the spent nonces, and those are never given back
(`Forward`), so a value that was sound when it was read is sound when it is written.
What a write adds rests on the handler's own reads and on its nonce. `Ordered` says
so of what is left to do: before each write comes the read it needs and the spending
of the nonce, unless the invocation has done them (`DoneBy`); `Checked` says what the
handler has found in what it read. `PlanFacts` and `AddsFit` prove that of every
handler's plan, `WriteSound` that a write so prepared is sound, and one step of an
invocation leaves the others what they know (`OthersKnow`).

**Marketplace, one invocation at a time** (`MarketplaceAsyncProofs`, second part):
`WritesAreOrdered` and the refinement `ImplementsMarketplace`, for any requests and any
number of crashes, under `OneAtATime`. That says `Slots` has at most one element, as in
the run `market_serial`; handlers that overlap can undo each other's writes, which is
what the run `market_kept` shows. The argument is one of progress. `Base(c)` says that `c` is the
store as the running invocation found it, and `Stage` where the invocation is:

- it still reads (`Reading`, `Spending`): the store is `c`, what it holds is what `c`
  has, what it has read it was granted, and every record it must still read is ahead;
- it writes (`Writing`): nothing that is left can refuse it, and the store is `c` with
  all its writes made except those that the operations it has left will make
  (`StoreAt`, `Left`). An operation may lead to writes that are not in the plan yet
  (`Leads`): an acceptance finds the offers it supersedes when it reads the list, a
  transfer intent the listing it marks when it reads that.

`StageRead`, `StageWrite`, `StageAdd` and `StageLed` prove that one operation moves an invocation from
stage to stage, or to its end: refused, or with every write made (`Ended`). For
`WritesAreOrdered` the set of the keys already written is closed under `Precedes`
(`InOrder`), so any prefix of the writes, which is what a crash leaves, keeps the
records in step (`InStep`); a crashed invocation's store is the next one's base. For the
refinement `calm` is the base until the first crash, and the lemmas `...Is` and `...Acts`
match each way to end with the action of `Marketplace` that makes the same changes,
guards included; a refusal, and the nonce alone, are stutters. What an acceptance and a
new listing read through the lists `Index` and `OffersOn` is everything there is
because of `Registered`: the lists name every record that exists. That is true at the
end of an invocation and not in the middle of one, nor after a crash, which is why the
refinement stops at the first crash.

**Project Home** (`ProjectHomeProofs`). All of the module's properties, for any
number of projects, requests, payments and concurrent invocations. `Inv` has five
parts:

- `TypeOK`;
- `RunsKnow`: of each key still in its `fresh`, an invocation knows that the store
  has what its guards found (`Knows`). This is the argument by which a
  compare-and-set makes an old check good: without it nothing connects the checks
  of a `Begin` step with the store that the `Commit` step finds;
- `EntitlementRests`: the request, the claim and the registry entry an entitlement
  rests on, which gives `PaidByItsPayment` and `ReorgReopens`. That no other project
  rests on a payment that may be claimed follows from it (`OthersRestElsewhere`);
- `FinalIsFinal`;
- `OpenNamesQuote`: the open key names the open request, which gives
  `OneOpenQuote`.

`Respects(ks)` says what a step must leave alone outside the keys `ks` it writes;
`KnowsOn` proves once that knowledge outlives every such step, so each action's
proof of `RunsKnow` is a proof of `Respects`. The action properties
`ClaimStays`, `ActivatedOnce` and `WriteTimeAuthority` follow from `Inv` for the
steps that write those records (`Writers`).

**Receipts** (`ReceiptsProofs`): all five properties of the run. `Inv` adds to the
types what every receipt rests on (`Rests`: the block it names, final or still to be
compared by hash, and the signed window of its intent) and what an invocation may
rely on when it commits. A commit's record is as it was read, or the invocation is
gone; what it saw of the chain may be stale, but a block that was seen final stays,
and one that was replaced has another hash for good.

**Creators** (`CreatorIdentityProofs`): `OneStory` and `ChangeIsTimely`, which speaks of
the lock in the reading a change was decided on (`LockOfReading`); that no later lock is
lost is not proved, because it is false (`LockStays`). The hard case
is the invocation that decides from one reading and expects a later one, when a
change has completed in between. The invariant says that the current manifest is
then still the one it decided from: both readings are of the same unit of time, the
change it saw was not due, and a new one is due only after its cooldown.

**Anchoring** (`AnchoringProofs`): `NoStraggler`, `RecordIsTrue` and `NothingIsLost`,
with no use of the run lock, which the code may release for another run, and with
reorganisations. What a run has read is expected by its compare-and-set, or does not
change: the queue of a day for which no request can still write (`OverDay`; this is where
the assumption about the start of runs enters), and what was once in a block. That a
confirmed anchor is still in the chain is not proved, because it is false
(`ConfirmedIsMined`). `OneSender` says that among the
runs that hold the latest record of a bundle one may send it. That the pending nonce exists
needs the smallest number outside a finite set, by well-founded induction on the
naturals (`MinIsLeast`).

**Pons index** (`PonsIndexProofs`): `IndexIsExact`, for any chain, launches, bounds and
crashes, under `Quiet`. Blocks up to `Settled` (the highest confirmed head) are left by
every shallow reorganisation, and a deep one finds nothing running, so what a run or
the backfill holds (`Good` hashes, the logs of their blocks) stays true until it is
written. The invariant has two cases. While the cursor's hash is canonical (`Ready`),
the index is exact and the journal is part of it. While it is not, the index is right
up to `Floor`, where the cursor will be put back, and everything else in it that the
chain no longer says is in the journal; `Journaled` is what makes a deep
reorganisation lead there, and that the two sets never give a launch different
blocks is why the undo removes nothing below `Floor`. `RecordedStays` says that a
hash that was replaced never becomes canonical again.

Only model-checked:

- liveness (`EventuallyAnchored`, `DueTakesEffect`, `CatchesUp`) and ENABLED, out of
  this prover's reach;
- the libraries: RECURSIVE operators, and induction over data, which the library's
  theorems state with an operator parameter the installed provers cannot instantiate;
- the services of the run `services`.

## 5. Hazards

`PROJECT.json` lists what is hard to test in this code, at its line, with the
properties that cover it. The one without a property is the finality queue, whose
write may be lost after the receipt is stored: the model has the lost write
(`QueueWrites`), and such a receipt waits until some request reconciles it. A note says
where the properties only bound a hazard and the code does not avoid it; the definition
it names is in the table of section 3.

## 6. Plan

Done: every component with protocol state, and the libraries; the theorems of the
Marketplace in both views with the refinement between them, Project Home, the
receipts, the creators, the anchoring and the Pons index.

Next: `Economies`, `Access` and `LaunchFeed`, whose invariants are small.
