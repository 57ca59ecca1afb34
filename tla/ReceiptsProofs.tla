---------------------------- MODULE ReceiptsProofs ----------------------------
(***************************************************************************)
(* Theorems about Receipts, for every set of intents, transfers and         *)
(* invocations and all the durations.  The invariant says what an           *)
(* invocation that has read may rely on when it commits: the intent or the   *)
(* receipt it holds is as it read it, and what it saw of the chain is        *)
(* either final or can be told to be stale by the block's hash.             *)
(***************************************************************************)
EXTENDS Receipts, FiniteSetTheorems, TLAPS

IntentStatuses  == Stored \cup {"NONE", "DRAFT", "CLOSED", "CONSUMED"}
ReceiptStatuses == {"NONE", "CONFIRMED", "FINALIZED", "INVALIDATED_BY_REORG"}
Modes           == {"auto", "ambiguous-finalized", "recovery-finalized"}

Intent == [status: IntentStatuses, nb: Nat, exp: Nat, made: Nat, created: Nat,
           receipt: Txs \cup {None}]
Receipt == [status: ReceiptStatuses, by: Intents \cup {None}, block: Nat, hash: Nat,
            mode: Modes \cup {"none"}]
Sighting == [tx: Txs, block: Blocks, hash: Nat, finalized: BOOLEAN]
Finding == [do: Stored \cup {"CLOSED"}] \cup [do: {"finalise"}, cand: Sighting, mode: Modes]
StoreCall     == [op: {"store"}, id: Intents, created: Nat]
VerifyCall    == [op: {"verify"}, id: Intents, v: Finding]
ReconcileCall == [op: {"reconcile"}, tx: Txs, to: {"FINALIZED", "INVALIDATED_BY_REORG"}]
RemoveCall    == [op: {"zrem"}, tx: Txs]
Calls         == {Idle} \cup StoreCall \cup VerifyCall \cup ReconcileCall

ChainTyped ==
  /\ clock \in Blocks /\ safe \in Nat /\ final \in Nat /\ reorgs \in Nat
  /\ final <= safe /\ safe <= clock
  /\ mined \in [Txs -> Nat] /\ \A x \in Txs : mined[x] <= clock
  /\ branch \in [Blocks -> Nat] /\ \A b \in Blocks : branch[b] <= reorgs

StoreTyped ==
  /\ intent \in [Intents -> Intent]
  /\ open \in [id: Intents \cup {None}, until: Nat]
  /\ tupleLast \in Nat
  /\ txlog \in [Txs -> Intents \cup {None}]
  /\ receipt \in [Txs -> Receipt]
  /\ pending \subseteq Txs

RunTyped ==
  /\ run \in [Slots -> Calls]
  /\ job \in {Idle} \cup ReconcileCall \cup RemoveCall

Typed == ChainTyped /\ StoreTyped /\ RunTyped

\* Whoever saw x in block b with hash h, and finds the hash unchanged, finds
\* the transfer there.
Seen(x, b, h) == b \in Blocks /\ h <= reorgs /\ (branch[b] = h => mined[x] = b)

\* The block is final, and gone.
Rooted(b, h) == b <= final /\ branch[b] = h
Gone(b, h)   == branch[b] # h

\* A transfer of block b satisfies the intent in the mode it is finalised in.
Fits(m, b, mode) ==
  /\ b > m.created
  /\ WindowState(m, b) = (IF mode = "recovery-finalized" THEN "late" ELSE "in-window")

\* What an invocation relies on.
Knows(r) ==
  /\ r.op = "store" => intent[r.id].status = "DRAFT"
  /\ r.op = "verify" => intent[r.id].status \in Stored
  /\ r.op = "verify" /\ r.v.do = "finalise" =>
       LET c == r.v.cand
       IN /\ Fits(intent[r.id], c.block, r.v.mode)
          /\ Seen(c.tx, c.block, c.hash)
          /\ c.finalized => Rooted(c.block, c.hash)
  /\ r.op = "reconcile" =>
       LET x == receipt[r.tx]
       IN /\ x.status = "CONFIRMED"
          /\ r.to = "FINALIZED" => Rooted(x.block, x.hash)
          /\ r.to = "INVALIDATED_BY_REORG" => Gone(x.block, x.hash)

RunsKnow == Knows(job) /\ \A s \in Slots : Knows(run[s])

\* What a receipt rests on.
Rests(x) ==
  LET r == receipt[x]
  IN r.status # "NONE" =>
       /\ r.by \in Intents
       /\ intent[r.by].status \notin {"NONE", "DRAFT"}
       /\ Fits(intent[r.by], r.block, r.mode)
       /\ Seen(x, r.block, r.hash)
       /\ r.status = "FINALIZED" => Rooted(r.block, r.hash)
       /\ r.status = "INVALIDATED_BY_REORG" => Gone(r.block, r.hash)

ReceiptsRest == \A x \in Txs : Rests(x)

Inv == Typed /\ RunsKnow /\ ReceiptsRest /\ ReceiptsAgree

-----------------------------------------------------------------------------
(* Typing of what a verification finds.                                    *)

LEMMA CandidateTyped ==
  ASSUME ChainTyped, NEW x \in Txs, mined[x] # 0
  PROVE  /\ Candidate(x) \in Sighting
         /\ Seen(x, mined[x], branch[mined[x]])
         /\ Candidate(x).finalized => Rooted(mined[x], branch[mined[x]])
<1>1. mined[x] \in Blocks
  BY ReceiptsConstants DEF ChainTyped, Blocks
<1>2. /\ branch[mined[x]] \in Nat /\ branch[mined[x]] <= reorgs
      /\ mined[x] \in Nat /\ final \in Nat
  BY <1>1 DEF ChainTyped
<1>3. Candidate(x) \in Sighting
  BY <1>1, <1>2 DEF Candidate, Sighting
<1>4. Candidate(x).finalized <=> mined[x] <= final
  BY DEF Candidate
<1> QED  BY <1>1, <1>2, <1>3, <1>4 DEF Seen, Rooted

LEMMA VerdictTyped ==
  ASSUME ChainTyped, NEW m \in Intent, m.status \in Stored, NEW h,
         Verdict(m, h).do # "nothing"
  PROVE  LET v == Verdict(m, h)
         IN /\ v \in Finding
            /\ v.do = "finalise" =>
                 /\ Fits(m, v.cand.block, v.mode)
                 /\ Seen(v.cand.tx, v.cand.block, v.cand.hash)
                 /\ v.cand.finalized => Rooted(v.cand.block, v.cand.hash)
<1> DEFINE in == InWindow(m)
           x == CHOOSE y \in in : TRUE
           v == Verdict(m, h)
           do == [do |-> v.do]
<1>1. CASE Cardinality(in) >= 2
  <2>1. v = [do |-> "AMBIGUOUS"]
    BY <1>1, FS_EmptySet DEF Verdict
  <2> QED  BY <2>1 DEF Finding, Stored
<1>2. CASE ~(Cardinality(in) >= 2) /\ Cardinality(in) = 1
  <2>1. in # {}
    BY <1>2, FS_EmptySet
  <2>2. x \in in
    BY <2>1
  <2>3. x \in Txs /\ Follows(m, x) /\ WindowState(m, mined[x]) = "in-window"
    BY <2>2 DEF InWindow
  <2>4. mined[x] # 0 /\ mined[x] > m.created /\ mined[x] \in Nat /\ safe \in Nat
    BY <2>3 DEF Follows, ChainTyped
  <2>5. CASE mined[x] > safe
    <3>1. v = [do |-> IF m.status = "AMBIGUOUS" THEN "OPEN" ELSE m.status]
      BY <1>2, <2>1, <2>4, <2>5 DEF Verdict
    <3> QED  BY <3>1 DEF Finding, Stored
  <2>6. CASE mined[x] <= safe
    <3>1. v = [do |-> "finalise", cand |-> Candidate(x), mode |-> "auto"]
      BY <1>2, <2>1, <2>4, <2>6 DEF Verdict
    <3>2. v \in Finding
      BY <3>1, <2>3, <2>4, CandidateTyped DEF Finding, Modes
    <3>3. Fits(m, mined[x], "auto")
      BY <2>3, <2>4 DEF Fits
    <3>4. v.cand.tx = x /\ v.cand.block = mined[x] /\ v.cand.hash = branch[mined[x]]
      BY <3>1 DEF Candidate
    <3>5. v.mode = "auto" /\ v.cand = Candidate(x)
      BY <3>1
    <3> QED  BY <3>2, <3>3, <3>4, <3>5, <2>3, <2>4, CandidateTyped
  <2> QED  BY <2>4, <2>5, <2>6
<1>3. CASE ~(Cardinality(in) >= 2) /\ Cardinality(in) # 1
  <2>1. \/ v = [do |-> "nothing"] \/ v = [do |-> "RECOVERY_AVAILABLE"]
        \/ v = [do |-> "CLOSED"] \/ v = [do |-> "EXPIRED"]
    BY <1>3 DEF Verdict
  <2> QED  BY <2>1 DEF Finding, Stored
<1> QED  BY <1>1, <1>2, <1>3

-----------------------------------------------------------------------------
(* The chain goes on under what was seen of it.                            *)

\* What the steps of the chain do to its facts.
ChainMoves ==
  /\ ChainTyped'
  /\ \A x \in Txs, b \in Blocks, h \in Nat :
       /\ Seen(x, b, h) => Seen(x, b, h)'
       /\ h <= reorgs /\ Gone(b, h) => Gone(b, h)'
       /\ Rooted(b, h) => Rooted(b, h)'

LEMMA TickMoves == ChainTyped /\ Tick => ChainMoves
BY ReceiptsConstants DEF ChainTyped, Tick, ChainMoves, Seen, Gone, Rooted, Blocks

LEMMA MineMoves == ASSUME NEW y \in Txs PROVE ChainTyped /\ Mine(y) => ChainMoves
<1> SUFFICES ASSUME ChainTyped, Mine(y) PROVE ChainMoves
  OBVIOUS
<1>1. ChainTyped'
  BY DEF ChainTyped, Mine, Blocks
<1>2. ASSUME NEW x \in Txs, NEW b \in Blocks, NEW h \in Nat, Seen(x, b, h)
      PROVE  Seen(x, b, h)'
  <2>1. CASE x = y
    <3>1. branch[b] # h
      BY <1>2, <2>1 DEF Mine, Seen, Blocks
    <3> QED  BY <3>1, <1>2 DEF Mine, Seen
  <2>2. CASE x # y
    BY <1>2, <2>2 DEF Mine, Seen, ChainTyped
  <2> QED  BY <2>1, <2>2
<1> QED  BY <1>1, <1>2 DEF Mine, ChainMoves, Gone, Rooted

LEMMA SafeMoves == ChainTyped /\ Safe => ChainMoves
BY DEF ChainTyped, Safe, ChainMoves, Seen, Gone, Rooted, Blocks

LEMMA FinalisedMoves == ChainTyped /\ Finalised => ChainMoves
BY DEF ChainTyped, Finalised, ChainMoves, Seen, Gone, Rooted, Blocks

\* A block that is replaced gets a hash that nobody has seen.
LEMMA ReorgMoves == ASSUME NEW n \in Blocks PROVE ChainTyped /\ Reorg(n) => ChainMoves
<1> SUFFICES ASSUME ChainTyped, Reorg(n) PROVE ChainMoves
  OBVIOUS
<1>1. n \in Nat /\ n >= 1
  BY DEF Blocks
<1>2. PICK out \in SUBSET {x \in Txs : mined[x] >= n} :
        mined' = [x \in Txs |-> IF x \in out THEN 0 ELSE mined[x]]
  BY DEF Reorg
<1>3. \A b \in Blocks : branch'[b] = IF b >= n THEN reorgs + 1 ELSE branch[b]
  BY DEF Reorg
<1>4. ChainTyped'
  <2>1. safe' \in Nat /\ final' <= safe' /\ safe' <= clock'
    BY <1>1 DEF Reorg, ChainTyped, Blocks
  <2>2. mined' \in [Txs -> Nat] /\ \A x \in Txs : mined'[x] <= clock'
    BY <1>2 DEF Reorg, ChainTyped, Blocks
  <2>3. branch' \in [Blocks -> Nat] /\ \A b \in Blocks : branch'[b] <= reorgs'
    BY <1>3 DEF Reorg, ChainTyped
  <2> QED  BY <2>1, <2>2, <2>3 DEF Reorg, ChainTyped
<1>5. ASSUME NEW b \in Blocks, NEW h \in Nat, h <= reorgs
      PROVE  /\ branch'[b] = h => branch[b] = h /\ b < n
             /\ branch[b] = h /\ b < n => branch'[b] = h
  <2>1. b \in Nat /\ reorgs \in Nat
    BY DEF Blocks, ChainTyped
  <2> QED  BY <1>1, <1>3, <1>5, <2>1
<1>6. ASSUME NEW x \in Txs, NEW b \in Blocks, NEW h \in Nat, Seen(x, b, h)
      PROVE  Seen(x, b, h)'
  <2>1. h <= reorgs /\ h <= reorgs'
    BY <1>6 DEF Seen, Reorg, ChainTyped
  <2>2. branch'[b] = h => mined[x] = b /\ b < n
    BY <1>5, <1>6, <2>1 DEF Seen
  <2>3. branch'[b] = h => mined'[x] = b
    BY <2>2, <1>1, <1>2 DEF Blocks
  <2> QED  BY <2>1, <2>3 DEF Seen
<1>7. ASSUME NEW b \in Blocks, NEW h \in Nat, h <= reorgs, Gone(b, h)
      PROVE  Gone(b, h)'
  BY <1>5, <1>7 DEF Gone
<1>8. ASSUME NEW b \in Blocks, NEW h \in Nat, Rooted(b, h)
      PROVE  Rooted(b, h)'
  <2>1. b < n /\ final' = final
    BY <1>1, <1>8 DEF Rooted, Reorg, ChainTyped, Blocks
  <2>2. h <= reorgs
    BY <1>8 DEF Rooted, ChainTyped
  <2> QED  BY <1>1, <1>3, <1>8, <2>1 DEF Rooted, Blocks
<1> QED  BY <1>4, <1>6, <1>7, <1>8 DEF ChainMoves

\* What an invocation knows outlives a step of the chain.
LEMMA KnowsAcross ==
  ASSUME Typed, ReceiptsRest, ChainMoves, UNCHANGED store,
         NEW r \in Calls \cup RemoveCall, Knows(r)
  PROVE  Knows(r)'
<1>1. intent' = intent /\ receipt' = receipt
  BY DEF store
<1>2. CASE r.op = "verify" /\ r.v.do = "finalise"
  <2>1. r \in VerifyCall
    BY <1>2 DEF Idle, StoreCall, VerifyCall, ReconcileCall, RemoveCall, Calls
  <2>2. r.v \in Finding /\ r.v.cand \in Sighting
    BY <1>2, <2>1 DEF VerifyCall, Finding, Stored
  <2>3. r.v.cand.tx \in Txs /\ r.v.cand.block \in Blocks /\ r.v.cand.hash \in Nat
    BY <2>2 DEF Sighting
  <2>4. /\ Fits(intent[r.id], r.v.cand.block, r.v.mode)
        /\ Seen(r.v.cand.tx, r.v.cand.block, r.v.cand.hash)
        /\ r.v.cand.finalized => Rooted(r.v.cand.block, r.v.cand.hash)
    BY <1>2 DEF Knows
  <2>5. Fits(intent[r.id], r.v.cand.block, r.v.mode)'
    BY <1>1, <2>4 DEF Fits, WindowState
  <2> QED  BY <1>1, <1>2, <2>3, <2>4, <2>5 DEF Knows, ChainMoves
<1>3. CASE r.op = "reconcile"
  <2>1. r \in ReconcileCall
    BY <1>3 DEF Idle, StoreCall, VerifyCall, ReconcileCall, RemoveCall, Calls
  <2>2. r.tx \in Txs /\ receipt[r.tx].status = "CONFIRMED"
    BY <1>3, <2>1 DEF ReconcileCall, Knows
  <2>3. /\ receipt[r.tx].block \in Blocks /\ receipt[r.tx].hash \in Nat
        /\ receipt[r.tx].hash <= reorgs
    BY <2>2 DEF ReceiptsRest, Rests, Seen, Typed, StoreTyped, Receipt
  <2> QED  BY <1>1, <1>3, <2>2, <2>3 DEF Knows, ChainMoves
<1>4. CASE r.op \notin {"verify", "reconcile"} \/ (r.op = "verify" /\ r.v.do # "finalise")
  BY <1>1, <1>4 DEF Knows
<1> QED  BY <1>2, <1>3, <1>4

LEMMA RestsAcross ==
  ASSUME Typed, ReceiptsRest, ChainMoves, UNCHANGED store
  PROVE  ReceiptsRest'
<1> SUFFICES ASSUME NEW x \in Txs, receipt[x].status # "NONE" PROVE Rests(x)'
  BY DEF ReceiptsRest, store, Rests
<1>1. intent' = intent /\ receipt' = receipt
  BY DEF store
<1>2. Rests(x)
  BY DEF ReceiptsRest
<1>3. receipt[x].block \in Blocks /\ receipt[x].hash \in Nat /\ receipt[x].hash <= reorgs
  BY <1>2 DEF Rests, Seen, Typed, StoreTyped, Receipt
<1>4. Fits(intent[receipt[x].by], receipt[x].block, receipt[x].mode)'
  BY <1>1, <1>2 DEF Rests, Fits, WindowState
<1> QED  BY <1>1, <1>2, <1>3, <1>4 DEF Rests, ChainMoves

LEMMA ChainKeeps ==
  ASSUME Inv, ChainMoves, UNCHANGED <<store, run, job>>
  PROVE  Inv'
<1>1. Typed'
  BY DEF Inv, Typed, ChainMoves, StoreTyped, RunTyped, store
<1>2. RunsKnow'
  <2>1. Knows(job)'
    <3>1. Knows(job) /\ job \in Calls \cup RemoveCall
      BY DEF Inv, Typed, RunTyped, RunsKnow, Calls
    <3> DEFINE r == job
    <3>2. PICK q : q = r
      OBVIOUS
    <3>3. Knows(q)'
      BY <3>1, <3>2, KnowsAcross DEF Inv
    <3>4. job' = q
      BY <3>2
    <3> QED  BY <3>3, <3>4 DEF Knows
  <2>2. ASSUME NEW s \in Slots PROVE Knows(run[s])'
    <3>1. Knows(run[s]) /\ run[s] \in Calls
      BY DEF Inv, Typed, RunTyped, RunsKnow
    <3> DEFINE r == run[s]
    <3>2. PICK q : q = r
      OBVIOUS
    <3>3. Knows(q)'
      BY <3>1, <3>2, KnowsAcross DEF Inv
    <3> QED  BY <3>2, <3>3 DEF Knows
  <2> QED  BY <2>1, <2>2 DEF RunsKnow
<1>3. ReceiptsRest'
  BY RestsAcross DEF Inv
<1>4. ReceiptsAgree'
  BY DEF Inv, ReceiptsAgree, Live, store
<1> QED  BY <1>1, <1>2, <1>3, <1>4 DEF Inv

-----------------------------------------------------------------------------
(* Steps of the requests and the job: the chain stays.                     *)

\* Invocation r keeps what it knows as long as the record it holds stays.
LEMMA KnowsOn ==
  ASSUME UNCHANGED chain, NEW r, Knows(r),
         r.op \in {"store", "verify"} => intent'[r.id] = intent[r.id],
         r.op = "reconcile" => receipt'[r.tx] = receipt[r.tx]
  PROVE  Knows(r)'
BY DEF Knows, chain, Fits, WindowState, Seen, Rooted, Gone

LEMMA IdleKnows == Knows(Idle) /\ Knows(Idle)'
BY DEF Knows, Idle

\* Receipt x keeps what it rests on as long as it and the fields of its
\* intent stay.
LEMMA RestsOn ==
  ASSUME UNCHANGED chain, NEW x \in Txs, Rests(x), receipt'[x] = receipt[x],
         LET i == receipt[x].by
         IN i \in Intents /\ intent[i].status \notin {"NONE", "DRAFT"} =>
              /\ intent'[i].status \notin {"NONE", "DRAFT"}
              /\ intent'[i].nb = intent[i].nb /\ intent'[i].exp = intent[i].exp
              /\ intent'[i].created = intent[i].created
  PROVE  Rests(x)'
BY DEF Rests, chain, Fits, WindowState, Seen, Rooted, Gone

LEMMA StaleTyped ==
  ASSUME NEW S, Idle \in S, NEW r \in S, NEW k
  PROVE  StaleIntent(r, k) \in S /\ StaleReceipt(r, k) \in S
BY DEF StaleIntent, StaleReceipt

\* A write of the intent k only.
LEMMA IntentWritten ==
  ASSUME Inv, NEW k \in Intents, UNCHANGED <<chain, receipt, txlog, pending, job>>,
         intent' \in [Intents -> Intent], open' \in [id: Intents \cup {None}, until: Nat], tupleLast' \in Nat,
         \A i \in Intents \ {k} : intent'[i] = intent[i],
         run' = [q \in Slots |-> run'[q]],
         \A q \in Slots : run'[q] \in {Idle, StaleIntent(run[q], k)},
         intent[k].status # "CONSUMED", intent'[k].status # "CONSUMED",
         intent[k].status \notin {"NONE", "DRAFT"} =>
           /\ intent'[k].status \notin {"NONE", "DRAFT"}
           /\ intent'[k].nb = intent[k].nb /\ intent'[k].exp = intent[k].exp
           /\ intent'[k].created = intent[k].created
  PROVE  Inv'
<1>1. Typed'
  <2>1. RunTyped'
    <3>1. ASSUME NEW q \in Slots PROVE run'[q] \in Calls
      <4>1. run[q] \in Calls /\ Idle \in Calls
        BY DEF Inv, Typed, RunTyped, Calls
      <4>2. StaleIntent(run[q], k) \in Calls
        BY <4>1 DEF StaleIntent
      <4> QED  BY <4>1, <4>2
    <3> QED  BY <3>1 DEF Inv, Typed, RunTyped, Calls
  <2>2. ChainTyped'
    BY DEF Inv, Typed, ChainTyped, chain
  <2>3. StoreTyped'
    BY DEF Inv, Typed, StoreTyped
  <2> QED  BY <2>1, <2>2, <2>3 DEF Typed
<1>2. RunsKnow'
  <2>1. Knows(job)'
    <3>1. Knows(job) /\ job.op \notin {"store", "verify"}
      BY DEF Inv, RunsKnow, Typed, RunTyped, Idle, ReconcileCall, RemoveCall
    <3> QED  BY <3>1, KnowsOn
  <2>2. ASSUME NEW q \in Slots PROVE Knows(run[q])'
    <3> DEFINE r == run[q]
    <3>1. Knows(r)
      BY DEF Inv, RunsKnow
    <3>2. CASE run'[q] = Idle
      BY <3>2, IdleKnows
    <3>3. CASE run'[q] = r /\ ~(r.op \in {"store", "verify"} /\ r.id = k)
      <4>1. r.op \in {"store", "verify"} => r.id \in Intents \ {k}
        BY <3>3 DEF Inv, Typed, RunTyped, Idle, StoreCall, VerifyCall, ReconcileCall, Calls
      <4>2. PICK p : p = r
        OBVIOUS
      <4>3. Knows(p)'
        BY <3>1, <4>1, <4>2, KnowsOn
      <4> QED  BY <3>3, <4>2, <4>3
    <3> QED  BY <3>2, <3>3 DEF StaleIntent
  <2> QED  BY <2>1, <2>2 DEF RunsKnow
<1>3. ReceiptsRest'
  <2> SUFFICES ASSUME NEW x \in Txs PROVE Rests(x)'
    BY DEF ReceiptsRest
  <2>1. Rests(x)
    BY DEF Inv, ReceiptsRest
  <2> QED  BY <2>1, RestsOn
<1>4. ReceiptsAgree'
  <2>1. \A x \in Txs : Live(x) => receipt[x].by \in Intents
    BY DEF Inv, ReceiptsRest, Rests, Live
  <2> QED  BY <2>1 DEF Inv, ReceiptsAgree, Live
<1> QED  BY <1>1, <1>2, <1>3, <1>4 DEF Inv

\* Only the invocations and the job move, and they know what they begin with.
LEMMA ReadsKeep ==
  ASSUME Inv, UNCHANGED <<chain, store>>,
         run' \in [Slots -> Calls], job' \in {Idle} \cup ReconcileCall \cup RemoveCall,
         \A q \in Slots : run'[q] = run[q] \/ (\E r : Knows(r) /\ run'[q] = r),
         job' = job \/ (\E r : Knows(r) /\ job' = r)
  PROVE  Inv'
<1>1. Typed'
  BY DEF Inv, Typed, ChainTyped, StoreTyped, RunTyped, Calls, chain, store
<1>2. ASSUME NEW r, Knows(r) PROVE Knows(r)'
  BY <1>2, KnowsOn DEF store
<1>3. RunsKnow'
  <2>1. Knows(job)'
    <3>1. PICK r : Knows(r) /\ job' = r
      BY DEF Inv, RunsKnow
    <3> QED  BY <3>1, <1>2 DEF Knows
  <2>2. ASSUME NEW q \in Slots PROVE Knows(run[q])'
    <3>1. PICK r : Knows(r) /\ run'[q] = r
      BY DEF Inv, RunsKnow
    <3>2. Knows(r)'
      BY <3>1, <1>2
    <3> QED  BY <3>1, <3>2 DEF Knows
  <2> QED  BY <2>1, <2>2 DEF RunsKnow
<1>4. ReceiptsRest'
  <2> SUFFICES ASSUME NEW x \in Txs PROVE Rests(x)'
    BY DEF ReceiptsRest
  <2>1. Rests(x)
    BY DEF Inv, ReceiptsRest
  <2> QED  BY <2>1, RestsOn DEF store
<1>5. ReceiptsAgree'
  BY DEF Inv, ReceiptsAgree, Live, store
<1> QED  BY <1>1, <1>3, <1>4, <1>5 DEF Inv

\* One slot begins with what it has read.
LEMMA BeginsKeep ==
  ASSUME Inv, NEW s \in Slots, NEW r \in Calls, Knows(r), UNCHANGED <<chain, store, job>>,
         run' = [run EXCEPT ![s] = r]
  PROVE  Inv'
<1>1. run' \in [Slots -> Calls] /\ job' \in {Idle} \cup ReconcileCall \cup RemoveCall
  BY DEF Inv, Typed, RunTyped, Calls
<1>2. \A q \in Slots : run'[q] = run[q] \/ run'[q] = r
  BY DEF Inv, Typed, RunTyped
<1> QED  BY <1>1, <1>2, ReadsKeep

LEMMA IntentDraftKeeps ==
  ASSUME Inv, NEW i \in Intents, IntentDraft(i)
  PROVE  Inv'
<1> DEFINE nb == IF clock - Slack >= tupleLast + 1 THEN clock - Slack ELSE tupleLast + 1
<1>1. clock \in Nat /\ tupleLast \in Nat /\ Slack \in Nat /\ Window \in Nat
  BY ReceiptsConstants DEF Inv, Typed, ChainTyped, StoreTyped, Blocks
<1>2. nb \in Nat /\ nb + Window \in Nat
  BY <1>1
<1>3. intent' = [intent EXCEPT ![i] =
        [NoIntent EXCEPT !.status = "DRAFT", !.nb = nb, !.exp = nb + Window, !.made = clock]]
  BY DEF IntentDraft
<1>4. [NoIntent EXCEPT !.status = "DRAFT", !.nb = nb, !.exp = nb + Window, !.made = clock] \in Intent
  BY <1>1, <1>2 DEF NoIntent, Intent, IntentStatuses
<1>5. intent' \in [Intents -> Intent] /\ intent'[i].status = "DRAFT"
  BY <1>3, <1>4 DEF Inv, Typed, StoreTyped, NoIntent
<1>6. \A q \in Slots : run'[q] = StaleIntent(run[q], i)
  <2> TAKE q \in Slots
  <2>1. Knows(run[q]) /\ intent[i].status = "NONE" /\ run' = run
    BY DEF Inv, RunsKnow, IntentDraft
  <2> QED  BY <2>1 DEF Knows, StaleIntent, Stored
<1>7. run' = [q \in Slots |-> run'[q]]
  BY DEF IntentDraft, Inv, Typed, RunTyped
<1>8. \A j \in Intents \ {i} : intent'[j] = intent[j]
  BY <1>3 DEF Inv, Typed, StoreTyped
<1> QED  BY <1>5, <1>6, <1>7, <1>8, IntentWritten DEF IntentDraft, Inv, Typed, StoreTyped

LEMMA IntentStoreKeeps ==
  ASSUME Inv, NEW s \in Slots, NEW i \in Intents, IntentStore(s, i)
  PROVE  Inv'
<1> DEFINE r == [op |-> "store", id |-> i, created |-> clock]
<1>1. r \in Calls
  BY DEF Inv, Typed, ChainTyped, Blocks, Calls, StoreCall
<1>2. Knows(r)
  BY DEF Knows, IntentStore
<1> QED  BY <1>1, <1>2, BeginsKeep DEF IntentStore

LEMMA FreesKeep ==
  ASSUME Inv, NEW s \in Slots, UNCHANGED <<chain, store, job>>, run' = Frees(s)
  PROVE  Inv'
<1>1. Idle \in Calls /\ Knows(Idle)
  BY IdleKnows DEF Calls
<1> QED  BY <1>1, BeginsKeep DEF Frees

LEMMA IntentStoreCommitKeeps ==
  ASSUME Inv, NEW s \in Slots, IntentStoreCommit(s)
  PROVE  Inv'
<1> DEFINE i == run[s].id
<1>1. run[s] \in StoreCall
  BY DEF Inv, Typed, RunTyped, IntentStoreCommit, Idle, StoreCall, VerifyCall, ReconcileCall, Calls
<1>2. i \in Intents /\ run[s].created \in Nat /\ intent[i].status = "DRAFT"
  BY <1>1 DEF StoreCall, Inv, RunsKnow, Knows
<1>3. CASE run' = Frees(s) /\ UNCHANGED <<intent, open, tupleLast>>
  BY <1>3, FreesKeep DEF IntentStoreCommit, store
<1>4. CASE /\ intent' = [intent EXCEPT ![i].status = "OPEN", ![i].created = run[s].created]
           /\ open' = [id |-> i, until |-> intent[i].exp + Skew]
           /\ tupleLast' = intent[i].exp
           /\ run' = [q \in Slots |-> IF q = s THEN Idle ELSE StaleIntent(run[q], i)]
  <2>1. intent[i] \in Intent /\ Skew \in Nat
    BY <1>2, ReceiptsConstants DEF Inv, Typed, StoreTyped
  <2>2. intent[i].exp \in Nat /\ intent[i].exp + Skew \in Nat
    BY <2>1 DEF Intent
  <2>3. [intent[i] EXCEPT !.status = "OPEN", !.created = run[s].created] \in Intent
    BY <2>1, <1>2 DEF Intent, IntentStatuses, Stored
  <2>4. intent' = [intent EXCEPT ![i] = [intent[i] EXCEPT !.status = "OPEN", !.created = run[s].created]]
    BY <1>4
  <2>5. intent' \in [Intents -> Intent] /\ \A j \in Intents \ {i} : intent'[j] = intent[j]
    BY <2>3, <2>4 DEF Inv, Typed, StoreTyped
  <2>6. intent'[i].status = "OPEN"
    BY <1>2, <2>1, <2>4 DEF Inv, Typed, StoreTyped, Intent
  <2>7. open' \in [id: Intents \cup {None}, until: Nat] /\ tupleLast' \in Nat
    BY <1>2, <1>4, <2>2
  <2>8. /\ run' = [q \in Slots |-> run'[q]]
        /\ \A q \in Slots : run'[q] \in {Idle, StaleIntent(run[q], i)}
    BY <1>4
  <2> QED  BY <1>2, <2>5, <2>6, <2>7, <2>8, IntentWritten DEF IntentStoreCommit
<1> QED  BY <1>3, <1>4 DEF IntentStoreCommit

LEMMA VerifyKeeps ==
  ASSUME Inv, NEW s \in Slots, NEW i \in Intents, NEW h \in Txs, Verify(s, i, h)
  PROVE  Inv'
<1> DEFINE v == Verdict(intent[i], h)
           r == [op |-> "verify", id |-> i, v |-> v]
<1>1. intent[i] \in Intent /\ intent[i].status \in Stored /\ v.do # "nothing" /\ ChainTyped
  BY DEF Inv, Typed, StoreTyped, Verify
<1>2. /\ v \in Finding
      /\ v.do = "finalise" =>
           /\ Fits(intent[i], v.cand.block, v.mode)
           /\ Seen(v.cand.tx, v.cand.block, v.cand.hash)
           /\ v.cand.finalized => Rooted(v.cand.block, v.cand.hash)
  BY <1>1, VerdictTyped
<1> HIDE DEF v
<1>3. r \in Calls
  BY <1>2 DEF Calls, VerifyCall
<1>4. Knows(r)
  BY <1>1, <1>2 DEF Knows
<1>5. run' = [run EXCEPT ![s] = r]
  BY DEF Verify, v
<1> QED  BY <1>3, <1>4, <1>5, BeginsKeep DEF Verify

LEMMA FinalizeKeeps ==
  ASSUME Inv, NEW s \in Slots, NEW i \in Intents, NEW x \in Txs, Finalize(s, i, x)
  PROVE  Inv'
<1> DEFINE m == intent[i]
           w == WindowState(m, mined[x])
           mode == IF w = "late" THEN "recovery-finalized" ELSE "ambiguous-finalized"
           r == [op |-> "verify", id |-> i, v |-> [do |-> "finalise", cand |-> Candidate(x), mode |-> mode]]
<1>1. /\ m.status \in Stored /\ w \in {"in-window", "late"}
      /\ mined[x] # 0 /\ mined[x] > m.created
      /\ run' = [run EXCEPT ![s] = r]
  BY DEF Finalize, Follows
<1>2. /\ Candidate(x) \in Sighting /\ Candidate(x).tx = x
      /\ Candidate(x).block = mined[x] /\ Candidate(x).hash = branch[mined[x]]
      /\ Seen(x, mined[x], branch[mined[x]])
      /\ Candidate(x).finalized => Rooted(mined[x], branch[mined[x]])
  BY <1>1, CandidateTyped DEF Candidate, Inv, Typed
<1>3. r \in Calls
  BY <1>2 DEF Calls, VerifyCall, Finding, Modes
<1>4. Fits(m, mined[x], mode)
  BY <1>1 DEF Fits
<1>5. Knows(r)
  BY <1>1, <1>2, <1>4 DEF Knows
<1> QED  BY <1>1, <1>3, <1>5, BeginsKeep DEF Finalize

LEMMA SetIntentStateKeeps ==
  ASSUME Inv, NEW s \in Slots, SetIntentState(s)
  PROVE  Inv'
<1> DEFINE i == run[s].id
           do == run[s].v.do
<1>1. run[s] \in VerifyCall
  BY DEF Inv, Typed, RunTyped, SetIntentState, Idle, StoreCall, VerifyCall, ReconcileCall, Calls
<1>2. i \in Intents /\ run[s].v \in Finding /\ intent[i].status \in Stored
  BY <1>1 DEF VerifyCall, Inv, RunsKnow, Knows
<1>3. do \in Stored \cup {"CLOSED"}
  BY <1>2 DEF Finding, SetIntentState
<1>4. intent[i] \in Intent
  BY <1>2 DEF Inv, Typed, StoreTyped
<1>5. intent' = [intent EXCEPT ![i] = [intent[i] EXCEPT !.status = do]]
  BY DEF SetIntentState
<1>6. [intent[i] EXCEPT !.status = do] \in Intent
  BY <1>3, <1>4 DEF Intent, IntentStatuses
<1>7. intent' \in [Intents -> Intent] /\ \A j \in Intents \ {i} : intent'[j] = intent[j]
  BY <1>5, <1>6 DEF Inv, Typed, StoreTyped
<1>8. /\ intent'[i].status \in Stored \cup {"CLOSED"}
      /\ intent'[i].nb = intent[i].nb /\ intent'[i].exp = intent[i].exp
      /\ intent'[i].created = intent[i].created
  BY <1>2, <1>3, <1>4, <1>5 DEF Inv, Typed, StoreTyped, Intent
<1>9. /\ run' = [q \in Slots |-> run'[q]]
      /\ \A q \in Slots : run'[q] \in {Idle, StaleIntent(run[q], i)}
  BY DEF SetIntentState
<1> QED  BY <1>2, <1>7, <1>8, <1>9, IntentWritten DEF SetIntentState, Stored, Inv, Typed, StoreTyped

\* What is held by others of the receipt x and the intent k is dropped.
LEMMA StaleKnows ==
  ASSUME UNCHANGED chain, NEW x, NEW k, NEW r \in Calls \cup RemoveCall, Knows(r),
         \A i \in Intents : i # k => intent'[i] = intent[i],
         \A y \in Txs : y # x => receipt'[y] = receipt[y]
  PROVE  Knows(StaleReceipt(StaleIntent(r, k), x))'
<1>1. CASE StaleReceipt(StaleIntent(r, k), x) = Idle
  BY <1>1, IdleKnows
<1>2. CASE /\ StaleReceipt(StaleIntent(r, k), x) = r
           /\ ~(r.op \in {"store", "verify"} /\ r.id = k)
           /\ ~(r.op = "reconcile" /\ r.tx = x)
  <2>1. /\ r.op \in {"store", "verify"} => r.id \in Intents
        /\ r.op = "reconcile" => r.tx \in Txs
    BY DEF Calls, Idle, StoreCall, VerifyCall, ReconcileCall, RemoveCall
  <2> QED  BY <1>2, <2>1, KnowsOn
<1> QED  BY <1>1, <1>2 DEF StaleReceipt, StaleIntent, Idle

LEMMA FinaliseKeeps ==
  ASSUME Inv, NEW s \in Slots, NEW queued \in QueueWrites, Finalise(s, queued)
  PROVE  Inv'
<1>0. PICK call : call = run[s]
  OBVIOUS
<1> DEFINE i == call.id
           c == call.v.cand
           x == c.tx
           mode == call.v.mode
           status == IF c.finalized THEN "FINALIZED" ELSE "CONFIRMED"
           new == [status |-> status, by |-> i, block |-> c.block, hash |-> c.hash, mode |-> mode]
<1>1. call \in VerifyCall
  BY <1>0 DEF Inv, Typed, RunTyped, Finalise, Idle, StoreCall, VerifyCall, ReconcileCall, Calls
<1>2. i \in Intents /\ call.v \in Finding /\ call.v.do = "finalise" /\ intent[i].status \in Stored
  BY <1>0, <1>1 DEF Finalise, VerifyCall, Inv, RunsKnow, Knows
<1>3. c \in Sighting /\ mode \in Modes
  BY <1>2 DEF Finding, Finalise, Stored
<1>4. /\ x \in Txs /\ c.block \in Blocks /\ c.hash \in Nat
      /\ Fits(intent[i], c.block, mode) /\ Seen(x, c.block, c.hash)
      /\ c.finalized => Rooted(c.block, c.hash)
  BY <1>0, <1>1, <1>2, <1>3 DEF Sighting, Inv, RunsKnow, Knows, VerifyCall
<1>5. CASE /\ run' = Frees(s)
           /\ UNCHANGED <<txlog, intent, receipt, open, tupleLast, pending, job>>
  BY <1>5, FreesKeep DEF Finalise, store
<1>6. CASE /\ MayClaim(i, x)
           /\ txlog' = [txlog EXCEPT ![x] = i]
           /\ intent' = [intent EXCEPT ![i].status = "CONSUMED", ![i].receipt = x]
           /\ receipt' = [receipt EXCEPT ![x] = new]
           /\ open' = NotOpen
           /\ tupleLast' = c.block
           /\ pending' = IF queued /\ status = "CONFIRMED" THEN pending \cup {x} ELSE pending
           /\ run' = [q \in Slots |-> IF q = s THEN Idle ELSE StaleReceipt(StaleIntent(run[q], i), x)]
           /\ job' = StaleReceipt(job, x)
  <2>1. intent[i] \in Intent
    BY <1>2 DEF Inv, Typed, StoreTyped
  <2> DEFINE used == [intent[i] EXCEPT !.status = "CONSUMED", !.receipt = x]
  <2>2. /\ used \in Intent /\ used.status = "CONSUMED" /\ used.receipt = x
        /\ used.nb = intent[i].nb /\ used.exp = intent[i].exp /\ used.created = intent[i].created
    BY <2>1, <1>4 DEF Intent, IntentStatuses
  <2>3. intent' = [intent EXCEPT ![i] = used]
    BY <1>6
  <2>4. /\ intent' \in [Intents -> Intent] /\ intent'[i] = used
        /\ \A j \in Intents : j # i => intent'[j] = intent[j]
    BY <1>2, <2>2, <2>3 DEF Inv, Typed, StoreTyped
  <2>5. /\ new \in Receipt
        /\ new.status = status /\ new.by = i /\ new.block = c.block /\ new.hash = c.hash /\ new.mode = mode
    BY <1>2, <1>3, <1>4 DEF Receipt, ReceiptStatuses, Blocks
  <2>6. /\ receipt' \in [Txs -> Receipt] /\ receipt'[x] = new
        /\ \A y \in Txs : y # x => receipt'[y] = receipt[y]
    BY <1>4, <1>6, <2>5 DEF Inv, Typed, StoreTyped
  <2>7. /\ txlog' \in [Txs -> Intents \cup {None}] /\ txlog'[x] = i
        /\ \A y \in Txs : y # x => txlog'[y] = txlog[y]
    BY <1>2, <1>4, <1>6 DEF Inv, Typed, StoreTyped
  <2> HIDE DEF used, new
  <2>8. Typed'
    <3>1. StoreTyped'
      BY <1>4, <1>6, <2>4, <2>6, <2>7 DEF StoreTyped, NotOpen, Inv, Typed, Blocks
    <3>2. ASSUME NEW q \in Slots PROVE run'[q] \in Calls
      <4>1. run[q] \in Calls /\ Idle \in Calls
        BY DEF Inv, Typed, RunTyped, Calls
      <4> QED  BY <1>6, <4>1 DEF StaleIntent, StaleReceipt
    <3>3. job' \in {Idle} \cup ReconcileCall \cup RemoveCall
      BY <1>6 DEF StaleReceipt, Inv, Typed, RunTyped
    <3>4. RunTyped'
      BY <1>6, <3>2, <3>3 DEF RunTyped
    <3>5. ChainTyped'
      BY DEF Finalise, chain, Inv, Typed, ChainTyped
    <3> QED  BY <3>1, <3>4, <3>5 DEF Typed
  <2>9. RunsKnow'
    <3>1. UNCHANGED chain
      BY DEF Finalise
    <3>2. Knows(job)'
      <4>1. Knows(job) /\ StaleIntent(job, i) = job /\ job \in Calls \cup RemoveCall
        BY DEF Calls, Inv, RunsKnow, Typed, RunTyped, Idle, ReconcileCall, RemoveCall, StaleIntent
      <4> DEFINE j == job
      <4>2. PICK r : r = j
        OBVIOUS
      <4>3. Knows(StaleReceipt(StaleIntent(r, i), x))'
        BY <3>1, <2>4, <2>6, <4>1, <4>2, StaleKnows
      <4>4. job' = StaleReceipt(StaleIntent(r, i), x)
        BY <1>6, <4>1, <4>2
      <4> QED  BY <4>3, <4>4 DEF Knows
    <3>3. ASSUME NEW q \in Slots PROVE Knows(run[q])'
      <4> DEFINE j == run[q]
      <4>1. Knows(j) /\ j \in Calls \cup RemoveCall
        BY DEF Inv, RunsKnow, Typed, RunTyped
      <4>2. PICK r : r = j
        OBVIOUS
      <4>3. Knows(StaleReceipt(StaleIntent(r, i), x))'
        BY <3>1, <2>4, <2>6, <4>1, <4>2, StaleKnows
      <4>4. run'[q] = Idle \/ run'[q] = StaleReceipt(StaleIntent(r, i), x)
        BY <1>6, <4>2
      <4>5. CASE run'[q] = Idle
        BY <4>5, IdleKnows DEF Knows
      <4>6. CASE run'[q] = StaleReceipt(StaleIntent(r, i), x)
        BY <4>3, <4>6 DEF Knows
      <4> QED  BY <4>4, <4>5, <4>6
    <3> QED  BY <3>2, <3>3 DEF RunsKnow
  <2>10. ReceiptsRest'
    <3> SUFFICES ASSUME NEW y \in Txs PROVE Rests(y)'
      BY DEF ReceiptsRest
    <3>1. CASE y = x
      <4>1. Fits(intent[i], c.block, mode)'
        BY <1>4, <2>2, <2>4 DEF Fits, WindowState
      <4>2. Seen(x, c.block, c.hash)' /\ (c.finalized => Rooted(c.block, c.hash)')
        BY <1>4 DEF Finalise, chain, Seen, Rooted
      <4>3. receipt'[y].by = i /\ intent'[i].status = "CONSUMED"
        BY <3>1, <2>2, <2>4, <2>5, <2>6
      <4>4. /\ receipt'[y].block = c.block /\ receipt'[y].hash = c.hash /\ receipt'[y].mode = mode
            /\ receipt'[y].status = status
        BY <3>1, <2>5, <2>6
      <4> QED  BY <3>1, <1>2, <4>1, <4>2, <4>3, <4>4 DEF Rests
    <3>2. CASE y # x
      <4>1. Rests(y) /\ receipt'[y] = receipt[y]
        BY <3>2, <2>6 DEF Inv, ReceiptsRest
      <4>2. UNCHANGED chain
        BY DEF Finalise
      <4>3. ASSUME NEW j \in Intents
            PROVE  /\ intent'[j].nb = intent[j].nb /\ intent'[j].exp = intent[j].exp
                   /\ intent'[j].created = intent[j].created
                   /\ intent[j].status \notin {"NONE", "DRAFT"} => intent'[j].status \notin {"NONE", "DRAFT"}
        BY <2>2, <2>4
      <4> QED  BY <4>1, <4>2, <4>3, RestsOn
    <3> QED  BY <3>1, <3>2
  <2>11. ReceiptsAgree'
    <3>1. ASSUME NEW y \in Txs, Live(y)'
          PROVE  (intent[receipt[y].by].status = "CONSUMED" /\ intent[receipt[y].by].receipt = y
                    /\ txlog[y] = receipt[y].by)'
      <4>1. CASE y = x
        <5>1. receipt'[y].by = i /\ txlog'[y] = i
          BY <4>1, <2>5, <2>6, <2>7
        <5>2. intent'[i].status = "CONSUMED" /\ intent'[i].receipt = y
          BY <4>1, <2>2, <2>4
        <5> QED  BY <5>1, <5>2
      <4>2. CASE y # x
        <5>1. Live(y) /\ receipt'[y] = receipt[y] /\ txlog'[y] = txlog[y]
          BY <4>2, <3>1, <2>6, <2>7 DEF Live
        <5>2. intent[receipt[y].by].status = "CONSUMED"
          BY <5>1 DEF Inv, ReceiptsAgree
        <5>3. receipt[y].by # i
          BY <5>2, <1>2 DEF Stored
        <5>4. receipt[y].by \in Intents
          BY <5>1 DEF Inv, ReceiptsRest, Rests, Live
        <5> QED  BY <5>1, <5>3, <5>4, <2>4 DEF Inv, ReceiptsAgree
      <4> QED  BY <4>1, <4>2
    <3>2. ASSUME NEW j \in Intents, intent'[j].status = "CONSUMED"
          PROVE  (intent[j].receipt \in Txs /\ Live(intent[j].receipt)
                    /\ receipt[intent[j].receipt].by = j)'
      <4>1. CASE j = i
        BY <4>1, <1>4, <2>2, <2>4, <2>5, <2>6 DEF Live
      <4>2. CASE j # i
        <5>1. intent'[j] = intent[j] /\ Live(intent[j].receipt) /\ intent[j].receipt \in Txs
              /\ receipt[intent[j].receipt].by = j
          BY <4>2, <3>2, <2>4 DEF Inv, ReceiptsAgree
        <5>2. intent[j].receipt # x
          BY <5>1, <1>6 DEF Live, MayClaim
        <5> QED  BY <5>1, <5>2, <2>6 DEF Live
      <4> QED  BY <4>1, <4>2
    <3> QED  BY <3>1, <3>2 DEF ReceiptsAgree
  <2> QED  BY <2>8, <2>9, <2>10, <2>11 DEF Inv
<1> QED  BY <1>0, <1>5, <1>6 DEF Finalise

LEMMA ReconcileKeeps ==
  ASSUME Inv, NEW s \in Slots, NEW x \in Txs, Reconcile(s, x)
  PROVE  Inv'
<1>1. Settles(x) \in {"FINALIZED", "INVALIDATED_BY_REORG"}
  BY DEF Reconcile, Settles
<1>2. Reading(x) \in Calls
  BY <1>1 DEF Reading, Calls, ReconcileCall
<1>3. Knows(Reading(x))
  BY DEF Reading, Knows, Reconcile, Settles, Rooted, Gone
<1> QED  BY <1>2, <1>3, BeginsKeep DEF Reconcile

LEMMA JobReadsKeeps ==
  ASSUME Inv, NEW x \in Txs, JobReads(x)
  PROVE  Inv'
<1>1. run' = run /\ run \in [Slots -> Calls]
  BY DEF JobReads, Inv, Typed, RunTyped
<1>2. CASE receipt[x].status = "CONFIRMED"
  <2>1. Settles(x) \in {"FINALIZED", "INVALIDATED_BY_REORG"} /\ job' = Reading(x)
    BY <1>2 DEF JobReads, Settles
  <2>2. Reading(x) \in ReconcileCall
    BY <2>1 DEF Reading, ReconcileCall
  <2>3. Knows(Reading(x))
    BY <1>2, <2>1 DEF Reading, Knows, Settles, Rooted, Gone
  <2> QED  BY <1>1, <2>1, <2>2, <2>3, ReadsKeep DEF JobReads
<1>3. CASE receipt[x].status # "CONFIRMED"
  <2> DEFINE r == [op |-> "zrem", tx |-> x]
  <2>1. job' = r /\ r \in RemoveCall
    BY <1>3 DEF JobReads, RemoveCall
  <2>2. Knows(r)
    BY DEF Knows
  <2> QED  BY <1>1, <2>1, <2>2, ReadsKeep DEF JobReads
<1> QED  BY <1>2, <1>3

\* The receipt that r settles, by a slot or by the job; z is what is left of
\* the one that settles it.
LEMMA SettledKeeps ==
  ASSUME Inv, NEW r \in ReconcileCall, Knows(r), Settled(r),
         UNCHANGED <<open, tupleLast, txlog, pending, chain>>,
         NEW z \in {Idle} \cup RemoveCall,
         run' = [q \in Slots |-> run'[q]],
         \A q \in Slots : run'[q] \in {Idle, AfterSettled(run[q], r)},
         job' \in {z, AfterSettled(job, r)}
  PROVE  Inv'
<1> DEFINE x == r.tx
<1>0. PICK old, i : old = receipt[x] /\ i = receipt[x].by
  OBVIOUS
<1>1. x \in Txs /\ r.to \in {"FINALIZED", "INVALIDATED_BY_REORG"} /\ r.op = "reconcile"
  BY DEF ReconcileCall
<1>2. /\ receipt[x] \in Receipt /\ receipt[x].status = "CONFIRMED" /\ i \in Intents
      /\ r.to = "FINALIZED" => Rooted(receipt[x].block, receipt[x].hash)
      /\ r.to = "INVALIDATED_BY_REORG" => Gone(receipt[x].block, receipt[x].hash)
      /\ Rests(x)
      /\ old.block \in Blocks
  BY <1>0, <1>1 DEF Seen, Knows, Inv, Typed, StoreTyped, ReceiptsRest, Rests
<1>3. intent[i].status = "CONSUMED" /\ intent[i].receipt = x /\ intent[i] \in Intent
  BY <1>0, <1>1, <1>2 DEF Inv, ReceiptsAgree, Live, Typed, StoreTyped
<1> DEFINE new == [old EXCEPT !.status = r.to]
           back == [intent[i] EXCEPT !.status = "REORGED", !.receipt = None]
<1>4. /\ new \in Receipt /\ new.status = r.to /\ new.by = i
      /\ new.block = old.block /\ new.hash = old.hash /\ new.mode = old.mode
  BY <1>0, <1>1, <1>2 DEF Receipt, ReceiptStatuses
<1>5. /\ back \in Intent /\ back.status = "REORGED" /\ back.receipt = None
      /\ back.nb = intent[i].nb /\ back.exp = intent[i].exp /\ back.created = intent[i].created
  BY <1>3 DEF Intent, IntentStatuses, Stored
<1>6. /\ receipt' \in [Txs -> Receipt] /\ receipt'[x] = new
      /\ \A y \in Txs : y # x => receipt'[y] = receipt[y]
  BY <1>0, <1>1, <1>4 DEF Settled, Inv, Typed, StoreTyped
<1>7. /\ intent' \in [Intents -> Intent]
      /\ intent'[i] = IF r.to = "FINALIZED" THEN intent[i] ELSE back
      /\ \A j \in Intents : j # i => intent'[j] = intent[j]
  BY <1>0, <1>2, <1>5 DEF Settled, Inv, Typed, StoreTyped
<1> HIDE DEF new, back
<1>8. ASSUME NEW q \in Calls \cup RemoveCall, NEW p, p = AfterSettled(q, r)
      PROVE  /\ p \in {Idle, q}
             /\ Knows(q) => Knows(p)'
  <2>0. UNCHANGED chain
    OBVIOUS
  <2>1. p \in {Idle, q}
    BY <1>8 DEF AfterSettled, StaleReceipt, StaleIntent
  <2>2. ASSUME Knows(q) PROVE Knows(p)'
    <3>1. CASE p = Idle
      BY <3>1, IdleKnows
    <3>2. CASE p = q /\ p # Idle
      <4>1. q.op # "reconcile" \/ q.tx # x
        BY <1>8, <3>2 DEF AfterSettled, StaleReceipt, StaleIntent, Idle
      <4>2. q.op \in {"store", "verify"} => q.id # i
        BY <2>2, <1>3 DEF Knows, Stored
      <4>3. /\ q.op \in {"store", "verify"} => q.id \in Intents
            /\ q.op = "reconcile" => q.tx \in Txs
        BY DEF Calls, Idle, StoreCall, VerifyCall, ReconcileCall, RemoveCall
      <4>4. Knows(q)'
        BY <2>0, <2>2, <4>1, <4>2, <4>3, <1>6, <1>7, KnowsOn
      <4> QED  BY <3>2, <4>4
    <3> QED  BY <3>1, <3>2, <2>1
  <2> QED  BY <2>1, <2>2
<1>9. Typed'
  <2>1. StoreTyped'
    BY <1>6, <1>7 DEF StoreTyped, Inv, Typed
  <2>2. ASSUME NEW q \in Slots PROVE run'[q] \in Calls
    <3>1. run[q] \in Calls /\ Idle \in Calls
      BY DEF Inv, Typed, RunTyped, Calls
    <3> QED  BY <3>1, <1>8
  <2>3. job' \in {Idle} \cup ReconcileCall \cup RemoveCall
    <3>1. job \in {Idle} \cup ReconcileCall \cup RemoveCall /\ job \in Calls \cup RemoveCall
      BY DEF Inv, Typed, RunTyped, Calls
    <3> QED  BY <3>1, <1>8
  <2>4. RunTyped'
    BY <2>2, <2>3 DEF RunTyped
  <2>5. ChainTyped'
    BY DEF chain, Inv, Typed, ChainTyped
  <2> QED  BY <2>1, <2>4, <2>5 DEF Typed
<1>10. RunsKnow'
  <2>1. Knows(z)'
    BY IdleKnows DEF Knows, RemoveCall
  <2>2. Knows(job)'
    <3>1. Knows(job) /\ job \in Calls \cup RemoveCall
      BY DEF Inv, RunsKnow, Typed, RunTyped, Calls
    <3>2. PICK q, p : q = job /\ p = AfterSettled(job, r)
      OBVIOUS
    <3>3. Knows(p)'
      BY <3>1, <3>2, <1>8
    <3>4. job' = z \/ job' = p
      BY <3>2
    <3> QED  BY <2>1, <3>3, <3>4 DEF Knows
  <2>3. ASSUME NEW q \in Slots PROVE Knows(run[q])'
    <3>1. Knows(run[q]) /\ run[q] \in Calls \cup RemoveCall
      BY DEF Inv, RunsKnow, Typed, RunTyped
    <3>2. PICK c, p : c = run[q] /\ p = AfterSettled(run[q], r)
      OBVIOUS
    <3>3. Knows(p)'
      BY <3>1, <3>2, <1>8
    <3>4. run'[q] = Idle \/ run'[q] = p
      BY <3>2
    <3> QED  BY <3>3, <3>4, IdleKnows DEF Knows
  <2> QED  BY <2>2, <2>3 DEF RunsKnow
<1>11. ReceiptsRest'
  <2> SUFFICES ASSUME NEW y \in Txs PROVE Rests(y)'
    BY DEF ReceiptsRest
  <2>0. UNCHANGED chain
    OBVIOUS
  <2>1. ASSUME NEW j \in Intents
        PROVE  /\ intent'[j].nb = intent[j].nb /\ intent'[j].exp = intent[j].exp
               /\ intent'[j].created = intent[j].created
               /\ intent[j].status \notin {"NONE", "DRAFT"} => intent'[j].status \notin {"NONE", "DRAFT"}
    BY <1>5, <1>7
  <2>2. CASE y = x
    <3>1. Fits(intent[i], old.block, old.mode)'
      BY <1>0, <1>2, <2>1 DEF Rests, Fits, WindowState
    <3>2. Seen(x, old.block, old.hash)'
      BY <2>0, <1>0, <1>2 DEF Rests, Seen, chain
    <3>3. /\ r.to = "FINALIZED" => Rooted(old.block, old.hash)'
          /\ r.to = "INVALIDATED_BY_REORG" => Gone(old.block, old.hash)'
      BY <2>0, <1>0, <1>2 DEF Rooted, Gone, chain
    <3>4. i \in Intents /\ intent'[i].status \notin {"NONE", "DRAFT"}
      BY <1>2, <1>3, <2>1
    <3> QED  BY <1>1, <1>4, <1>6, <2>2, <3>1, <3>2, <3>3, <3>4 DEF Rests
  <2>3. CASE y # x
    <3>1. Rests(y) /\ receipt'[y] = receipt[y]
      BY <2>3, <1>6 DEF Inv, ReceiptsRest
    <3> QED  BY <3>1, <2>0, <2>1, RestsOn
  <2> QED  BY <2>2, <2>3
<1>12. ReceiptsAgree'
  <2>1. ASSUME NEW y \in Txs, Live(y)'
        PROVE  (intent[receipt[y].by].status = "CONSUMED" /\ intent[receipt[y].by].receipt = y
                  /\ txlog[y] = receipt[y].by)'
    <3>1. CASE y = x
      <4>1. r.to = "FINALIZED" /\ receipt'[y].by = i
        BY <3>1, <2>1, <1>1, <1>4, <1>6 DEF Live
      <4>2. txlog[x] = i
        BY <1>0, <1>1, <1>2 DEF Inv, ReceiptsAgree, Live
      <4> QED  BY <3>1, <4>1, <4>2, <1>3, <1>7
    <3>2. CASE y # x
      <4>1. Live(y) /\ receipt'[y] = receipt[y]
        BY <3>2, <2>1, <1>6 DEF Live
      <4>2. /\ intent[receipt[y].by].status = "CONSUMED" /\ intent[receipt[y].by].receipt = y
            /\ txlog[y] = receipt[y].by
        BY <4>1 DEF Inv, ReceiptsAgree
      <4>3. receipt[y].by \in Intents /\ receipt[y].by # i
        BY <3>2, <4>1, <4>2, <1>3 DEF Inv, ReceiptsRest, Rests, Live
      <4> QED  BY <4>1, <4>2, <4>3, <1>7
    <3> QED  BY <3>1, <3>2
  <2>2. ASSUME NEW j \in Intents, intent'[j].status = "CONSUMED"
        PROVE  (intent[j].receipt \in Txs /\ Live(intent[j].receipt)
                  /\ receipt[intent[j].receipt].by = j)'
    <3>1. CASE j = i
      <4>1. r.to = "FINALIZED" /\ intent'[j] = intent[i]
        BY <3>1, <2>2, <1>1, <1>5, <1>7
      <4> QED  BY <3>1, <4>1, <1>1, <1>3, <1>4, <1>6 DEF Live
    <3>2. CASE j # i
      <4>1. /\ intent'[j] = intent[j] /\ intent[j].receipt \in Txs
            /\ Live(intent[j].receipt) /\ receipt[intent[j].receipt].by = j
        BY <3>2, <2>2, <1>7 DEF Inv, ReceiptsAgree
      <4>2. intent[j].receipt # x
        BY <3>2, <4>1, <1>0
      <4> QED  BY <4>1, <4>2, <1>6 DEF Live
    <3> QED  BY <3>1, <3>2
  <2> QED  BY <2>1, <2>2 DEF ReceiptsAgree
<1> QED  BY <1>9, <1>10, <1>11, <1>12 DEF Inv

LEMMA ReconcileCommitKeeps ==
  ASSUME Inv, NEW s \in Slots, ReconcileCommit(s)
  PROVE  Inv'
<1>0. PICK r : r = run[s]
  OBVIOUS
<1>1. r \in ReconcileCall /\ Knows(r)
  BY <1>0 DEF Inv, Typed, RunTyped, RunsKnow, ReconcileCommit, Idle, StoreCall, VerifyCall, ReconcileCall, Calls
<1>2. /\ run' = [q \in Slots |-> run'[q]]
      /\ \A q \in Slots : run'[q] \in {Idle, AfterSettled(run[q], r)}
      /\ job' \in {Idle, AfterSettled(job, r)}
      /\ Settled(r)
  BY <1>0 DEF ReconcileCommit
<1> QED  BY <1>1, <1>2, SettledKeeps DEF ReconcileCommit

LEMMA JobCommitsKeeps ==
  ASSUME Inv, JobCommits
  PROVE  Inv'
<1>0. PICK r : r = job
  OBVIOUS
<1>1. r \in ReconcileCall /\ Knows(r)
  BY <1>0 DEF Inv, Typed, RunTyped, RunsKnow, JobCommits, Idle, RemoveCall
<1> DEFINE z == [op |-> "zrem", tx |-> r.tx]
<1>2. /\ run' = [q \in Slots |-> run'[q]]
      /\ \A q \in Slots : run'[q] \in {Idle, AfterSettled(run[q], r)}
      /\ job' = z
      /\ Settled(r)
  BY <1>0 DEF JobCommits
<1>3. z \in RemoveCall
  BY <1>1 DEF ReconcileCall, RemoveCall
<1> QED  BY <1>1, <1>2, <1>3, SettledKeeps DEF JobCommits

LEMMA JobRemovesKeeps ==
  ASSUME Inv, JobRemoves \/ CrashJob
  PROVE  Inv'
<1>1. UNCHANGED <<intent, open, tupleLast, txlog, receipt, chain, run>> /\ job' = Idle /\ pending' \subseteq Txs
  BY DEF JobRemoves, CrashJob, store, Inv, Typed, StoreTyped
<1>2. Typed'
  BY <1>1 DEF Inv, Typed, ChainTyped, StoreTyped, RunTyped, chain
<1>3. ASSUME NEW r, Knows(r) PROVE Knows(r)'
  BY <1>1, <1>3, KnowsOn
<1>4. RunsKnow'
  <2>1. Knows(job)'
    BY <1>1, IdleKnows DEF Knows
  <2>2. ASSUME NEW q \in Slots PROVE Knows(run[q])'
    <3>1. PICK r : Knows(r) /\ run'[q] = r
      BY <1>1 DEF Inv, RunsKnow
    <3> QED  BY <3>1, <1>3 DEF Knows
  <2> QED  BY <2>1, <2>2 DEF RunsKnow
<1>5. ReceiptsRest'
  <2> SUFFICES ASSUME NEW x \in Txs PROVE Rests(x)'
    BY DEF ReceiptsRest
  <2>1. Rests(x)
    BY DEF Inv, ReceiptsRest
  <2> QED  BY <1>1, <2>1, RestsOn
<1>6. ReceiptsAgree'
  BY <1>1 DEF Inv, ReceiptsAgree, Live
<1> QED  BY <1>2, <1>4, <1>5, <1>6 DEF Inv

-----------------------------------------------------------------------------
(* The invariant.                                                          *)

LEMMA InitInv == Init => Inv
<1> SUFFICES ASSUME Init PROVE Inv
  OBVIOUS
<1>1. Typed
  <2>1. ChainTyped
    BY ReceiptsConstants DEF Init, ChainTyped, Blocks
  <2>2. StoreTyped
    BY DEF Init, StoreTyped, NoIntent, NoReceipt, NotOpen, Intent, Receipt, IntentStatuses,
           ReceiptStatuses
  <2>3. RunTyped
    BY DEF Init, RunTyped, Calls
  <2> QED  BY <2>1, <2>2, <2>3 DEF Typed
<1>2. RunsKnow
  BY IdleKnows DEF Init, RunsKnow
<1>3. ReceiptsRest
  BY DEF Init, ReceiptsRest, Rests, NoReceipt
<1>4. ReceiptsAgree
  BY DEF Init, ReceiptsAgree, NoReceipt, NoIntent, Live
<1> QED  BY <1>1, <1>2, <1>3, <1>4 DEF Inv

LEMMA StepInv == Inv /\ [Next]_vars => Inv'
<1> SUFFICES ASSUME Inv, [Next]_vars PROVE Inv'
  OBVIOUS
<1>1. CASE UNCHANGED vars
  <2>1. run' \in [Slots -> Calls] /\ job' \in {Idle} \cup ReconcileCall \cup RemoveCall
    BY <1>1 DEF vars, Inv, Typed, RunTyped
  <2> QED  BY <1>1, <2>1, ReadsKeep DEF vars
<1>2. CASE ChainStep
  <2>1. ChainMoves
    BY <1>2, TickMoves, SafeMoves, FinalisedMoves, MineMoves DEF ChainStep, Inv, Typed
  <2> QED  BY <1>2, <2>1, ChainKeeps DEF ChainStep, Tick, Safe, Finalised, Mine
<1>3. CASE \E n \in Blocks : Reorg(n)
  <2>1. ChainMoves
    BY <1>3, ReorgMoves DEF Inv, Typed
  <2> QED  BY <1>3, <2>1, ChainKeeps DEF Reorg
<1>4. CASE \E i \in Intents : IntentDraft(i)
  BY <1>4, IntentDraftKeeps
<1>5. CASE \E s \in Slots, i \in Intents : IntentStore(s, i)
  BY <1>5, IntentStoreKeeps
<1>6. CASE \E s \in Slots : IntentStoreCommit(s)
  BY <1>6, IntentStoreCommitKeeps
<1>7. CASE \E s \in Slots, i \in Intents, h \in Txs : Verify(s, i, h)
  BY <1>7, VerifyKeeps
<1>8. CASE \E s \in Slots, i \in Intents, x \in Txs : Finalize(s, i, x)
  BY <1>8, FinalizeKeeps
<1>9. CASE \E s \in Slots : SetIntentState(s)
  BY <1>9, SetIntentStateKeeps
<1>10. CASE \E s \in Slots, q \in QueueWrites : Finalise(s, q)
  BY <1>10, FinaliseKeeps
<1>11. CASE \E s \in Slots, x \in Txs : Reconcile(s, x)
  BY <1>11, ReconcileKeeps
<1>12. CASE \E s \in Slots : ReconcileCommit(s)
  BY <1>12, ReconcileCommitKeeps
<1>13. CASE \E x \in Txs : JobReads(x)
  BY <1>13, JobReadsKeeps
<1>14. CASE JobCommits
  BY <1>14, JobCommitsKeeps
<1>15. CASE JobRemoves \/ CrashJob
  BY <1>15, JobRemovesKeeps
<1> QED  BY <1>1, <1>2, <1>3, <1>4, <1>5, <1>6, <1>7, <1>8, <1>9, <1>10, <1>11, <1>12,
            <1>13, <1>14, <1>15 DEF Next

\* Every invocation knows what its commit relies on, and every receipt rests
\* on the chain and on the fields its fan signed.
THEOREM ReceiptsInvariant == Spec => []Inv
<1> QED  BY InitInv, StepInv, PTL DEF Spec

\* The records of early.js have their types whatever runs at a time.
THEOREM ReceiptTypes == Spec => []TypeOK
<1>1. Inv => TypeOK
  BY ReceiptsConstants DEF Inv, Typed, ChainTyped, StoreTyped, TypeOK, Intent, IntentStatuses, Receipt,
     ReceiptStatuses, Blocks
<1> QED  BY <1>1, ReceiptsInvariant, PTL

\* finalise and reconcile: a consumed intent, its live receipt and the claim
\* on its transfer name each other.
THEOREM ReceiptsAgreeAlways == Spec => []ReceiptsAgree
<1>1. Inv => ReceiptsAgree
  BY DEF Inv
<1> QED  BY <1>1, ReceiptsInvariant, PTL

\* A receipt that is FINALIZED is of a transfer in a final block.
THEOREM FinalReceipts == Spec => []FinalIsCanonical
<1>1. Inv => FinalIsCanonical
  BY DEF Inv, ReceiptsRest, Rests, Rooted, Seen, FinalIsCanonical
<1> QED  BY <1>1, ReceiptsInvariant, PTL

\* reconcile gives a receipt up only when its block is gone, and for good.
THEOREM InvalidReceipts == Spec => []InvalidatedIsGone
<1>1. Inv => InvalidatedIsGone
  BY DEF Inv, ReceiptsRest, Rests, Gone, InvalidatedIsGone
<1> QED  BY <1>1, ReceiptsInvariant, PTL

\* early-match.js: the transfer of a receipt satisfies its intent's window.
THEOREM FittingReceipts == Spec => []ReceiptFitsIntent
<1>1. Inv => ReceiptFitsIntent
  BY DEF Inv, ReceiptsRest, Rests, Fits, ReceiptFitsIntent
<1> QED  BY <1>1, ReceiptsInvariant, PTL

\* The claim finalise writes on a transfer is never another intent's.
THEOREM ClaimsAreKept == Spec => ClaimIsKept
<1>1. Inv /\ [Next]_vars => [\A x \in Txs : txlog[x] # None => txlog'[x] = txlog[x]]_vars
  <2> SUFFICES ASSUME Inv, Next, NEW x \in Txs, txlog[x] # None PROVE txlog'[x] = txlog[x]
    OBVIOUS
  <2>1. CASE \E s \in Slots, q \in QueueWrites : Finalise(s, q)
    BY <2>1 DEF Finalise, MayClaim, Inv, Typed, StoreTyped
  <2>2. CASE UNCHANGED txlog
    BY <2>2
  <2> QED
    BY <2>1, <2>2 DEF Next, ChainStep, Tick, Safe, Finalised, Mine, Reorg, IntentDraft, IntentStore,
       IntentStoreCommit, Verify, Finalize, SetIntentState, Reconcile, ReconcileCommit, JobReads,
       JobCommits, JobRemoves, CrashJob, store
<1> QED  BY <1>1, ReceiptsInvariant, PTL DEF ClaimIsKept, Spec
===============================================================================
