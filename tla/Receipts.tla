------------------------------- MODULE Receipts -------------------------------
(***************************************************************************)
(* Support intents and receipts of SYNC Proof                              *)
(* (netlify/functions/early.js, netlify/lib/early-match.js), with the part  *)
(* of the hourly job that settles receipts (netlify/functions/             *)
(* early-snapshot.js).  A fan drafts an intent, signs it, has it stored and *)
(* only then sends the transfer; anyone may ask for the match to be         *)
(* verified.  A receipt is created by one compare-and-set and is final once *)
(* the chain is.                                                           *)
(*                                                                         *)
(* An invocation reads, asks the chain and commits; between its reads and   *)
(* its commit others run, transfers are mined and the chain may reorganise. *)
(* A compare-and-set expects the raw records that were read; they carry     *)
(* timestamps, so no value comes back, and an invocation whose record was   *)
(* written meanwhile can commit nothing any more: it ends there.            *)
(*                                                                         *)
(* The intents are those of one tuple (sender, receiver, token, amount):   *)
(* keys, windows and matches of different tuples have nothing in common.    *)
(* The creator's manifest is CreatorIdentity's.  A transfer is a Transfer   *)
(* log; its block's number is its timestamp and the server's clock runs     *)
(* with the chain's.  A SupportFinalize has a nonce of its own each time.   *)
(***************************************************************************)
EXTENDS Integers, FiniteSets

CONSTANTS
  Intents, Txs,
  Slots,            \* invocations that may run at a time
  Window,           \* INTENT_WINDOW_S
  Slack,            \* INTENT_NOT_BEFORE_SLACK_S
  Skew,             \* MAX_SKEW_S
  Grace,            \* RECOVERY_GRACE_S
  DraftTtl,         \* DRAFT_TTL_S
  MaxTime, MaxReorgs,    \* bounds
  Crashing,         \* whether the job may be stopped half-way
  QueueWrites,      \* what may become of the write to the queue
  None

ASSUME ReceiptsConstants ==
  /\ {Window, Slack, Skew, Grace, DraftTtl, MaxTime, MaxReorgs} \subseteq Nat
  /\ Crashing \in BOOLEAN /\ QueueWrites \subseteq BOOLEAN
  /\ Slack < Window /\ MaxTime > 0
  /\ None \notin Intents \cup Txs

VARIABLES
  clock,            \* the head of the chain and the server's time
  mined,            \* transfer -> its block in the canonical chain, 0: none
  branch,           \* block -> its hash, the number of the reorganisation that made it
  safe, final,      \* the chain's tags
  reorgs,
  intent,           \* K.draft and K.intent
  open,             \* K.open of the tuple: the intent and the end of its TTL
  tupleLast,        \* K.tupleLast of the tuple
  txlog,            \* K.txlog: transfer -> the intent that claimed it
  receipt,          \* K.receipt: transfer -> its receipt
  pending,          \* K.pendingFinal
  run,              \* slot -> what the invocation has read
  job              \* the receipt the scheduled job is settling, and what it read

chain  == <<clock, mined, branch, safe, final, reorgs>>
store  == <<intent, open, tupleLast, txlog, receipt, pending>>
vars   == <<chain, store, run, job>>

Blocks == 1 .. MaxTime
Idle   == [op |-> "idle"]
NoIntent  == [status |-> "NONE", nb |-> 0, exp |-> 0, made |-> 0, created |-> 0, receipt |-> None]
NoReceipt == [status |-> "NONE", by |-> None, block |-> 0, hash |-> 0, mode |-> "none"]
NotOpen   == [id |-> None, until |-> 0]

Init ==
  /\ clock = 1 /\ safe = 0 /\ final = 0 /\ reorgs = 0
  /\ mined = [x \in Txs |-> 0]
  /\ branch = [n \in Blocks |-> 0]
  /\ intent = [i \in Intents |-> NoIntent]
  /\ open = NotOpen
  /\ tupleLast = 0
  /\ txlog = [x \in Txs |-> None]
  /\ receipt = [x \in Txs |-> NoReceipt]
  /\ pending = {}
  /\ run = [s \in Slots |-> Idle]
  /\ job = Idle

-----------------------------------------------------------------------------
(* Robinhood Chain.                                                        *)

Tick ==
  /\ clock < MaxTime
  /\ clock' = clock + 1
  /\ UNCHANGED <<mined, branch, safe, final, reorgs, store, run, job>>

\* The fan sends the exact amount at any time; the wallet shows no more than that.
Mine(x) ==
  /\ mined[x] = 0
  /\ mined' = [mined EXCEPT ![x] = clock]
  /\ UNCHANGED <<clock, branch, safe, final, reorgs, store, run, job>>

Safe ==
  /\ safe < clock
  /\ safe' = clock
  /\ UNCHANGED <<clock, mined, branch, final, reorgs, store, run, job>>

Finalised ==
  /\ final < safe
  /\ final' = safe
  /\ UNCHANGED <<clock, mined, branch, safe, reorgs, store, run, job>>

\* The blocks from n on are replaced; each of their transfers is included
\* again at its height or falls out of the chain.  Finalised blocks stay.
Reorg(n) ==
  /\ reorgs < MaxReorgs
  /\ final < n /\ n <= clock
  /\ reorgs' = reorgs + 1
  /\ branch' = [b \in Blocks |-> IF b >= n THEN reorgs + 1 ELSE branch[b]]
  /\ safe' = IF safe >= n THEN n - 1 ELSE safe
  /\ \E out \in SUBSET {x \in Txs : mined[x] >= n} :
       mined' = [x \in Txs |-> IF x \in out THEN 0 ELSE mined[x]]
  /\ UNCHANGED <<clock, final, store, run, job>>

-----------------------------------------------------------------------------
(* Matching (early-match.js over syncnet-early.js).                        *)

WindowState(m, ts) ==
  CASE ts < m.nb -> "early"
    [] m.nb <= ts /\ ts <= m.exp -> "in-window"
    [] m.exp < ts /\ ts <= m.exp + Grace -> "late"
    [] OTHER -> "out"

Follows_SameBlock(m, x) == mined[x] # 0 /\ mined[x] >= m.created

\* The transfer is in the canonical chain, after the block the intent was stored at.
Follows(m, x) == mined[x] # 0 /\ mined[x] > m.created

InWindow(m) == {x \in Txs : Follows(m, x) /\ WindowState(m, mined[x]) = "in-window"}
Late(m, hint) == {x \in Txs : x = hint /\ Follows(m, x) /\ WindowState(m, mined[x]) = "late"}

Candidate_AtSafe(x) == [tx |-> x, block |-> mined[x], hash |-> branch[mined[x]], finalized |-> mined[x] <= safe]

\* What a candidate carries from the sweep into the receipt.
Candidate(x) == [tx |-> x, block |-> mined[x], hash |-> branch[mined[x]], finalized |-> mined[x] <= final]

-----------------------------------------------------------------------------
(* Invocations and the records they read.                                   *)

StaleIntent_NotExpected(r, i) == r
StaleReceipt_NotExpected(r, x) == r

\* A write of intent i, or of the receipt of x, ends those that hold it.
StaleIntent(r, i)  == IF r.op \in {"store", "verify"} /\ r.id = i THEN Idle ELSE r
StaleReceipt(r, x) == IF r.op = "reconcile" /\ r.tx = x THEN Idle ELSE r

Frees(s) == [run EXCEPT ![s] = Idle]

\* The platform stops the job: its run lock expires and the next run begins
\* anew.  A request that is stopped is one whose commit is never taken.
CrashJob ==
  /\ Crashing
  /\ job # Idle
  /\ job' = Idle
  /\ UNCHANGED <<chain, store, run>>

-----------------------------------------------------------------------------
(* intentDraft and intentStore.                                            *)

\* The draft is one compare-and-set on its own new key after plain reads, so
\* it is one step; its window starts after the tuple's last one.
IntentDraft(i) ==
  LET nb == IF clock - Slack >= tupleLast + 1 THEN clock - Slack ELSE tupleLast + 1
  IN /\ intent[i].status = "NONE"
     /\ ~(open.id # None /\ clock < open.until)
     /\ nb <= clock
     /\ intent' = [intent EXCEPT ![i] =
          [NoIntent EXCEPT !.status = "DRAFT", !.nb = nb, !.exp = nb + Window, !.made = clock]]
     /\ UNCHANGED <<open, tupleLast, txlog, receipt, pending, chain, run, job>>

\* The draft and the head of the chain, read before the commit.
IntentStore(s, i) ==
  /\ run[s] = Idle
  /\ intent[i].status = "DRAFT"
  /\ clock < intent[i].made + DraftTtl
  /\ clock < intent[i].exp
  /\ run' = [run EXCEPT ![s] = [op |-> "store", id |-> i, created |-> clock]]
  /\ UNCHANGED <<chain, store, job>>

\* expect: the draft as read, no open intent of the tuple, no intent.
IntentStoreCommit(s) ==
  LET i == run[s].id
  IN /\ run[s].op = "store"
     /\ IF /\ clock < intent[i].made + DraftTtl
           /\ ~(open.id # None /\ clock < open.until)
        THEN /\ intent' = [intent EXCEPT ![i].status = "OPEN", ![i].created = run[s].created]
             /\ open' = [id |-> i, until |-> intent[i].exp + Skew]
             /\ tupleLast' = intent[i].exp
             /\ run' = [q \in Slots |-> IF q = s THEN Idle ELSE StaleIntent(run[q], i)]
        ELSE /\ run' = Frees(s)
             /\ UNCHANGED <<intent, open, tupleLast>>
     /\ UNCHANGED <<txlog, receipt, pending, chain, job>>

-----------------------------------------------------------------------------
(* verify and finalize.                                                    *)

\* What verify makes of the chain: the candidate it will finalise, or the
\* status it will write (its own, when only what was observed is recorded).
Verdict(m, hint) ==
  LET in == InWindow(m)
      x  == CHOOSE y \in in : TRUE
  IN CASE Cardinality(in) >= 2 -> [do |-> "AMBIGUOUS"]
       [] Cardinality(in) = 1 /\ mined[x] > safe ->
            [do |-> IF m.status = "AMBIGUOUS" THEN "OPEN" ELSE m.status]
       [] Cardinality(in) = 1 /\ mined[x] <= safe ->
            [do |-> "finalise", cand |-> Candidate(x), mode |-> "auto"]
       [] in = {} /\ clock <= m.exp + Skew -> [do |-> "nothing"]
       [] in = {} /\ clock > m.exp + Skew /\ Late(m, hint) # {} -> [do |-> "RECOVERY_AVAILABLE"]
       [] OTHER -> IF clock > m.exp + Grace THEN [do |-> "CLOSED"]
                   ELSE IF m.status = "EXPIRED" THEN [do |-> "nothing"] ELSE [do |-> "EXPIRED"]

Stored == {"OPEN", "AMBIGUOUS", "RECOVERY_AVAILABLE", "EXPIRED", "REORGED"}

\* The intent and the sweep; hint is the transaction the client names.  One
\* that only records again what it has observed is left out.
Verify(s, i, hint) ==
  LET v == Verdict(intent[i], hint)
  IN /\ run[s] = Idle
     /\ intent[i].status \in Stored
     /\ v.do \notin {"nothing", intent[i].status}
     /\ run' = [run EXCEPT ![s] = [op |-> "verify", id |-> i, v |-> v]]
     /\ UNCHANGED <<chain, store, job>>

\* SupportFinalize names one transfer; the sweep is made again.
Finalize(s, i, x) ==
  LET m == intent[i]
      w == WindowState(m, mined[x])
  IN /\ run[s] = Idle
     /\ m.status \in Stored \ {"OPEN"}
     /\ Follows(m, x)
     /\ w \in {"in-window", "late"}
     /\ w = "in-window" => m.status \in {"AMBIGUOUS", "REORGED"}
     /\ mined[x] <= safe
     /\ run' = [run EXCEPT ![s] = [op |-> "verify", id |-> i,
          v |-> [do |-> "finalise", cand |-> Candidate(x),
                 mode |-> IF w = "late" THEN "recovery-finalized" ELSE "ambiguous-finalized"]]]
     /\ UNCHANGED <<chain, store, job>>

\* setIntentState.
SetIntentState(s) ==
  LET i == run[s].id
  IN /\ run[s].op = "verify" /\ run[s].v.do # "finalise"
     /\ intent' = [intent EXCEPT ![i].status = run[s].v.do]
     /\ run' = [q \in Slots |-> IF q = s THEN Idle ELSE StaleIntent(run[q], i)]
     /\ UNCHANGED <<open, tupleLast, txlog, receipt, pending, chain, job>>

MayClaim_NoClaim(i, x) == receipt[x].status \in {"NONE", "INVALIDATED_BY_REORG"}

MayClaim(i, x) == txlog[x] \in {None, i} /\ receipt[x].status \in {"NONE", "INVALIDATED_BY_REORG"}

\* The critical transition: the claim and the receipt are read, checked and
\* expected as read, so reading them and the compare-and-set are one step.
\* The queue of receipts to settle is written afterwards; a failure there is logged.
Finalise(s, queued) ==
  LET i == run[s].id
      c == run[s].v.cand
      status == IF c.finalized THEN "FINALIZED" ELSE "CONFIRMED"
  IN /\ run[s].op = "verify" /\ run[s].v.do = "finalise"
     /\ IF MayClaim(i, c.tx)
        THEN /\ txlog' = [txlog EXCEPT ![c.tx] = i]
             /\ intent' = [intent EXCEPT ![i].status = "CONSUMED", ![i].receipt = c.tx]
             /\ receipt' = [receipt EXCEPT ![c.tx] =
                  [status |-> status, by |-> i, block |-> c.block, hash |-> c.hash, mode |-> run[s].v.mode]]
             /\ open' = NotOpen
             /\ tupleLast' = c.block
             /\ pending' = IF queued /\ status = "CONFIRMED" THEN pending \cup {c.tx} ELSE pending
             /\ run' = [q \in Slots |-> IF q = s THEN Idle
                                        ELSE StaleReceipt(StaleIntent(run[q], i), c.tx)]
             /\ job' = StaleReceipt(job, c.tx)
        ELSE /\ run' = Frees(s)
             /\ UNCHANGED <<txlog, intent, receipt, open, tupleLast, pending, job>>
     /\ UNCHANGED <<chain>>

-----------------------------------------------------------------------------
(* reconcile, by the fan's page or by the job.                              *)

\* The chain's answer: two agreeing reads before a receipt is given up.
Settles(x) ==
  LET r == receipt[x]
  IN CASE branch[r.block] # r.hash -> "INVALIDATED_BY_REORG"
       [] branch[r.block] = r.hash /\ r.block <= final -> "FINALIZED"
       [] OTHER -> "CONFIRMED"

Reading(x) == [op |-> "reconcile", tx |-> x, to |-> Settles(x)]

Reconcile(s, x) ==
  /\ run[s] = Idle
  /\ receipt[x].status = "CONFIRMED"
  /\ intent[receipt[x].by].receipt = x
  /\ Settles(x) # "CONFIRMED"
  /\ run' = [run EXCEPT ![s] = Reading(x)]
  /\ UNCHANGED <<chain, store, job>>

\* One compare-and-set on the receipt and, when it is given up, its intent,
\* which is read after the chain.
Settled(r) ==
  LET x == r.tx
      i == receipt[x].by
  IN /\ receipt' = [receipt EXCEPT ![x].status = r.to]
     /\ intent' = IF r.to = "FINALIZED" THEN intent
                  ELSE [intent EXCEPT ![i].status = "REORGED", ![i].receipt = None]

\* What the others hold after it.
AfterSettled(q, r) ==
  StaleReceipt(IF r.to = "FINALIZED" THEN q ELSE StaleIntent(q, receipt[r.tx].by), r.tx)

ReconcileCommit(s) ==
  /\ run[s].op = "reconcile"
  /\ Settled(run[s])
  /\ run' = [q \in Slots |-> IF q = s THEN Idle ELSE AfterSettled(run[q], run[s])]
  /\ job' = AfterSettled(job, run[s])
  /\ UNCHANGED <<open, tupleLast, txlog, pending, chain>>

\* The job takes the queued receipts one after another under its run lock.
JobReads(x) ==
  /\ job = Idle
  /\ x \in pending
  /\ receipt[x].status = "CONFIRMED" => Settles(x) # "CONFIRMED"
  /\ job' = IF receipt[x].status = "CONFIRMED" THEN Reading(x) ELSE [op |-> "zrem", tx |-> x]
  /\ UNCHANGED <<chain, store, run>>

\* A receipt whose compare-and-set fails stays queued for the next run.
JobCommits ==
  /\ job.op = "reconcile"
  /\ Settled(job)
  /\ run' = [q \in Slots |-> AfterSettled(run[q], job)]
  /\ job' = [op |-> "zrem", tx |-> job.tx]
  /\ UNCHANGED <<open, tupleLast, txlog, pending, chain>>

\* One found settled, or settled now, then leaves the queue.
JobRemoves ==
  /\ job.op = "zrem"
  /\ pending' = pending \ {job.tx}
  /\ job' = Idle
  /\ UNCHANGED <<intent, open, tupleLast, txlog, receipt, chain, run>>

-----------------------------------------------------------------------------
ChainStep == Tick \/ Safe \/ Finalised \/ \E x \in Txs : Mine(x)

Next ==
  \/ ChainStep
  \/ \E n \in Blocks : Reorg(n)
  \/ \E i \in Intents : IntentDraft(i)
  \/ \E s \in Slots, i \in Intents : IntentStore(s, i)
  \/ \E s \in Slots : IntentStoreCommit(s)
  \/ \E s \in Slots, i \in Intents, h \in Txs : Verify(s, i, h)
  \/ \E s \in Slots, i \in Intents, x \in Txs : Finalize(s, i, x)
  \/ \E s \in Slots : SetIntentState(s)
  \/ \E s \in Slots, q \in QueueWrites : Finalise(s, q)
  \/ \E s \in Slots, x \in Txs : Reconcile(s, x)
  \/ \E s \in Slots : ReconcileCommit(s)
  \/ \E x \in Txs : JobReads(x)
  \/ JobCommits
  \/ JobRemoves
  \/ CrashJob

\* The chain goes on, and the job runs every hour: while it has a receipt it
\* can settle it takes it, and what it has begun it ends.
Fairness ==
  /\ WF_vars(Safe) /\ WF_vars(Finalised)
  /\ \A x \in Txs : WF_vars(JobReads(x))
  /\ WF_vars(JobCommits) /\ WF_vars(JobRemoves)

Spec == Init /\ [][Next]_vars /\ Fairness

-----------------------------------------------------------------------------
(* What holds of it.                                                       *)

Live(x) == receipt[x].status \in {"CONFIRMED", "FINALIZED"}

TypeOK ==
  /\ clock \in Blocks /\ safe \in 0 .. clock /\ final \in 0 .. clock
  /\ mined \in [Txs -> 0 .. MaxTime]
  /\ \A i \in Intents : intent[i].status \in Stored \cup {"NONE", "DRAFT", "CLOSED", "CONSUMED"}
  /\ open.id \in Intents \cup {None}
  /\ txlog \in [Txs -> Intents \cup {None}]
  /\ \A x \in Txs : receipt[x].status \in {"NONE", "CONFIRMED", "FINALIZED", "INVALIDATED_BY_REORG"}
  /\ pending \subseteq Txs

\* An intent that is consumed and the live receipt it names name each other,
\* and the transfer is claimed for that intent: the three keys finalise writes,
\* and reconcile's two, never disagree whatever ran between read and commit.
ReceiptsAgree ==
  /\ \A x \in Txs : Live(x) =>
       /\ intent[receipt[x].by].status = "CONSUMED"
       /\ intent[receipt[x].by].receipt = x
       /\ txlog[x] = receipt[x].by
  /\ \A i \in Intents : intent[i].status = "CONSUMED" =>
       intent[i].receipt \in Txs /\ Live(intent[i].receipt) /\ receipt[intent[i].receipt].by = i

\* A final receipt is of a transfer in a block that can no longer be
\* replaced, although the chain was read before the commit.
FinalIsCanonical ==
  \A x \in Txs : receipt[x].status = "FINALIZED" =>
    mined[x] = receipt[x].block /\ mined[x] <= final /\ branch[mined[x]] = receipt[x].hash

\* A receipt is given up only when its block is gone from the chain.
InvalidatedIsGone ==
  \A x \in Txs : receipt[x].status = "INVALIDATED_BY_REORG" =>
    branch[receipt[x].block] # receipt[x].hash

\* A receipt's transfer was mined after the block its intent was stored at
\* and in the window its mode needs: signed fields that no later write moves.
ReceiptFitsIntent ==
  \A x \in Txs : receipt[x].status # "NONE" =>
    LET r == receipt[x] m == intent[r.by]
    IN /\ r.block > m.created
       /\ WindowState(m, r.block) = (IF r.mode = "recovery-finalized" THEN "late" ELSE "in-window")

\* A transfer that was once claimed is never claimed for another intent.
ClaimIsKept == [][\A x \in Txs : txlog[x] # None => txlog'[x] = txlog[x]]_vars

\* finalise: "the scheduled job reconciles it; the UI can too".
ConfirmedIsSettled ==
  \A x \in Txs : receipt[x].status = "CONFIRMED" ~> receipt[x].status # "CONFIRMED"

\* docs/sync-proof-early-spec.md, 7.3: the windows of same-tuple intents are
\* disjoint, so one transfer can satisfy at most one intent's window.
OneIntentPerTransfer ==
  \A x \in Txs : Cardinality({i \in Intents : intent[i].status = "OPEN" /\ x \in InWindow(intent[i])}) <= 1
=============================================================================
