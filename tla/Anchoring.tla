------------------------------ MODULE Anchoring ------------------------------
(***************************************************************************)
(* The daily bundle of attestations and its anchors                         *)
(* (netlify/lib/early-attest.js, netlify/functions/early-anchor.js,         *)
(* netlify/lib/early-tx.js).                                                *)
(*                                                                         *)
(* Requests issue attestations: they read the date of the bundle that is    *)
(* open and queue a leaf for it with their own write.  Scheduled runs build  *)
(* the bundles of the days that are over, send one transaction for each     *)
(* root and submit the root to OpenTimestamps.  Runs may crash, and may live *)
(* into the unit of time after the one they started in, longer than their    *)
(* lock, so two may work at a time: what holds rests on the compare-and-set   *)
(* of the bundle.  The last day does not end, so that the schedule goes on.   *)
(* A request ends before a unit of time has passed, so one that has read     *)
(* the date before midnight may write after it, in the first unit of the    *)
(* day; runs do not start in that one (20 and 50 minutes past the hour).    *)
(* The chain may reorganise: its last transaction returns to the pool or is *)
(* forgotten.                                                               *)
(***************************************************************************)
EXTENDS Integers, FiniteSets, FiniteSetsExt

CONSTANTS
  Attestations, Runs,
  DayLength,         \* units of time in a day
  LastDay,           \* bound
  LockTtl,           \* LOCK_SECONDS
  Wait,              \* PENDING_TX_WAIT_S
  Drops,             \* bound: transactions the network forgets or takes out of their block
  Late,              \* bound: transactions that wait longer than Wait
  Faults             \* bound: crashes, missed deadlines, failed calls

\* A run ends before an attempt of its own has waited for too long.
ASSUME AnchoringConstants ==
  /\ {DayLength, LastDay, LockTtl, Wait, Drops, Late, Faults} \subseteq Nat
  /\ DayLength > 1 /\ Wait > 1

Days == 0 .. LastDay

VARIABLES
  day, phase,        \* the clock
  held,              \* dates of the open bundle that requests at work have read
  queue,             \* day -> the attestations queued for it
  bundle,            \* K.bundle: day -> leaves, anchors.robinhood, anchors.opentimestamps
  age,               \* day -> time since sentAt, as far as Wait
  lock,              \* K.lock: the time it has left
  run,               \* run -> where its handler is
  old,               \* the runs that started in the last unit of time
  pool, mined,       \* the anchor address' transactions: not yet, and in a block
  orphaned,          \* what was in a block and no longer is (read by no one)
  left               \* what is left of the bounds

vars == <<day, phase, held, queue, bundle, age, lock, run, old, pool, mined, orphaned, left>>

NoBundle == [leaves |-> {}, status |-> "none", nonce |-> 0, attempts |-> 0, ots |-> "none"]
Idle     == [pc |-> "idle"]

Init ==
  /\ day = 0 /\ phase = 0
  /\ held = {} /\ queue = [d \in Days |-> {}]
  /\ bundle = [d \in Days |-> NoBundle]
  /\ age = [d \in Days |-> 0]
  /\ lock = 0
  /\ run = [r \in Runs |-> Idle] /\ old = {}
  /\ pool = {} /\ mined = {} /\ orphaned = {}
  /\ left = [drops |-> Drops, late |-> Late, faults |-> Faults]

Built(d) == bundle[d].leaves # {}

-----------------------------------------------------------------------------
(* Time and the network.                                                   *)

\* The transaction of the attempt that is recorded for the day.
Attempt(d) == [d |-> d, k |-> bundle[d].attempts, nonce |-> bundle[d].nonce]

\* Days whose attempt is about to have waited for too long although the
\* network could go on with what it has.
Overdue == {d \in Days : /\ bundle[d].status = "sent" /\ age[d] = Wait - 1
                         /\ Attempt(d) \in pool /\ \E x \in pool : x.nonce = Cardinality(mined)}

Tick ==
  /\ Cardinality(Overdue) <= left.late
  /\ old = {}
  /\ old' = {r \in Runs : run[r] # Idle}
  /\ IF phase < DayLength - 1 THEN phase' = phase + 1 /\ day' = day
     ELSE IF day < LastDay THEN phase' = 0 /\ day' = day + 1
     ELSE UNCHANGED <<phase, day>>
  /\ held' = {d \in held : d >= day}
  /\ UNCHANGED queue
  /\ age' = [d \in Days |-> IF bundle[d].status = "sent" /\ age[d] < Wait THEN age[d] + 1 ELSE age[d]]
  /\ lock' = IF lock > 0 THEN lock - 1 ELSE 0
  /\ left' = [left EXCEPT !.late = @ - Cardinality(Overdue)]
  /\ UNCHANGED <<bundle, run, pool, mined, orphaned>>

Mine ==
  /\ \E x \in pool, ok \in BOOLEAN :
       /\ x.nonce = Cardinality(mined)
       /\ ok \/ left.faults > 0
       /\ pool' = pool \ {x}
       /\ mined' = mined \cup {[tx |-> x, ok |-> ok]}
       /\ left' = IF ok THEN left ELSE [left EXCEPT !.faults = @ - 1]
  /\ UNCHANGED <<day, phase, held, queue, bundle, age, lock, run, old, orphaned>>

\* A reorganisation takes out the address' last transaction.
Reorg ==
  /\ left.drops > 0
  /\ \E m \in mined :
       /\ m.tx.nonce = Cardinality(mined) - 1
       /\ mined' = mined \ {m} /\ orphaned' = orphaned \cup {m}
       /\ pool' \in {pool, pool \cup {m.tx}}
  /\ left' = [left EXCEPT !.drops = @ - 1]
  /\ UNCHANGED <<day, phase, held, queue, bundle, age, lock, run, old>>

Drop ==
  /\ left.drops > 0
  /\ \E x \in pool : pool' = pool \ {x}
  /\ left' = [left EXCEPT !.drops = @ - 1]
  /\ UNCHANGED <<day, phase, held, queue, bundle, age, lock, run, old, mined, orphaned>>

\* eth_getTransactionCount at the pending block.
PendingNonce ==
  Min({n \in Cardinality(mined) .. Cardinality(mined) + Cardinality(pool) : \A x \in pool : x.nonce # n})

-----------------------------------------------------------------------------
(* Issuing: bundleDateFor, then the writes of writesFor in the caller's own   *)
(* compare-and-set.                                                         *)

BundleDate == Min({d \in Days : d >= day /\ ~Built(d)})

\* Those of the last day, which does not end, are left out.
IssueReads ==
  /\ day < LastDay
  /\ held' = held \cup {BundleDate}
  /\ UNCHANGED <<day, phase, queue, bundle, age, lock, run, old, pool, mined, orphaned, left>>

\* Attestations are alike: the next one is any that is left.  Others that read
\* the same date may still be at work.
IssueCommits ==
  LET rest == Attestations \ UNION {queue[d] : d \in Days}
  IN /\ rest # {}
     /\ \E d \in held : queue' = [queue EXCEPT ![d] = @ \cup {CHOOSE a \in rest : TRUE}]
     /\ UNCHANGED <<day, phase, held, bundle, age, lock, run, old, pool, mined, orphaned, left>>

-----------------------------------------------------------------------------
(* A run of the job.                                                       *)

Goes(r, s) == run' = [run EXCEPT ![r] = s] /\ old' = IF s = Idle THEN old \ {r} ELSE old
At(pc, d, today) == [pc |-> pc, d |-> d, today |-> today]

\* A pass over the bundles of the days before today, newest first.
Down(pc, d, today, then) == IF d >= 0 THEN At(pc, d, today) ELSE then

\* Then the next bundle, and after the last one the upgrades.
Ends(s)         == At("end", 0, s.today)
AfterBuild(s)   == Down("anchor", s.today - 1, s.today, Ends(s))
AfterSubmit(s)  == Down("anchor", s.d - 1, s.today, At("upgrade", s.today - 1, s.today))
AfterUpgrade(s) == Down("upgrade", s.d - 1, s.today, Ends(s))
AfterAnchor(s)  == At("submit", s.d, s.today)

\* Mutation of Start: runs are scheduled at any time.
Start_AnyTime(r) ==
  /\ run[r] = Idle
  /\ lock = 0
  /\ lock' = LockTtl
  /\ Goes(r, At("build", 0, day))
  /\ UNCHANGED <<day, phase, held, queue, bundle, age, pool, mined, orphaned, left>>

\* The schedule, and a compare-and-set of the lock.
Start(r) ==
  /\ run[r] = Idle /\ phase > 0
  /\ lock = 0
  /\ lock' = LockTtl
  /\ Goes(r, At("build", 0, day))
  /\ UNCHANGED <<day, phase, held, queue, bundle, age, pool, mined, orphaned, left>>

\* The lock is deleted, whose it may be.
End(r) ==
  /\ run[r].pc = "end"
  /\ lock' = 0
  /\ Goes(r, Idle)
  /\ UNCHANGED <<day, phase, held, queue, bundle, age, pool, mined, orphaned, left>>

\* The run is stopped; its lock stays.
Crash(r) ==
  /\ run[r] # Idle /\ left.faults > 0
  /\ Goes(r, Idle)
  /\ left' = [left EXCEPT !.faults = @ - 1]
  /\ UNCHANGED <<day, phase, held, queue, bundle, age, lock, pool, mined, orphaned>>

\* The deadline, asked before every bundle, ends the loops.
Deadline(r) ==
  /\ run[r].pc \in {"build", "anchor", "upgrade"} /\ left.faults > 0
  /\ Goes(r, Ends(run[r]))
  /\ left' = [left EXCEPT !.faults = @ - 1]
  /\ UNCHANGED <<day, phase, held, queue, bundle, age, lock, pool, mined, orphaned>>

-----------------------------------------------------------------------------
(* buildBundle, for every day before today, oldest first.                   *)

\* The day has not ended.
NotOver(s) == s.d >= s.today

BuildReads(r) ==
  LET s == run[r]
  IN /\ s.pc = "build"
     /\ Goes(r, IF NotOver(s) THEN AfterBuild(s)
                ELSE IF Built(s.d) \/ queue[s.d] = {} THEN [s EXCEPT !.d = @ + 1]
                ELSE [pc |-> "freeze", d |-> s.d, today |-> s.today, leaves |-> queue[s.d]])
     /\ UNCHANGED <<day, phase, held, queue, bundle, age, lock, pool, mined, orphaned, left>>

BuildCommits(r) ==
  LET s == run[r]
  IN /\ s.pc = "freeze"
     /\ bundle' = IF Built(s.d) THEN bundle ELSE [bundle EXCEPT ![s.d].leaves = s.leaves]
     /\ Goes(r, At("build", s.d + 1, s.today))
     /\ UNCHANGED <<day, phase, held, queue, age, lock, pool, mined, orphaned, left>>

-----------------------------------------------------------------------------
(* anchorOnChain.                                                          *)

Receipts(d) == {m \in mined : m.tx = Attempt(d)}

\* Mutation of Waits: an attempt that was sent is never given up.
Waits_Forever(d) == bundle[d].status = "sent"

\* An attempt that has a receipt is settled; one that has not waits.
Waits(d) == bundle[d].status = "sent" /\ age[d] < Wait

\* The record of a new attempt.
Marked(b, nonce) == [b EXCEPT !.status = "sent", !.nonce = nonce, !.attempts = @ + 1]

\* What the run will write: the settled attempt, or the new one.
AnchorNext(d) ==
  IF bundle[d].status = "sent" /\ Receipts(d) # {}
  THEN [bundle[d] EXCEPT !.status = IF \E m \in Receipts(d) : m.ok THEN "confirmed" ELSE "failed"]
  ELSE Marked(bundle[d], PendingNonce)

\* The bundle, the receipt, the nonce and the prices are read.
AnchorReads(r) ==
  LET s == run[r]
      skip == ~Built(s.d) \/ bundle[s.d].status = "confirmed" \/ (Waits(s.d) /\ Receipts(s.d) = {})
  IN /\ s.pc = "anchor"
     /\ Goes(r, IF skip THEN AfterAnchor(s)
                ELSE [pc |-> "mark", d |-> s.d, today |-> s.today, raw |-> bundle[s.d], next |-> AnchorNext(s.d)])
     /\ UNCHANGED <<day, phase, held, queue, bundle, age, lock, pool, mined, orphaned, left>>

\* A read fails, or the price is above the ceiling: nothing is recorded.
AnchorThrows(r) ==
  /\ run[r].pc \in {"anchor", "send"} /\ left.faults > 0
  /\ Goes(r, AfterAnchor(run[r]))
  /\ left' = [left EXCEPT !.faults = @ - 1]
  /\ UNCHANGED <<day, phase, held, queue, bundle, age, lock, pool, mined, orphaned>>

\* Mutation of Expected: written whatever the bundle is by now.
Expected_Any(s) == Built(s.d)

Expected(s) == bundle[s.d] = s.raw

\* The attempt is recorded before it is sent.
AnchorMarks(r) ==
  LET s == run[r]
  IN /\ s.pc = "mark"
     /\ IF Expected(s)
        THEN /\ bundle' = [bundle EXCEPT ![s.d] = s.next]
             /\ age' = [age EXCEPT ![s.d] = 0]
             /\ Goes(r, IF s.next.status = "sent" THEN [s EXCEPT !.pc = "send"] ELSE AfterAnchor(s))
        ELSE Goes(r, AfterAnchor(s)) /\ UNCHANGED <<bundle, age>>
     /\ UNCHANGED <<day, phase, held, queue, lock, pool, mined, orphaned, left>>

\* A node takes one transaction for a nonce and none for a nonce that is past.
Accepted(s) == s.next.nonce >= Cardinality(mined) /\ \A x \in pool : x.nonce # s.next.nonce

\* Mutation of Send: any error frees the attempt.
Send_AnyError(r) ==
  LET s == run[r]
  IN /\ s.pc = "send"
     /\ pool' = IF Accepted(s)
                THEN pool \cup {[d |-> s.d, k |-> s.next.attempts, nonce |-> s.next.nonce]} ELSE pool
     /\ \/ Goes(r, AfterAnchor(s)) /\ UNCHANGED left
        \/ /\ left.faults > 0
           /\ left' = [left EXCEPT !.faults = @ - 1]
           /\ Goes(r, [s EXCEPT !.pc = "refused"])
     /\ UNCHANGED <<day, phase, held, queue, bundle, age, lock, mined, orphaned>>

\* eth_sendRawTransaction: taken, even if the answer is lost, or refused; a
\* refusal for the fee, which the node that does not know the transaction
\* gives, frees the attempt, any other leaves it as sent.
Send(r) ==
  LET s == run[r]
  IN /\ s.pc = "send"
     /\ \/ /\ pool' = IF Accepted(s)
                      THEN pool \cup {[d |-> s.d, k |-> s.next.attempts, nonce |-> s.next.nonce]} ELSE pool
           /\ Goes(r, AfterAnchor(s))
           /\ UNCHANGED left
        \/ /\ left.faults > 0
           /\ left' = [left EXCEPT !.faults = @ - 1]
           /\ Goes(r, [s EXCEPT !.pc = "refused"])
           /\ UNCHANGED pool
     /\ UNCHANGED <<day, phase, held, queue, bundle, age, lock, mined, orphaned>>

Refused(r) ==
  LET s == run[r]
  IN /\ s.pc = "refused"
     /\ bundle' = IF bundle[s.d] = s.next THEN [bundle EXCEPT ![s.d].status = "broadcast-failed"] ELSE bundle
     /\ Goes(r, AfterAnchor(s))
     /\ UNCHANGED <<day, phase, held, queue, age, lock, pool, mined, orphaned, left>>

-----------------------------------------------------------------------------
(* submitOts and upgradeOts: a reading, the calendars' answer if there is    *)
(* one, a compare-and-set.  Bundles newest first.                           *)

OtsReads(r) ==
  LET s == run[r]
      b == bundle[s.d]
      from  == IF s.pc = "submit" THEN "none" ELSE "submitted"
      to    == IF s.pc = "submit" THEN "submitted" ELSE "bitcoin"
      after == IF s.pc = "submit" THEN AfterSubmit(s) ELSE AfterUpgrade(s)
  IN /\ s.pc \in {"submit", "upgrade"}
     /\ \/ Goes(r, after)
        \/ /\ Built(s.d) /\ b.ots = from
           /\ Goes(r, [pc |-> "ots", d |-> s.d, today |-> s.today, raw |-> b,
                       next |-> [b EXCEPT !.ots = to], after |-> after])
     /\ UNCHANGED <<day, phase, held, queue, bundle, age, lock, pool, mined, orphaned, left>>

OtsCommits(r) ==
  LET s == run[r]
  IN /\ s.pc = "ots"
     /\ bundle' = IF Expected(s) THEN [bundle EXCEPT ![s.d] = s.next] ELSE bundle
     /\ Goes(r, s.after)
     /\ UNCHANGED <<day, phase, held, queue, age, lock, pool, mined, orphaned, left>>

-----------------------------------------------------------------------------
Step(r) ==
  \/ End(r) \/ BuildReads(r) \/ BuildCommits(r)
  \/ AnchorReads(r) \/ AnchorMarks(r) \/ Send(r) \/ Refused(r)
  \/ OtsReads(r) \/ OtsCommits(r)

Next ==
  \/ Tick \/ Mine \/ Drop \/ Reorg
  \/ IssueReads \/ IssueCommits
  \/ \E r \in Runs : Start(r) \/ Crash(r) \/ Deadline(r) \/ AnchorThrows(r) \/ Step(r)

\* Time passes, the network mines, the schedule starts runs and they go on.
Fairness ==
  /\ WF_vars(Tick) /\ WF_vars(Mine)
  /\ \A r \in Runs : WF_vars(Step(r))
  /\ WF_vars(\E r \in Runs : Start(r))

Spec == Init /\ [][Next]_vars /\ Fairness

-----------------------------------------------------------------------------
(* What holds of it.                                                       *)

TypeOK ==
  /\ day \in Days /\ phase \in 0 .. DayLength - 1 /\ lock \in 0 .. LockTtl
  /\ held \subseteq Days
  /\ \A d \in Days :
       /\ queue[d] \subseteq Attestations /\ bundle[d].leaves \subseteq Attestations
       /\ bundle[d].status \in {"none", "sent", "confirmed", "failed", "broadcast-failed"}
       /\ bundle[d].ots \in {"none", "submitted", "bitcoin"}
       /\ age[d] \in 0 .. Wait

\* No straggler: a bundle that is built has every attestation that names it,
\* so each one that was issued can be shown to be in an anchored bundle.
NoStraggler == \A d \in Days : Built(d) => bundle[d].leaves = queue[d]

\* A transaction of the anchor address is, or was, the one of an attempt that
\* was recorded, one for each attempt, and an attempt said to be refused has
\* none: whichever run crashed or overran, there is no second send.
SentIsRecorded ==
  LET sent == pool \cup {m.tx : m \in mined \cup orphaned}
  IN /\ \A x \in sent : x.k <= bundle[x.d].attempts
     /\ \A x, y \in sent : x.d = y.d /\ x.k = y.k => x = y
     /\ \A x \in sent : x.k = bundle[x.d].attempts =>
          x.nonce = bundle[x.d].nonce /\ bundle[x.d].status # "broadcast-failed"

\* A bundle is said to be confirmed for a transaction that was in a block and
\* succeeded there, of the very attempt the bundle records.
ConfirmedWasMined ==
  \A d \in Days : bundle[d].status = "confirmed" =>
    \E m \in mined \cup orphaned : m.tx = Attempt(d) /\ m.ok

\* The record of a bundle and what the chain has or had agree.
RecordIsTrue == SentIsRecorded /\ ConfirmedWasMined

\* "Independent anchor check: decode the anchor tx input" (CANARY_CHECKLIST.md):
\* what is confirmed is on the chain.  anchorOnChain confirms with the first
\* receipt it sees, neither safe nor final, and never asks again, so a
\* reorganisation leaves a confirmed bundle without an anchor.
ConfirmedIsMined ==
  \A d \in Days : bundle[d].status = "confirmed" => \E m \in Receipts(d) : m.ok

\* A bundle that is built stays as it is, but for anchors, and two runs that
\* write different ones lose neither: a confirmed transaction and a proof stay.
BundlesStay ==
  \A d \in Days :
    /\ Built(d) => bundle'[d].leaves = bundle[d].leaves
    /\ bundle[d].status = "confirmed" => bundle'[d].status = "confirmed"
    /\ bundle[d].ots \in {"submitted", "bitcoin"} => bundle'[d].ots \in {bundle[d].ots, "bitcoin"}
    /\ bundle'[d].attempts >= bundle[d].attempts
NothingIsLost == [][BundlesStay]_vars

\* Once an attestation is queued for a day, the bundle of that day is built
\* and recorded as confirmed, whatever crashed, was refused, forgotten or
\* reorganised meanwhile; a reorganisation after that is not noticed, see
\* ConfirmedIsMined.
EventuallyAnchored ==
  \A d \in 0 .. LastDay - 1 : queue[d] # {} ~> bundle[d].status = "confirmed"
=============================================================================
