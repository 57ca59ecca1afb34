---- MODULE Launches ----
\* Launches of one ticker by one wallet from the tabs of one browser: the write-ahead records, the cross-tab lock, the
\* duplicate guard, the wallet and the chain.  Code: builder-v2.js, launch-records.js, launches-v2.js,
\* launch-engine-v2.js (presendCheck).  A launch stands for its record, its transaction and its predicted token.
\* The records are one localStorage value that a tab reads and writes in one synchronous step.
EXTENDS Integers, FiniteSets

CONSTANTS Tabs, Page,         \* builder tabs; the MY LAUNCHES page
          Prepared, Elsewhere,\* launches prepared here; launches sent from another browser or an older site
          None,
          WebLocks,           \* the browser has Web Locks; else the localStorage fallback
          MaxAttempts         \* bound: times a launch is sent, the earlier ones having reverted

VARIABLES records,  \* <ns>launch_records_v1: [state, hash, attempt]; hash is the attempt whose transaction it names, 0: none
          tx,       \* what became of the transaction of a launch's last attempt
          prompt,   \* the wallet's window and its answer
          tab,      \* locals of a builder tab
          verify,   \* locals of reverify(), by who runs it
          lock,     \* the holder of the chain's launch lock
          migrated  \* <ns>launch_records_migrated_v1
vars == <<records, tx, prompt, tab, verify, lock, migrated>>

Launches == Prepared \cup Elsewhere
UNRESOLVED == {"BROADCAST_ATTEMPTED", "BROADCAST_UNKNOWN", "TX_HASH_RECEIVED"}
DEPLOYED == {"MINED", "VERIFIED"} \* VERIFIED: ONCHAIN_VERIFIED, INDEXER_PENDING or FULLY_VERIFIED
POST_BROADCAST == UNRESOLVED \cup DEPLOYED \cup {"FAILED_POST_BROADCAST"}
STATES == POST_BROADCAST \cup {"PREPARED", "SIGNATURE_VALID", "FAILED_PRE_BROADCAST"}

Recorded(states) == {p \in Launches : records[p] # None /\ records[p].state \in states}
OnChain(p) == tx[p] = "mined"

\* put and update: evidence is not reset, a deployed launch does not become anything else.
Allowed(prev, next) ==
  /\ prev \in POST_BROADCAST => next \in POST_BROADCAST \cup {"FAILED_PRE_BROADCAST"}
  /\ prev \in DEPLOYED => next \in DEPLOYED
Accepts(p, next) == IF records[p] = None THEN TRUE ELSE Allowed(records[p].state, next)
Attempt(p) == IF records[p] = None THEN 1 ELSE records[p].attempt
Known(p) == IF records[p] = None THEN 0 ELSE records[p].hash
Put(p, next, hash) == records' = [records EXCEPT ![p] = [state |-> next, hash |-> hash, attempt |-> Attempt(p)]]
\* What is refused throws: nothing is written.  A hash that is not found is not forgotten either.
Update(p, next, found) == IF Accepts(p, next) THEN Put(p, next, IF found THEN Attempt(p) ELSE Known(p))
                          ELSE UNCHANGED records

Idle == [pc |-> "idle"]
Init == /\ records = [p \in Launches |-> None] /\ tx = [p \in Launches |-> "none"]
        /\ prompt = [p \in Launches |-> "closed"]
        /\ tab = [t \in Tabs |-> Idle] /\ verify = [v \in Tabs \cup {Page} |-> Idle]
        /\ lock = None /\ migrated = FALSE

At(t, pc) == tab[t].pc = pc
To(t, local) == tab' = [tab EXCEPT ![t] = local]
Goes(t, pc) == tab' = [tab EXCEPT ![t].pc = pc]

\* -------------------------------------------------------------------------- the wallet and the chain
Waits(p) == \E t \in Tabs : At(t, "prompt") /\ tab[t].p = p
\* An answer nobody waits for is lost.
Answers(p, answer) == prompt' = [prompt EXCEPT ![p] = IF Waits(p) THEN answer ELSE "closed"]
Answer(p) == /\ prompt[p] = "open"
             /\ \/ Answers(p, "hash") /\ tx' = [tx EXCEPT ![p] = "sent"]
                \/ Answers(p, "rejected") /\ UNCHANGED tx
                \/ \E s \in {"none", "sent"} : Answers(p, "error") /\ tx' = [tx EXCEPT ![p] = s]
             /\ UNCHANGED <<records, tab, verify, lock, migrated>>
Include(p) == /\ tx[p] = "sent" /\ \E s \in {"mined", "reverted"} : tx' = [tx EXCEPT ![p] = s]
              /\ UNCHANGED <<records, prompt, tab, verify, lock, migrated>>
\* A launch from elsewhere is seen here once its token is on the chain.
SendElsewhere(p) == /\ p \in Elsewhere /\ tx[p] = "none" /\ tx' = [tx EXCEPT ![p] = "mined"]
                    /\ UNCHANGED <<records, prompt, tab, verify, lock, migrated>>

\* -------------------------------------------------------------------------- simulation and review
\* A fresh launch is prepared and, if the store takes it, recorded.
Simulate(t, p) == /\ At(t, "idle") /\ p \in Prepared /\ records[p] = None
                  /\ p \notin {tab[u].p : u \in {w \in Tabs : tab[w] # Idle}}
                  /\ Put(p, "PREPARED", 0)
                  /\ To(t, [pc |-> "guard", p |-> p, todo |-> Recorded(STATES \ DEPLOYED) \ {p}, ack |-> {},
                            sending |-> FALSE])
                  /\ UNCHANGED <<tx, prompt, verify, lock, migrated>>

\* runDuplicateGuard: every earlier attempt is looked up on the chain.
GuardReads(t) == /\ At(t, "guard") /\ tab[t].todo # {}
                 /\ \E q \in tab[t].todo :
                      /\ To(t, [tab[t] EXCEPT !.todo = @ \ {q}])
                      /\ IF OnChain(q) THEN Update(q, "MINED", FALSE) ELSE UNCHANGED records
                 /\ UNCHANGED <<tx, prompt, verify, lock, migrated>>

\* Then the records, synchronously.  What the servers know of the chain is added in the next step.
GuardRecords(t) == /\ At(t, "guard") /\ tab[t].todo = {}
                   /\ IF Recorded(UNRESOLVED) \ {tab[t].p} = {}
                      THEN To(t, [tab[t] EXCEPT !.pc = "known", !.todo = Recorded(DEPLOYED) \ {tab[t].p}])
                      ELSE IF tab[t].sending THEN Goes(t, "stopped") ELSE To(t, Idle)
                   /\ UNCHANGED <<records, tx, prompt, verify, lock, migrated>>

\* The user signs and acknowledges every token the review shows, or leaves.
Review(t, existing) == /\ ~tab[t].sending
                       /\ \/ /\ IF Accepts(tab[t].p, "SIGNATURE_VALID") THEN Put(tab[t].p, "SIGNATURE_VALID", Known(tab[t].p))
                                ELSE UNCHANGED records
                             /\ To(t, [tab[t] EXCEPT !.pc = "ready", !.todo = {}, !.ack = existing])
                          \/ UNCHANGED records /\ To(t, Idle)

\* Mutation of Unseen: what the review did not show is not looked for.
X_Trusts(t, existing) == {}
\* Tokens that have appeared since the review.
Unseen(t, existing) == existing \ tab[t].ack
Recheck(t, existing) == /\ tab[t].sending /\ UNCHANGED records
                        /\ Goes(t, IF Unseen(t, existing) # {} THEN "stopped" ELSE "presend")
GuardAnswers(t) == /\ At(t, "known")
                   /\ \E served \in SUBSET {q \in Launches : OnChain(q)} :
                        LET existing == {q \in tab[t].todo \cup served : OnChain(q)}
                        IN  Review(t, existing) \/ Recheck(t, existing)
                   /\ UNCHANGED <<tx, prompt, verify, lock, migrated>>

\* -------------------------------------------------------------------------- the lock
\* Mutation of Granted: the lock is not looked at.
X_NoLock == {TRUE}
\* withLaunchLock.  Web Locks are granted to one tab.  The fallback reads an entry, writes its own and reads that back:
\* where another tab writes in between, or the entry is older than five minutes, both go on.
Granted == IF WebLocks THEN {lock = None} ELSE {lock = None, TRUE}
TakeLock(t) == /\ At(t, "ready") /\ (tx[tab[t].p] = "reverted" => Attempt(tab[t].p) < MaxAttempts)
               /\ \E granted \in Granted :
                    IF granted THEN lock' = t /\ Goes(t, "conflicts") ELSE UNCHANGED <<lock, tab>>
               /\ UNCHANGED <<records, tx, prompt, verify, migrated>>
\* The fallback removes whatever entry is there.  A page that has sent is done; one that was stopped before, and one whose
\* launch reverted, keeps what was prepared, signed and acknowledged: LAUNCH may be pressed again.
Release(t) == /\ \/ At(t, "release") /\ To(t, Idle)
                 \/ At(t, "stopped") /\ Goes(t, "ready")
              /\ lock' = None
              /\ UNCHANGED <<records, tx, prompt, verify, migrated>>

\* -------------------------------------------------------------------------- sendLaunch
Conflicts(t) == /\ At(t, "conflicts")
                /\ To(t, IF Recorded(UNRESOLVED) \ {tab[t].p} # {} THEN [tab[t] EXCEPT !.pc = "stopped"]
                         ELSE [tab[t] EXCEPT !.pc = "guard", !.sending = TRUE,
                                 !.todo = Recorded(STATES \ DEPLOYED) \ {tab[t].p}])
                /\ UNCHANGED <<records, tx, prompt, verify, lock, migrated>>
PresendCheck(t) == /\ At(t, "presend") /\ Goes(t, IF OnChain(tab[t].p) THEN "stopped" ELSE "record")
                   /\ UNCHANGED <<records, tx, prompt, verify, lock, migrated>>

\* The record is durable before the wallet sees anything.  It is written over the one of an attempt that reverted, and
\* keeps that attempt's hash; the transaction of the new one is yet to be made.
WriteAhead(p) ==
  LET again == tx[p] = "reverted"
  IN  /\ records' = [records EXCEPT ![p] = [state |-> "BROADCAST_ATTEMPTED", hash |-> Known(p),
                                            attempt |-> IF again THEN Attempt(p) + 1 ELSE Attempt(p)]]
      /\ tx' = [tx EXCEPT ![p] = IF again THEN "none" ELSE @]
AskWallet(t) == /\ At(t, "record")
                /\ IF Accepts(tab[t].p, "BROADCAST_ATTEMPTED")
                   THEN /\ WriteAhead(tab[t].p) /\ prompt' = [prompt EXCEPT ![tab[t].p] = "open"] /\ Goes(t, "prompt")
                   ELSE UNCHANGED <<records, tx, prompt>> /\ Goes(t, "stopped")
                /\ UNCHANGED <<verify, lock, migrated>>

\* The wallet's answer is taken to the record.
Take(t, answer, state, found) == LET p == tab[t].p IN
  /\ At(t, "prompt") /\ prompt[p] = answer /\ prompt' = [prompt EXCEPT ![p] = "closed"]
  /\ Update(p, state, found)
  /\ UNCHANGED <<tx, verify, migrated>>
Hash(t) == /\ Take(t, "hash", "TX_HASH_RECEIVED", TRUE) /\ UNCHANGED lock
           /\ Goes(t, IF Accepts(tab[t].p, "TX_HASH_RECEIVED") THEN "receipt" ELSE "release")
\* After a rejection the same launch may be sent again.
Rejected(t) == Take(t, "rejected", "FAILED_PRE_BROADCAST", FALSE) /\ lock' = None /\ Goes(t, "ready")
Ambiguous(t) == /\ Take(t, "error", "BROADCAST_UNKNOWN", FALSE) /\ UNCHANGED lock
                /\ Goes(t, IF Accepts(tab[t].p, "BROADCAST_UNKNOWN") THEN "watch" ELSE "release")

Verifying(who, p) == verify' = [verify EXCEPT ![who] = [pc |-> "tx", p |-> p, r |-> records'[p]]]
\* The launch is on the chain: the tab records it and verifies it.
Executed(t) == /\ Update(tab[t].p, "MINED", FALSE) /\ Verifying(t, tab[t].p) /\ Goes(t, "verify")
\* A receipt, or the predicted token itself after an ambiguous answer, within three minutes.  After a revert the same
\* launch may be sent again.
Receipt(t) == /\ At(t, "receipt") \/ At(t, "watch")
              /\ IF OnChain(tab[t].p) THEN Executed(t)
                 ELSE /\ tx[tab[t].p] = "reverted" /\ At(t, "receipt")
                      /\ Update(tab[t].p, "FAILED_POST_BROADCAST", FALSE) /\ Goes(t, "stopped") /\ UNCHANGED verify
              /\ UNCHANGED <<tx, prompt, lock, migrated>>
GivesUp(t) == /\ \/ At(t, "receipt") \/ At(t, "watch")
                 \/ At(t, "verify") /\ verify[t] = Idle
              /\ Goes(t, "release")
              /\ UNCHANGED <<records, tx, prompt, verify, lock, migrated>>

\* A tab is closed or reloaded: its Web Lock goes with it, a fallback entry stays; the wallet's window stays open.
Reload(t) == /\ ~At(t, "idle") /\ To(t, Idle) /\ verify' = [verify EXCEPT ![t] = Idle]
             /\ lock' = IF WebLocks /\ lock = t THEN None ELSE lock
             /\ prompt' = IF At(t, "prompt") /\ prompt[tab[t].p] # "open" THEN [prompt EXCEPT ![tab[t].p] = "closed"]
                          ELSE prompt
             /\ UNCHANGED <<records, tx, migrated>>

\* -------------------------------------------------------------------------- MY LAUNCHES and the boot checks
\* reverify: the record is read; every later step follows an answer of the chain.
Reverify(p) == /\ verify[Page] = Idle /\ p \in Recorded(POST_BROADCAST)
               /\ verify' = [verify EXCEPT ![Page] = [pc |-> "tx", p |-> p, r |-> records[p]]]
               /\ UNCHANGED <<records, tx, prompt, tab, lock, migrated>>

Settle(who, local) == verify' = [verify EXCEPT ![who] = local]
Step(who, next, state) == \* an update that throws ends the verification
  LET p == verify[who].p IN
    /\ Update(p, state, FALSE)
    /\ IF Accepts(p, state) THEN Settle(who, [pc |-> next, p |-> p, r |-> records'[p]]) ELSE Settle(who, Idle)
Keeps(r, state) == IF r.state \in DEPLOYED THEN r.state ELSE state

\* What became of the transaction the record named when it was read: a later attempt followed one that reverted.
Outcome(v) == IF v.r.hash = 0 THEN "none" ELSE IF v.r.hash < Attempt(v.p) THEN "reverted" ELSE tx[v.p]
VerifyTx(who) == /\ verify[who].pc = "tx"
                 /\ LET v == verify[who] IN
                    CASE Outcome(v) = "mined" -> Step(who, "token", Keeps(v.r, "MINED"))
                      [] Outcome(v) = "reverted" /\ ~OnChain(v.p) ->
                           Settle(who, [v EXCEPT !.pc = "gone"]) /\ UNCHANGED records
                      [] OTHER -> Settle(who, [v EXCEPT !.pc = "token"]) /\ UNCHANGED records
                 /\ UNCHANGED <<tx, prompt, tab, lock, migrated>>
VerifyGone(who) == /\ verify[who].pc = "gone"
                   /\ Update(verify[who].p, "FAILED_POST_BROADCAST", FALSE) /\ Settle(who, Idle)
                   /\ UNCHANGED <<tx, prompt, tab, lock, migrated>>
VerifyToken(who) == /\ verify[who].pc = "token"
                    /\ LET v == verify[who] IN
                       Settle(who, IF OnChain(v.p) THEN [v EXCEPT !.pc = "fields"]
                                   ELSE IF v.r.state \in {"BROADCAST_ATTEMPTED", "BROADCAST_UNKNOWN"}
                                   THEN [v EXCEPT !.pc = "absent"] ELSE Idle)
                    /\ UNCHANGED <<records, tx, prompt, tab, lock, migrated>>
VerifyAbsent(who) == /\ verify[who].pc = "absent"
                     /\ Update(verify[who].p, "BROADCAST_UNKNOWN", FALSE) /\ Settle(who, Idle)
                     /\ UNCHANGED <<tx, prompt, tab, lock, migrated>>
VerifyFields(who) == /\ verify[who].pc = "fields"
                     /\ \E state \in {Keeps(verify[who].r, "MINED"), "VERIFIED"} :
                          \E found \in {FALSE, verify[who].r.hash = 0} : Update(verify[who].p, state, found)
                     /\ Settle(who, Idle)
                     /\ UNCHANGED <<tx, prompt, tab, lock, migrated>>
VerifyFails(who) == /\ verify[who] # Idle /\ Settle(who, Idle)
                    /\ UNCHANGED <<records, tx, prompt, tab, lock, migrated>>

\* The user's own assurance: the wallet shows no window and no transaction for it.
Unsent(p) == tx[p] = "none" /\ prompt[p] # "open"
MarkNotSent(p) == /\ p \in Recorded(UNRESOLVED) /\ Unsent(p)
                  /\ IF OnChain(p) THEN Update(p, "MINED", FALSE) ELSE Update(p, "FAILED_PRE_BROADCAST", FALSE)
                  /\ UNCHANGED <<tx, prompt, tab, verify, lock, migrated>>

\* An imported record claims nothing.
Neutral(claimed) == IF claimed \in POST_BROADCAST THEN "BROADCAST_UNKNOWN" ELSE claimed
Import(p) == /\ p \in Elsewhere /\ records[p] = None
             /\ \E claimed \in {"SIGNATURE_VALID", "MINED"} :
                  Put(p, Neutral(claimed), IF claimed = "SIGNATURE_VALID" THEN 0 ELSE 1)
             /\ UNCHANGED <<tx, prompt, tab, verify, lock, migrated>>
\* The lists of the site before the records, read once: pending launches and proofs of mined ones.
MigrateLegacy(p) == /\ ~migrated /\ migrated' = TRUE /\ p \in Elsewhere /\ records[p] = None
                    /\ \/ \E h \in {0, 1} : Put(p, IF h = 1 THEN "TX_HASH_RECEIVED" ELSE "BROADCAST_UNKNOWN", h)
                       \/ OnChain(p) /\ Put(p, "MINED", 1)
                    /\ UNCHANGED <<tx, prompt, tab, verify, lock>>
\* RECOVER A LAUNCH: a token of the chain gets its record, or its record gets its hash.
Recover(p) == /\ OnChain(p) /\ verify[Page] = Idle /\ Known(p) = 0
              /\ Put(p, IF records[p] = None THEN "MINED" ELSE records[p].state, Attempt(p)) /\ Verifying(Page, p)
              /\ UNCHANGED <<tx, prompt, tab, lock, migrated>>

Tab(t) == \/ \E p \in Prepared : Simulate(t, p)
          \/ GuardReads(t) \/ GuardRecords(t) \/ GuardAnswers(t)
          \/ TakeLock(t) \/ Release(t)
          \/ Conflicts(t) \/ PresendCheck(t) \/ AskWallet(t)
          \/ Hash(t) \/ Rejected(t) \/ Ambiguous(t) \/ Receipt(t) \/ GivesUp(t) \/ Reload(t)
Verification(who) == VerifyTx(who) \/ VerifyGone(who) \/ VerifyToken(who) \/ VerifyAbsent(who) \/ VerifyFields(who)
                       \/ VerifyFails(who)
Records(p) == Reverify(p) \/ MarkNotSent(p) \/ Import(p) \/ MigrateLegacy(p) \/ Recover(p)
World(p) == Answer(p) \/ Include(p) \/ SendElsewhere(p)
Next == \/ \E t \in Tabs : Tab(t)
        \/ \E who \in Tabs \cup {Page} : Verification(who)
        \/ \E p \in Launches : Records(p) \/ World(p)
Spec == Init /\ [][Next]_vars

\* -------------------------------------------------------------------------- properties
TypeOK == /\ records \in [Launches -> {None} \cup [state : STATES, hash : 0 .. MaxAttempts, attempt : 1 .. MaxAttempts]]
          /\ tx \in [Launches -> {"none", "sent", "mined", "reverted"}]
          /\ prompt \in [Launches -> {"closed", "open", "hash", "rejected", "error"}]
          /\ lock \in Tabs \cup {None} /\ migrated \in BOOLEAN

\* Two tabs never ask the wallet for two launches of a ticker: whatever is reloaded, rejected or re-verified in between, a
\* launch that is sent for the first time and whose transaction may still be made holds every other one back
\* (builder-v2.js:574).
Open(p) == prompt[p] = "open" \/ tx[p] = "sent"
OneLaunch == \A p, q \in Prepared : Open(p) /\ Open(q) /\ p # q => Attempt(p) > 1 \/ Attempt(q) > 1

\* As RECOVERY_GUIDE.md:83 says it, of every launch ("Only one tab can launch at a time").  No run lists it: a launch that
\* reverted is sent again under its old record (builder-v2.js:629), and a verification that still reads the old hash there
\* marks the new attempt as failed (launch-records.js:174-176); after a reload nothing holds the next launch back.
OneLaunchEver == \A p, q \in Prepared : Open(p) /\ Open(q) => p = q

\* A launch next to a token of this browser that is on the chain already is only sent by a user who was shown that token
\* and asked for a second one, however the token got there since the review (builder-v2.js:584-588), unless it is of a
\* launch that was sent again after a revert, which does not hold the next one back.
Acknowledged ==
  \A p, q \in Prepared : prompt[p] # "open" /\ prompt'[p] = "open" /\ p # q /\ OnChain(q) /\ Attempt(q) = 1
    => \E t \in Tabs : tab[t].pc = "record" /\ tab[t].p = p /\ q \in tab[t].ack

\* What went out is on record for as long as it may become a token, and a token is never taken for a launch that was
\* not sent (launch-records.js:4-11, builder-v2.js:594).  An attempt that follows one that reverted may carry that one's
\* failure, no other state.
Failed(p) == IF Attempt(p) > 1 THEN {"FAILED_POST_BROADCAST"} ELSE {}
EvidenceKept == \A p \in Prepared :
  /\ Open(p) => records[p] # None /\ records[p].state \in UNRESOLVED \cup Failed(p)
  /\ OnChain(p) => records[p] # None /\ records[p].state \in UNRESOLVED \cup DEPLOYED \cup Failed(p)

\* A record says deployed only of a token that is on the chain, wherever it came from (launch-records.js:82).
DeployedExists == \A p \in Recorded(DEPLOYED) : OnChain(p)

\* A deployed launch never becomes anything else, however late the answer a verification works with
\* (launch-records.js:63, :150).
Deployed == \A p \in Recorded(DEPLOYED) : records'[p].state \in DEPLOYED
====
