---- MODULE SolanaIndex ----
\* The Solana launch index: launches against a root mint, found by an incremental indexer from a checkpoint on and by
\* an operator's backfill below it, and read page by page.  Code: netlify/lib/solana-launch-index.js,
\* netlify/lib/pump-launches.js, netlify/functions/pump-indexer.js, netlify/scripts/pump-backfill.js.
\* One root mint; finalized transactions only ever append.  A signature is the transaction's place in txs.
EXTENDS Integers, FiniteSets, Sequences, SequencesExt

CONSTANTS None,
          Modes,     \* the operator's flags: "fill", "catchup" (--catch-up), "restart" (--restart), "recatch" (both)
          FromSlot,  \* --from-slot
          LookBack,  \* MAX_PAGES pages of signatures
          PerRun,    \* MAX_SIGNATURES_PER_RUN
          Part,      \* CHUNK: signatures verified together
          Page,      \* signatures in a full page of the backfill
          PageSize,  \* items of a visitor's page
          MaxTx, MaxSlot, MaxFills, MaxFails  \* bounds of the model

VARIABLES txs,         \* the chain: [slot, kind]
          members,     \* the root's sorted set: signatures of filed launches
          checkpoint,  \* <source>:checkpoint
          progress,    \* <source>:backfill
          indexer, script, reader, \* the locals of the run, the backfill and a visitor
          fills, fails             \* counters of the bounds
vars == <<txs, members, checkpoint, progress, indexer, script, reader, fills, fails>>

Kinds == {"launch", "sol", "trade"} \* a create with another quote, a create quoted in SOL, a trade
Addresses == {"mint-authority", "quote-control"}
Mentions(address) == IF address = "mint-authority" THEN {"launch", "sol"} ELSE {"launch", "trade"}

\* getSignaturesForAddress, newest first: below `before`, above `until`.
Signatures(address, until, before) ==
  Reverse(SetToSortSeq({i \in until + 1..before - 1 : txs[i].kind \in Mentions(address)}, <))
Newest(address) == LET s == Signatures(address, 0, Len(txs) + 1) IN IF s = <<>> THEN None ELSE s[1]
Launches(sigs) == {i \in ToSet(sigs) : txs[i].kind = "launch"}
Smaller(a, b) == IF a < b THEN a ELSE b

Idle == [pc |-> "idle"]
Init == /\ txs = <<>> /\ members = {} /\ checkpoint = None /\ progress = None
        /\ indexer = Idle /\ script = Idle /\ reader = Idle /\ fills = 0 /\ fails = 0

Transact == /\ Len(txs) < MaxTx
            /\ \E s \in 1..MaxSlot, k \in Kinds :
                 /\ txs # <<>> => s >= Last(txs).slot
                 /\ txs' = Append(txs, [slot |-> s, kind |-> k])
            /\ UNCHANGED <<members, checkpoint, progress, indexer, script, reader, fills, fails>>

\* -------------------------------------------------------------------------- the adapter
\* verify: the first n signatures could be read; what follows a failure is not processed.
Verified(sigs, n) == [processed |-> n, found |-> Launches(SubSeq(sigs, 1, n))]

\* advanceCheckpoint: never to an older slot, and only over the value that was read.
Advances(next, raw) == /\ checkpoint = raw
                       /\ raw # None => txs[next].slot >= txs[raw].slot

\* -------------------------------------------------------------------------- the scheduled indexer
Start == /\ indexer = Idle /\ checkpoint # None
         /\ indexer' = [pc |-> "list", raw |-> checkpoint]
         /\ UNCHANGED <<txs, members, checkpoint, progress, script, reader, fills, fails>>

\* The oldest signatures of the run's share, oldest first.
Work(newer) == SubSeq(Reverse(newer), 1, Smaller(PerRun, Len(newer)))
List == /\ indexer.pc = "list"
        /\ LET newer == Signatures("mint-authority", indexer.raw, Len(txs) + 1)
           IN  indexer' = IF newer = <<>> \/ Len(newer) > LookBack THEN Idle
                          ELSE [pc |-> "verify", raw |-> indexer.raw, work |-> Work(newer)]
        /\ UNCHANGED <<txs, members, checkpoint, progress, script, reader, fills, fails>>

VerifyPart == /\ indexer.pc = "verify"
              /\ LET part == SubSeq(indexer.work, 1, Smaller(Part, Len(indexer.work)))
                 IN \E n \in 0..Len(part) :
                   /\ n < Len(part) => fails < MaxFails
                   /\ fails' = IF n < Len(part) THEN fails + 1 ELSE fails
                   /\ LET v == Verified(part, n) IN
                      IF v.processed = 0 THEN indexer' = Idle /\ UNCHANGED members
                      ELSE /\ members' = members \cup v.found
                           /\ indexer' = [pc |-> "advance", raw |-> indexer.raw, next |-> part[v.processed],
                                          work |-> IF v.processed < Len(part) THEN <<>>
                                                   ELSE SubSeq(indexer.work, v.processed + 1, Len(indexer.work))]
              /\ UNCHANGED <<txs, checkpoint, progress, script, reader, fills>>

Advance == /\ indexer.pc = "advance"
           /\ IF Advances(indexer.next, indexer.raw)
              THEN /\ checkpoint' = indexer.next
                   /\ indexer' = IF indexer.work = <<>> THEN Idle
                                 ELSE [pc |-> "verify", raw |-> indexer.next, work |-> indexer.work]
              ELSE indexer' = Idle /\ UNCHANGED checkpoint
           /\ UNCHANGED <<txs, members, progress, script, reader, fills, fails>>

\* The time budget, a crash or a failed call ends the run where it is.
Stop == /\ indexer # Idle /\ fails < MaxFails /\ indexer' = Idle /\ fails' = fails + 1
        /\ UNCHANGED <<txs, members, checkpoint, progress, script, reader, fills>>

\* -------------------------------------------------------------------------- the operator's backfill
Unfinished == progress # None /\ ~progress.done
Restarts(mode) == mode \in {"restart", "recatch"}
CatchesUp(mode) == mode \in {"catchup", "recatch"}

\* prepareWrite: an unfinished run with the same settings is resumed; else both heads are read.
Launch == /\ script = Idle /\ fills < MaxFills /\ fills' = fills + 1
          /\ \E mode \in Modes, a \in Addresses :
               IF Unfinished /\ ~Restarts(mode)
               THEN progress.address = a /\ script' = [pc |-> "page", state |-> progress]
               ELSE /\ Newest(a) # None /\ Newest("mint-authority") # None
                    /\ script' = [pc |-> "prepare", mode |-> mode, address |-> a, head |-> Newest("mint-authority")]
          /\ UNCHANGED <<txs, members, checkpoint, progress, indexer, reader, fails>>

Prepare == /\ script.pc = "prepare"
           /\ CatchesUp(script.mode) => checkpoint # None
           /\ script' = [pc |-> "record", raw |-> checkpoint, head |-> script.head,
                         state |-> [address |-> script.address, before |-> None, done |-> FALSE,
                                    stopSlot |-> IF CatchesUp(script.mode) THEN txs[checkpoint].slot ELSE 0]]
           /\ UNCHANGED <<txs, members, checkpoint, progress, indexer, reader, fills, fails>>

Record == /\ script.pc = "record" /\ progress' = script.state /\ script' = [script EXCEPT !.pc = "seed"]
          /\ UNCHANGED <<txs, members, checkpoint, indexer, reader, fills, fails>>

\* The checkpoint is seeded or moved to the indexer's head; a concurrent change ends the script.
Seed == /\ script.pc = "seed"
        /\ LET moves == IF script.raw = None THEN TRUE ELSE txs[script.raw].slot < txs[script.head].slot
           IN  /\ checkpoint' = IF moves /\ Advances(script.head, script.raw) THEN script.head ELSE checkpoint
               /\ script' = IF moves /\ ~Advances(script.head, script.raw) THEN Idle
                            ELSE [pc |-> "page", state |-> script.state]
        /\ UNCHANGED <<txs, members, progress, indexer, reader, fills, fails>>

Top(state) == IF state.before = None THEN Len(txs) + 1 ELSE state.before
\* The oldest slot this walk covers.
Floor(state) == IF state.stopSlot > FromSlot THEN state.stopSlot ELSE FromSlot

\* The walk is over when the last page, or the page with the floor, was walked as a whole.
Finished(page, wanted, portion) == (Len(page) < Page \/ Len(wanted) < Len(page)) /\ portion = wanted

ReadPage == /\ script.pc = "page"
            /\ LET all == Signatures(script.state.address, 0, Top(script.state))
                   page == SubSeq(all, 1, Smaller(Page, Len(all)))
                   wanted == SelectSeq(page, LAMBDA i : txs[i].slot >= Floor(script.state))
               IN \E n \in 0..Len(wanted) : \* --max-signatures
                    LET portion == SubSeq(wanted, 1, n)
                    IN  script' = [pc |-> "walk", state |-> script.state, portion |-> portion,
                                   ends |-> n < Len(wanted), done |-> Finished(page, wanted, portion)]
            /\ UNCHANGED <<txs, members, checkpoint, progress, indexer, reader, fills, fails>>

Walk == /\ script.pc = "walk" /\ script.portion # <<>>
        /\ LET part == SubSeq(script.portion, 1, Smaller(Part, Len(script.portion)))
           IN \E n \in 0..Len(part) :
                /\ n < Len(part) => fails < MaxFails
                /\ fails' = IF n < Len(part) THEN fails + 1 ELSE fails
                /\ LET v == Verified(part, n) IN
                   IF v.processed = 0 THEN script' = Idle /\ UNCHANGED members
                   ELSE /\ members' = members \cup v.found
                        /\ script' = IF v.processed < Len(part)
                             THEN [script EXCEPT !.pc = "save", !.state.before = part[v.processed],
                                     !.portion = <<>>, !.ends = TRUE, !.done = FALSE]
                             ELSE [script EXCEPT !.pc = "save", !.state.before = part[v.processed],
                                     !.portion = SubSeq(@, v.processed + 1, Len(@))]
        /\ UNCHANGED <<txs, checkpoint, progress, indexer, reader, fills>>

Save == /\ script.pc = "save" /\ progress' = script.state /\ script' = [script EXCEPT !.pc = "walk"]
        /\ UNCHANGED <<txs, members, checkpoint, indexer, reader, fills, fails>>

EndPage == /\ script.pc = "walk" /\ script.portion = <<>>
           /\ progress' = IF script.done THEN [script.state EXCEPT !.done = TRUE] ELSE progress
           /\ script' = IF script.done \/ script.ends THEN Idle ELSE [pc |-> "page", state |-> script.state]
           /\ UNCHANGED <<txs, members, checkpoint, indexer, reader, fills, fails>>

Interrupt == /\ script # Idle /\ fails < MaxFails /\ script' = Idle /\ fails' = fails + 1
             /\ UNCHANGED <<txs, members, checkpoint, progress, indexer, reader, fills>>

\* -------------------------------------------------------------------------- a visitor's pages
\* The sorted set's order, newest slot first; here a launch that comes later in a slot has the smaller name, the order in
\* which an insertion falls behind a visitor's cursor.
Before(i, j) == txs[i].slot > txs[j].slot \/ (txs[i].slot = txs[j].slot /\ i < j)
Rows(set, limit) == LET s == SetToSortSeq(set, Before) IN SubSeq(s, 1, Smaller(limit, Len(s)))

Visit == /\ reader = Idle /\ members # {} /\ Len(txs) = MaxTx
         /\ reader' = [pc |-> "first", start |-> members, seen |-> {}, twice |-> FALSE]
         /\ UNCHANGED <<txs, members, checkpoint, progress, indexer, script, fills, fails>>

\* Mutation of BelowInSlot: the next page leaves the rest of the cursor's slot out.
X_NextSlot(cursor) == {}
\* The members of the cursor's slot that come after it.
BelowInSlot(cursor) == {i \in members : txs[i].slot = txs[cursor].slot /\ i > cursor}

\* A page of the rows that were read: one row more than the page says whether there is a next one.
Turned(rows) == LET page == ToSet(SubSeq(rows, 1, Smaller(PageSize, Len(rows))))
                IN  [pc |-> IF Len(rows) > PageSize THEN "same" ELSE "end",
                     cursor |-> IF Len(rows) > PageSize THEN rows[PageSize] ELSE None,
                     start |-> reader.start, seen |-> reader.seen \cup page,
                     twice |-> reader.twice \/ reader.seen \cap page # {}]

FirstPage == reader.pc = "first" /\ reader' = Turned(Rows(members, PageSize + 1))
SameSlot == /\ reader.pc = "same"
            /\ LET rows == Rows(BelowInSlot(reader.cursor), PageSize + 1)
               IN  reader' = IF Len(rows) = PageSize + 1 THEN Turned(rows)
                             ELSE [pc |-> "older", cursor |-> reader.cursor, rows |-> rows, start |-> reader.start,
                                   seen |-> reader.seen, twice |-> reader.twice]
OlderSlots == /\ reader.pc = "older"
              /\ LET older == {i \in members : txs[i].slot < txs[reader.cursor].slot}
                 IN  reader' = Turned(reader.rows \o Rows(older, PageSize + 1 - Len(reader.rows)))
ReadRootPage == (FirstPage \/ SameSlot \/ OlderSlots)
                  /\ UNCHANGED <<txs, members, checkpoint, progress, indexer, script, fills, fails>>

Indexer == Start \/ List \/ VerifyPart \/ Advance \/ Stop
Backfill == Launch \/ Prepare \/ Record \/ Seed \/ ReadPage \/ Walk \/ Save \/ EndPage \/ Interrupt
Next == Transact \/ Indexer \/ Backfill \/ Visit \/ ReadRootPage
Spec == Init /\ [][Next]_vars

\* -------------------------------------------------------------------------- properties
\* What an unfinished backfill has still to walk.
ToWalk(i) == /\ Unfinished /\ txs[i].slot >= Floor(progress)
             /\ progress.before # None => i < progress.before

\* Every launch between the first slot and the checkpoint is filed or is in front of a backfill that says it is not
\* done: what coverage() calls complete is complete, whatever was interrupted (solana-launch-index.js:162-171).  It holds
\* without "recatch": both flags together put the new walk's floor at a checkpoint that the unfinished walk has seeded
\* above what it had still to walk (pump-backfill.js:71, :85), and TLC refutes it.
NothingSkipped == checkpoint # None /\ progress # None =>
  \A i \in 1..checkpoint : txs[i].kind = "launch" /\ txs[i].slot >= FromSlot => i \in members \/ ToWalk(i)

\* The checkpoint only moves forward, whoever writes it (solana-launch-index.js:143-153; pump-backfill.js:23 "The
\* stored checkpoint only ever moves forward.").
Forward == checkpoint # None => checkpoint' # None /\ checkpoint' >= checkpoint
OnlyForward == [][Forward]_checkpoint

\* A visitor who turns page after page while launches are added sees each launch there was once
\* (solana-launch-index.js:23-27).
PagesAgree == reader.pc = "end" => reader.start \subseteq reader.seen /\ ~reader.twice
====
