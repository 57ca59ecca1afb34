---- MODULE PonsIndex ----
\* The discovery index of one verified Pons V2 stack: which launches of the canonical chain are filed under which
\* pair token.  Code: netlify/lib/pons-index.js, netlify/functions/pons-indexer.js, netlify/scripts/pons-backfill.js.
\* The chain grows and is reorganised while the indexer and the operator's backfill are between two of their calls.
\* A score (block, log index) is abstracted to the block: a block of the model holds at most one launch.
EXTENDS Integers, FiniteSets, Sequences

CONSTANTS Tokens, Roots,      \* launched tokens; pair tokens ('native' is one of them)
          None,
          Confirmations,      \* CONFIRMATIONS
          Rewind,             \* REORG_REWIND
          JournalBlocks,      \* JOURNAL_BLOCKS
          MaxBlocks,          \* MAX_BLOCKS_PER_RUN
          MaxHead, MaxForks,  \* bounds of the model: blocks, reorganisations
          MaxDeep, MaxCrashes,\* bounds of the model: reorganisations deeper than Confirmations, crashes
          Quiet               \* assumption: a deep reorganisation finds nothing running and nothing half written

ASSUME PonsConstants ==
  /\ {Confirmations, Rewind, JournalBlocks, MaxBlocks, MaxHead, MaxForks, MaxDeep, MaxCrashes} \subseteq Nat
  /\ Quiet \in BOOLEAN
  /\ None \notin [block : Nat, fork : Nat] /\ None \notin [root : Roots, token : Tokens]

VARIABLES chain,        \* the canonical blocks above the factory's deployment: [fork, launch]
          peak,         \* the greatest head there has been
          forks,        \* reorganisations so far
          index,        \* pons2:root:v1:*
          journal,      \* pons2:journal:v1:<stack>
          cursor,       \* pons2:cursor:v1:<stack>
          run, backfill,\* the locals of the scheduled run and of the backfill script
          deep, crashes \* faults so far
vars == <<chain, peak, forks, index, journal, cursor, run, backfill, deep, crashes>>

\* A block's hash commits to its ancestors: the number of the reorganisation it was mined after identifies it.
HashAt(b) == [block |-> b, fork |-> IF b = 0 THEN 0 ELSE chain[b].fork]
Exists(b) == b <= Len(chain)
Canonical(c) == Exists(c.block) /\ HashAt(c.block) = c
Logs(from, to) == {[root |-> chain[b].launch.root, token |-> chain[b].launch.token, block |-> b] :
                     b \in {x \in from..to : Exists(x) /\ chain[x].launch # None}}
\* ZADD: a member that is there already takes the new score.
ZAdd(zset, new) == {e \in zset : \A n \in new : <<e.root, e.token>> # <<n.root, n.token>>} \cup new
Least(a, b) == IF a < b THEN a ELSE b
Greatest(a, b) == IF a > b THEN a ELSE b

Idle == [pc |-> "idle"]
Init == /\ chain = <<>> /\ peak = 0 /\ forks = 0 /\ deep = 0 /\ crashes = 0
        /\ index = {} /\ journal = {} /\ cursor = None
        /\ run = Idle /\ backfill = Idle

\* -------------------------------------------------------------------------- the chain
Launched == {chain[b].launch.token : b \in {x \in 1..Len(chain) : chain[x].launch # None}}
Mine == /\ Len(chain) < MaxHead
        /\ \E l \in {None} \cup [root : Roots, token : Tokens \ Launched] :
             chain' = Append(chain, [fork |-> forks, launch |-> l])
        /\ peak' = Greatest(peak, Len(chain'))
        /\ UNCHANGED <<forks, index, journal, cursor, run, backfill, deep, crashes>>

Cut(k) == /\ forks < MaxForks /\ chain' = SubSeq(chain, 1, k) /\ forks' = forks + 1
          /\ UNCHANGED <<peak, index, journal, cursor, run, backfill, crashes>>
Shallow == \E k \in 0..Len(chain) - 1 : k >= peak - Confirmations /\ Cut(k) /\ UNCHANGED deep

HalfWritten == \E e \in index : IF cursor = None THEN TRUE ELSE e.block > cursor.block
\* Assumption: no reorganisation reaches below the journal's length, counted from the highest confirmed head.  The
\* backfill may put the cursor back far behind the block that a run has trimmed the journal from.
Reach == peak - Confirmations - JournalBlocks
Deep == /\ deep < MaxDeep /\ deep' = deep + 1
        /\ Quiet => run = Idle /\ backfill = Idle /\ ~HalfWritten
        /\ \E k \in 0..Len(chain) - 1 :
             /\ k < peak - Confirmations /\ k >= Reach /\ (cursor # None => k >= cursor.block - Rewind)
             /\ Cut(k)

\* -------------------------------------------------------------------------- the scheduled run
chained == <<chain, peak, forks, deep>>
Start == /\ run = Idle /\ cursor # None
         /\ run' = [pc |-> "check", cur |-> cursor, head |-> Len(chain)]
         /\ UNCHANGED <<chained, index, journal, cursor, backfill, crashes>>

Back == Greatest(0, run.cur.block - Rewind)

\* The stored hash is still the hash of the cursor's block.
Intact(c) == Canonical(c)

\* Mutation of Safe: blocks are indexed up to the head.
X_AtHead == run.head
\* The newest block this run may index.
Safe == run.head - Confirmations
\* Mutation of Ahead: the run waits for Confirmations more blocks.
X_LagsTwice(cur) == IF cur.block + Confirmations >= Safe THEN Idle
                    ELSE [pc |-> "scan", cur |-> cur, to |-> Least(Safe, cur.block + MaxBlocks)]
Ahead(cur) == IF cur.block >= Safe THEN Idle
              ELSE [pc |-> "scan", cur |-> cur, to |-> Least(Safe, cur.block + MaxBlocks)]

Check == /\ run.pc = "check" /\ Exists(run.cur.block)
         /\ run' = IF Intact(run.cur) THEN Ahead(run.cur) ELSE [run EXCEPT !.pc = "undo"]
         /\ UNCHANGED <<chained, index, journal, cursor, backfill, crashes>>

\* undoFrom: the root sets first, the journal after them.
Undone == {e \in journal : e.block > Back}
UndoRoots == /\ run.pc = "undo" /\ run' = [run EXCEPT !.pc = "unjournal"]
             /\ index' = {e \in index : \A u \in Undone : <<e.root, e.token>> # <<u.root, u.token>>}
             /\ UNCHANGED <<chained, journal, cursor, backfill, crashes>>
UndoJournal == /\ run.pc = "unjournal" /\ run' = [run EXCEPT !.pc = "rewind"]
               /\ journal' = journal \ Undone
               /\ UNCHANGED <<chained, index, cursor, backfill, crashes>>
RewindCursor == /\ run.pc = "rewind" /\ Exists(Back) /\ cursor' = HashAt(Back) /\ run' = Ahead(cursor')
                /\ UNCHANGED <<chained, index, journal, backfill, crashes>>

\* scanLogs: a window of any size, its last header before its logs.  A failed getLogs only shrinks the window.
Header == /\ run.pc = "scan"
          /\ \E end \in run.cur.block + 1..run.to :
               Exists(end) /\ run' = [pc |-> "header", cur |-> run.cur, to |-> run.to, pre |-> HashAt(end)]
          /\ UNCHANGED <<chained, index, journal, cursor, backfill, crashes>>

GetLogs == /\ run.pc = "header"
           /\ LET logs == Logs(run.cur.block + 1, run.pre.block)
                  torn == (\E l \in logs : l.block = run.pre.block) /\ ~Canonical(run.pre)
              IN  run' = IF torn THEN Idle
                         ELSE [pc |-> "write", cur |-> run.cur, to |-> run.to, pre |-> run.pre, logs |-> logs]
           /\ UNCHANGED <<chained, index, journal, cursor, backfill, crashes>>

WriteLaunches == /\ run.pc = "write" /\ run' = [run EXCEPT !.pc = "mark"]
                 /\ index' = ZAdd(index, run.logs) /\ journal' = ZAdd(journal, run.logs)
                 /\ UNCHANGED <<chained, cursor, backfill, crashes>>
WriteCursor == /\ run.pc = "mark" /\ cursor' = run.pre
               /\ run' = [pc |-> IF run.pre.block < run.to THEN "scan" ELSE "trim", cur |-> run.pre, to |-> run.to]
               /\ UNCHANGED <<chained, index, journal, backfill, crashes>>

\* The journal keeps the last JOURNAL_BLOCKS blocks; a run whose deadline has come trims from what it reached.
Kept(e, through) == e.block >= through - JournalBlocks
Trim == /\ run.pc \in {"scan", "trim"} /\ run' = Idle
        /\ journal' = {e \in journal : Kept(e, run.cur.block)}
        /\ UNCHANGED <<chained, index, cursor, backfill, crashes>>

\* A crash, a failed call or an unavailable block ends the run where it is; the lock expires.
Crash == /\ crashes < MaxCrashes /\ run # Idle /\ run' = Idle /\ crashes' = crashes + 1
         /\ UNCHANGED <<chained, index, journal, cursor, backfill>>
NoBlock == /\ \/ run.pc = "check" /\ ~Exists(run.cur.block)
              \/ run.pc = "rewind" /\ ~Exists(Back)
           /\ run' = Idle
           /\ UNCHANGED <<chained, index, journal, cursor, backfill, crashes>>

\* -------------------------------------------------------------------------- the operator's backfill
Scan == /\ backfill = Idle /\ Len(chain) - Confirmations > 0
        /\ Quiet => IF cursor = None THEN TRUE ELSE Canonical(cursor) /\ cursor.block < Len(chain) - Confirmations
        /\ backfill' = [pc |-> "scan", top |-> HashAt(Len(chain) - Confirmations)]
        /\ UNCHANGED <<chained, index, journal, cursor, run, crashes>>
ScanLogs == /\ backfill.pc = "scan"
            /\ backfill' = [pc |-> "write", top |-> backfill.top, logs |-> Logs(1, backfill.top.block)]
            /\ UNCHANGED <<chained, index, journal, cursor, run, crashes>>
BackfillLaunches == /\ backfill.pc = "write"
                    /\ backfill' = [pc |-> "mark", top |-> backfill.top, prev |-> cursor]
                    /\ index' = ZAdd(index, backfill.logs)
                    /\ journal' = ZAdd(journal, {l \in backfill.logs : l.block >= backfill.top.block - JournalBlocks})
                    /\ UNCHANGED <<chained, cursor, run, crashes>>

\* The cursor is seeded or moved forward.
Seeds(prev, top) == prev = None \/ prev.block < top.block
BackfillCursor == /\ backfill.pc = "mark" /\ backfill' = Idle
                  /\ cursor' = IF Seeds(backfill.prev, backfill.top) THEN backfill.top ELSE cursor
                  /\ UNCHANGED <<chained, index, journal, run, crashes>>
BackfillCrash == /\ crashes < MaxCrashes /\ backfill # Idle /\ backfill' = Idle /\ crashes' = crashes + 1
                 /\ UNCHANGED <<chained, index, journal, cursor, run>>

Steps == Check \/ NoBlock \/ UndoRoots \/ UndoJournal \/ RewindCursor \/ Header \/ GetLogs
           \/ WriteLaunches \/ WriteCursor \/ Trim
Backfills == Scan \/ ScanLogs \/ BackfillLaunches \/ BackfillCursor
Next == Mine \/ Shallow \/ Deep \/ Start \/ Steps \/ Crash \/ Backfills \/ BackfillCrash

\* The schedule starts a run again and again; a run's calls are answered, and not every run is out of time before
\* its first window; the operator runs the backfill until it has seeded the cursor; the chain goes on.
Fairness == WF_vars(Mine) /\ WF_vars(Start) /\ WF_vars(Steps) /\ SF_vars(Header) /\ WF_vars(cursor = None /\ Backfills)
Spec == Init /\ [][Next]_vars /\ Fairness

\* -------------------------------------------------------------------------- properties
\* The sorted sets hold one score per member, and the cursor never passes the confirmed blocks.
TypeOK == /\ index \cup journal \subseteq [root : Roots, token : Tokens, block : 1..MaxHead]
          /\ \A z \in {index, journal} : \A e, f \in z : e.root = f.root /\ e.token = f.token => e = f
          /\ cursor # None => cursor.block <= Greatest(0, peak - Confirmations)

\* While the cursor's block is canonical, every launch up to it is filed under its pair token: with Quiet, a shallow
\* reorganisation at any time, a deep one between runs, a crash and a rewind leave no gap behind the cursor
\* (pons-index.js:187-236).  TLC refutes it without Quiet: the cursor's hash is compared once (:204), and after a deep
\* reorganisation before the first header of the window (:218) the run moves to a block of the new chain.
NothingMissed == cursor # None /\ Canonical(cursor) => Logs(1, cursor.block) \subseteq index

\* Nothing is filed that the canonical chain does not say, unless the cursor's hash shows the next run what it has to
\* undo: undoFrom reaches every launch of a block that was replaced (pons-index.js:166-185).
NothingForeign == cursor # None /\ Canonical(cursor) => index \subseteq Logs(1, Len(chain))

\* Behind the cursor nothing is missing, and nothing is foreign.
IndexIsExact == NothingMissed /\ NothingForeign

\* Once the chain stops being reorganised the cursor reaches its confirmed head and stays (pons-index.js:213-230).
CatchesUp == <>[](cursor # None /\ Canonical(cursor) /\ cursor.block = MaxHead - Confirmations)
====
