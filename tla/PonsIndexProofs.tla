---- MODULE PonsIndexProofs ----
\* The index is exact behind the cursor, for every chain, every set of tokens and every bound, when a deep
\* reorganisation finds nothing running (Quiet) and reaches no further than the journal and the rewind do.
\* The blocks that a run or the backfill looks at are settled: a shallow reorganisation leaves them, and a deep one
\* waits.  So what they have read stays true until they write it; what has to be proved is that a deep
\* reorganisation leaves everything it made foreign in the journal, and that the undo finds all of it.
EXTENDS PonsIndex, TLAPS

Block == [fork : Nat, launch : {None} \cup [root : Roots, token : Tokens]]
Hash  == [block : Nat, fork : Nat]
Log   == [root : Roots, token : Tokens, block : Nat \ {0}]

\* Blocks that only a deep reorganisation replaces.
Settled == peak - Confirmations
Firm(b) == b = 0 \/ b <= Settled

\* A hash that was read once.  When its block is replaced it never comes back.
Recorded(c) == /\ c \in Hash /\ Firm(c.block) /\ c.fork <= forks
               /\ ~Canonical(c) => c.fork < forks
Good(c) == Recorded(c) /\ Canonical(c)

Key(e) == <<e.root, e.token>>
All == Logs(1, Len(chain))
Behind(b) == Logs(1, b) \subseteq index

\* The cursor does not show an undo to be due.
Ready == cursor = None \/ Canonical(cursor)
Floor == Greatest(0, cursor.block - Rewind)

ChainInv == /\ chain \in Seq(Block) /\ peak \in Nat /\ forks \in Nat /\ Len(chain) <= peak
            /\ \A b \in 1..Len(chain) : chain[b].fork <= forks
            /\ \A b, c \in 1..Len(chain) :
                 chain[b].launch # None /\ chain[c].launch # None /\ chain[b].launch.token = chain[c].launch.token
                   => b = c

\* The journal has every launch a deep reorganisation can reach.
Journaled == \A e \in index : e.block > Settled - JournalBlocks => e \in journal

StoreInv == /\ index \cup journal \subseteq {e \in Log : e.block <= Settled}
            /\ Journaled
            /\ \A e \in index, u \in journal : Key(e) = Key(u) => e = u

CursorInv ==
  /\ cursor # None => Recorded(cursor)
  /\ Ready => index \subseteq All /\ journal \subseteq index /\ (cursor # None => Behind(cursor.block))
  /\ ~Ready => /\ Exists(Floor) /\ Behind(Floor)
               /\ \A e \in index \cup journal : e.block <= Floor => e \in All
               /\ index \subseteq All \cup journal

Undoing == {"undo", "unjournal", "rewind"}
Windows == {"scan", "trim", "header", "write", "mark"}

RunInv ==
  /\ run.pc \in {"idle", "check"} \cup Undoing \cup Windows
  /\ run.pc = "idle" => run = Idle
  /\ run.pc \in {"check"} \cup Undoing =>
       /\ run \in [pc : {"check"} \cup Undoing, cur : Hash, head : Nat] /\ run.head <= peak /\ cursor # None
       /\ run.cur = cursor \/ (Good(run.cur) /\ Behind(run.cur.block) /\ Ready)
  /\ run.pc \in Undoing => run.cur = cursor /\ ~Ready
  /\ run.pc \in {"unjournal", "rewind"} => index \subseteq All
  /\ run.pc = "unjournal" => \A e \in index, u \in Undone : Key(e) # Key(u)
  /\ run.pc = "rewind" => \A u \in journal : u.block <= Floor
  /\ run.pc \in Windows => /\ cursor # None /\ Ready
                           /\ Good(run.cur) /\ Behind(run.cur.block) /\ run.to \in Int /\ run.to <= Settled
  /\ run.pc \in {"scan", "trim"} => run \in [pc : {"scan", "trim"}, cur : Hash, to : Int]
  /\ run.pc = "header" => run \in [pc : {"header"}, cur : Hash, to : Int, pre : Hash]
  /\ run.pc \in {"write", "mark"} => run \in [pc : {"write", "mark"}, cur : Hash, to : Int, pre : Hash, logs : SUBSET Log]
  /\ run.pc \in {"header", "write", "mark"} => Good(run.pre) /\ run.cur.block < run.pre.block
  /\ run.pc = "write" => run.logs = Logs(run.cur.block + 1, run.pre.block)
  /\ run.pc = "mark" => Behind(run.pre.block)

BackfillInv ==
  /\ backfill.pc \in {"idle", "scan", "write", "mark"}
  /\ backfill.pc = "idle" => backfill = Idle
  /\ backfill.pc # "idle" => Ready /\ Good(backfill.top)
  /\ backfill.pc = "write" => backfill.logs = Logs(1, backfill.top.block)
  /\ backfill.pc = "mark" => Behind(backfill.top.block) /\ backfill.prev \in {None} \cup Hash

Inv == ChainInv /\ StoreInv /\ CursorInv /\ RunInv /\ BackfillInv

\* -------------------------------------------------------------------------- lemmas about the chain
LogAt(b) == [root |-> chain[b].launch.root, token |-> chain[b].launch.token, block |-> b]

LEMMA InLogs ==
  ASSUME ChainInv
  PROVE  /\ \A i \in Nat \ {0}, j \in Int : \A e :
              e \in Logs(i, j) <=> \E b \in i..j : b <= Len(chain) /\ chain[b].launch # None /\ e = LogAt(b)
         /\ \A i \in Nat \ {0}, j \in Int : \A e \in Logs(i, j) :
              e \in Log /\ e.block \in i..j /\ e.block \in 1..Len(chain) /\ e = LogAt(e.block)
              /\ chain[e.block].launch # None
<1>1. \A b \in 1..Len(chain) : chain[b] \in Block
  BY DEF ChainInv
<1>2. \A i \in Nat \ {0}, j \in Int : \A e :
        e \in Logs(i, j) <=> \E b \in i..j : b <= Len(chain) /\ chain[b].launch # None /\ e = LogAt(b)
  BY DEF Logs, Exists, LogAt
<1>3. ASSUME NEW i \in Nat \ {0}, NEW j \in Int, NEW e \in Logs(i, j)
      PROVE  e \in Log /\ e.block \in i..j /\ e.block \in 1..Len(chain) /\ e = LogAt(e.block)
             /\ chain[e.block].launch # None
  <2>1. PICK b \in i..j : b <= Len(chain) /\ chain[b].launch # None /\ e = LogAt(b)
    BY <1>2, <1>3
  <2>2. b \in 1..Len(chain) /\ chain[b].launch \in [root : Roots, token : Tokens]
    BY <1>1, <2>1 DEF ChainInv, Block
  <2> QED  BY <2>1, <2>2 DEF LogAt, Log
<1> QED  BY <1>2, <1>3

\* What a step that leaves the blocks up to k alone leaves true.
LEMMA Keeps ==
  ASSUME ChainInv, ChainInv', NEW k \in Int,
         \A b \in 1..Len(chain) : b <= k => b <= Len(chain') /\ chain'[b] = chain[b]
  PROVE  /\ \A e \in All : e.block <= k => e \in All'
         /\ \A b \in Nat : Exists(b) /\ (b <= k \/ b = 0) =>
              Exists(b)' /\ \A i \in Nat \ {0} : Logs(i, b)' = Logs(i, b)
         /\ \A c \in Hash : Canonical(c) /\ (c.block <= k \/ c.block = 0) => Canonical(c)'
<1>1. ASSUME NEW e \in All, e.block <= k  PROVE e \in All'
  <2>1. e \in Log /\ e.block \in 1..Len(chain) /\ e = LogAt(e.block) /\ chain[e.block].launch # None
    BY InLogs, <1>1 DEF All, ChainInv
  <2>2. e.block \in 1..Len(chain') /\ chain'[e.block] = chain[e.block]
    BY <1>1, <2>1 DEF ChainInv
  <2>3. e = LogAt(e.block)'
    BY <2>1, <2>2 DEF LogAt
  <2> QED  BY <2>1, <2>2, <2>3, Len(chain') \in Nat DEF All, Logs, Exists, LogAt, ChainInv
<1>2. ASSUME NEW b \in Nat, Exists(b), b <= k \/ b = 0
      PROVE  Exists(b)' /\ \A i \in Nat \ {0} : Logs(i, b)' = Logs(i, b)
  <2>1. b <= Len(chain') /\ \A x \in 1..b : x <= Len(chain) /\ x <= Len(chain') /\ chain'[x] = chain[x]
    BY <1>2 DEF Exists, ChainInv
  <2>2. \A i \in Nat \ {0} : \A x \in i..b : x <= Len(chain) /\ x <= Len(chain') /\ chain'[x] = chain[x]
    BY <2>1
  <2>3. ASSUME NEW i \in Nat \ {0}  PROVE Logs(i, b)' = Logs(i, b)
    BY <2>2 DEF Logs, Exists
  <2> QED  BY <2>1, <2>3 DEF Exists
<1>3. ASSUME NEW c \in Hash, Canonical(c), c.block <= k \/ c.block = 0  PROVE Canonical(c)'
  BY <1>3 DEF Canonical, HashAt, Exists, Hash, ChainInv
<1> QED  BY <1>1, <1>2, <1>3

\* A canonical chain has one launch of a token.
LEMMA OneLaunch ==
  ASSUME ChainInv, NEW e \in All, NEW u \in All, Key(e) = Key(u)
  PROVE  e = u
<1>1. /\ e.block \in 1..Len(chain) /\ e = LogAt(e.block) /\ chain[e.block].launch # None
      /\ u.block \in 1..Len(chain) /\ u = LogAt(u.block) /\ chain[u.block].launch # None
      /\ e \in Log /\ u \in Log
  BY InLogs DEF All, ChainInv
<1>2. e.token = u.token
  BY DEF Key
<1>3. chain[e.block].launch.token = chain[u.block].launch.token
  BY <1>1, <1>2 DEF LogAt
<1>4. e.block = u.block
  BY <1>1, <1>3 DEF ChainInv
<1> QED  BY <1>1, <1>4

LEMMA AddingLogs ==
  ASSUME ChainInv, NEW z \in SUBSET All, NEW new \in SUBSET All
  PROVE  ZAdd(z, new) = z \cup new
<1>1. \A e \in z, n \in new : Key(n) = Key(e) => e = n
  BY OneLaunch
<1> QED  BY <1>1 DEF ZAdd, Key

\* Logs of part of the chain.
LEMMA PartOfAll ==
  ASSUME ChainInv
  PROVE  /\ \A i \in Nat \ {0}, j \in Int : Logs(i, j) \subseteq {e \in All : e.block \in i..j}
         /\ \A i, j \in Nat : i < j => Logs(1, j) = Logs(1, i) \cup Logs(i + 1, j)
         /\ \A i \in Nat : \A j \in Nat : i <= j => Logs(1, i) \subseteq Logs(1, j)
         /\ \A e \in All, j \in Nat : e.block <= j => e \in Logs(1, j)
<1>1. ASSUME NEW i \in Nat \ {0}, NEW j \in Int, NEW e \in Logs(i, j)
      PROVE  e \in All /\ e.block \in i..j
  <2>1. e.block \in i..j /\ e.block \in 1..Len(chain) /\ e = LogAt(e.block) /\ chain[e.block].launch # None
    BY InLogs, <1>1
  <2> QED  BY <2>1 DEF All, Logs, Exists, LogAt, ChainInv
<1>2. ASSUME NEW i \in Nat, NEW j \in Nat, i < j
      PROVE  Logs(1, j) = Logs(1, i) \cup Logs(i + 1, j)
  <2>1. 1..j = (1..i) \cup (i + 1)..j
    BY <1>2
  <2> QED  BY <2>1 DEF Logs
<1>3. ASSUME NEW i \in Nat, NEW j \in Nat, i <= j  PROVE Logs(1, i) \subseteq Logs(1, j)
  <2>1. 1..i \subseteq 1..j
    BY <1>3
  <2> QED  BY <2>1 DEF Logs
<1>4. ASSUME NEW e \in All, NEW j \in Nat, e.block <= j  PROVE e \in Logs(1, j)
  <2>1. e.block \in 1..Len(chain) /\ e = LogAt(e.block) /\ chain[e.block].launch # None /\ e \in Log
    BY InLogs DEF All, ChainInv
  <2> QED  BY <1>4, <2>1 DEF Logs, Exists, LogAt, ChainInv
<1> QED  BY <1>1, <1>2, <1>3, <1>4

\* The numbers of a chain.
LEMMA Numbers ==
  ASSUME ChainInv
  PROVE  /\ Len(chain) \in Nat /\ peak \in Nat /\ forks \in Nat /\ Len(chain) <= peak
         /\ {Confirmations, Rewind, JournalBlocks, MaxBlocks} \subseteq Nat
         /\ Settled = peak - Confirmations /\ Settled \in Int
<1>1. Len(chain) \in Nat /\ peak \in Nat /\ forks \in Nat /\ Len(chain) <= peak
  BY DEF ChainInv
<1>2. {Confirmations, Rewind, JournalBlocks, MaxBlocks} \subseteq Nat
  BY PonsConstants
<1> QED  BY <1>1, <1>2 DEF Settled

LEMMA MineGrows ==
  ASSUME ChainInv, Mine
  PROVE  /\ ChainInv' /\ forks' = forks /\ peak <= peak'
         /\ Settled \in Int /\ Settled' \in Int /\ Settled <= Settled'
         /\ Len(chain') = Len(chain) + 1 /\ chain'[Len(chain) + 1].fork = forks
         /\ \A b \in 1..Len(chain) : b <= Len(chain') /\ chain'[b] = chain[b]
<1>1. PICK l \in {None} \cup [root : Roots, token : Tokens \ Launched] :
        chain' = Append(chain, [fork |-> forks, launch |-> l])
  BY DEF Mine
<1> DEFINE n == Len(chain) + 1
<1>2. [fork |-> forks, launch |-> l] \in Block
  BY <1>1 DEF Block, ChainInv
<1>3. /\ chain' \in Seq(Block) /\ Len(chain') = n /\ chain'[n] = [fork |-> forks, launch |-> l]
      /\ n \in Nat \ {0} /\ \A b \in 1..Len(chain) : chain'[b] = chain[b]
  BY <1>1, <1>2 DEF ChainInv
<1>4. peak' = Greatest(peak, n) /\ peak' \in Nat /\ peak <= peak' /\ n <= peak' /\ forks' = forks
  BY <1>3 DEF Mine, Greatest, ChainInv
<1>5. \A b \in 1..Len(chain') : chain'[b].fork <= forks'
  BY <1>3, <1>4 DEF ChainInv
<1>6. \A b \in 1..Len(chain) : l # None /\ chain[b].launch # None => chain[b].launch.token # l.token
  BY <1>1 DEF Launched, ChainInv, PonsConstants
<1>7. ASSUME NEW b \in 1..Len(chain'), NEW c \in 1..Len(chain'),
             chain'[b].launch # None, chain'[c].launch # None, chain'[b].launch.token = chain'[c].launch.token
      PROVE  b = c
  <2>1. CASE b \in 1..Len(chain) /\ c \in 1..Len(chain)
    BY <1>3, <1>7, <2>1 DEF ChainInv
  <2>2. CASE b = n /\ c \in 1..Len(chain)
    BY <1>3, <1>6, <1>7, <2>2
  <2>3. CASE c = n /\ b \in 1..Len(chain)
    BY <1>3, <1>6, <1>7, <2>3
  <2> QED  BY <1>3, <2>1, <2>2, <2>3 DEF ChainInv
<1>8. ChainInv'
  BY <1>3, <1>4, <1>5, <1>7 DEF ChainInv
<1>9. Settled \in Int /\ Settled' \in Int /\ Settled <= Settled'
  BY <1>4, Numbers DEF Settled
<1>10. Len(chain) \in Nat
  BY Numbers
<1> QED  BY <1>3, <1>4, <1>8, <1>9, <1>10

LEMMA CutShortens ==
  ASSUME ChainInv, NEW k \in 0..Len(chain) - 1, Cut(k)
  PROVE  /\ ChainInv' /\ peak' = peak /\ forks' = forks + 1 /\ Len(chain') = k
         /\ \A b \in 1..Len(chain) : b <= k => b <= Len(chain') /\ chain'[b] = chain[b]
<1>1. Len(chain) \in Nat /\ k \in Nat /\ k <= Len(chain)
  BY DEF ChainInv
<1>2. /\ chain' = [b \in 1..k |-> chain[b]] /\ Len(chain') = k
      /\ \A b \in 1..k : chain'[b] = chain[b]
  BY <1>1 DEF Cut, ChainInv
<1>3. chain' \in Seq(Block)
  <2>1. SubSeq(chain, 1, k) \in Seq(Block)
    BY <1>1 DEF ChainInv
  <2> QED  BY <2>1 DEF Cut
<1>4. peak' = peak /\ forks' = forks + 1
  BY DEF Cut
<1>5. \A b \in 1..k : b \in 1..Len(chain) /\ chain'[b] = chain[b]
  BY <1>1, <1>2
<1>6. \A b \in 1..k : chain'[b].fork <= forks + 1
  <2>1. \A b \in 1..Len(chain) : chain[b] \in Block /\ chain[b].fork <= forks
    BY DEF ChainInv
  <2>2. \A b \in 1..Len(chain) : chain[b].fork <= forks + 1
    BY <2>1 DEF ChainInv, Block
  <2> QED  BY <1>5, <2>2
<1>7. \A b, c \in 1..k :
        chain'[b].launch # None /\ chain'[c].launch # None /\ chain'[b].launch.token = chain'[c].launch.token
          => b = c
  BY <1>5 DEF ChainInv
<1>8. k <= peak /\ peak \in Nat /\ forks + 1 \in Nat
  BY <1>1 DEF ChainInv
<1>9. ChainInv'
  BY <1>2, <1>3, <1>4, <1>6, <1>7, <1>8 DEF ChainInv
<1> QED  BY <1>1, <1>2, <1>4, <1>9

\* A block that was replaced does not come back.
LEMMA RecordedStays ==
  ASSUME ChainInv, Mine \/ Shallow \/ Deep, NEW c \in Hash, Recorded(c)
  PROVE  /\ Recorded(c)'
         /\ ~Canonical(c) => ~Canonical(c)'
<1>1. CASE Mine
  <2>1. Canonical(c)' <=> Canonical(c)
    <3>1. /\ c.block \in Nat /\ c.fork \in Nat /\ c = [block |-> c.block, fork |-> c.fork]
          /\ Len(chain) \in Nat /\ forks \in Nat
      BY Numbers DEF Hash
    <3>2. /\ Len(chain') = Len(chain) + 1 /\ chain'[Len(chain) + 1].fork = forks
          /\ \A b \in 1..Len(chain) : chain'[b] = chain[b]
      BY <1>1, MineGrows
    <3>3. CASE c.block <= Len(chain)
      BY <3>1, <3>2, <3>3 DEF Canonical, HashAt, Exists
    <3>4. CASE c.block > Len(chain)
      <4>1. ~Canonical(c) /\ c.fork < forks
        BY <3>1, <3>4 DEF Recorded, Canonical, Exists
      <4>2. c.block = Len(chain) + 1 => HashAt(c.block)'.fork = forks
        BY <3>1, <3>2 DEF HashAt
      <4>3. Canonical(c)' => c.block = Len(chain) + 1 /\ HashAt(c.block)' = c
        BY <3>1, <3>2, <3>4 DEF Canonical, Exists
      <4> QED  BY <3>1, <4>1, <4>2, <4>3
    <3> QED  BY <3>1, <3>3, <3>4
  <2> QED  BY <1>1, <2>1, MineGrows DEF Recorded, Firm, Hash
<1>2. ASSUME NEW k \in 0..Len(chain) - 1, Cut(k)
      PROVE  Recorded(c)' /\ (~Canonical(c) => ~Canonical(c)')
  <2>1. Canonical(c)' => Canonical(c)
    <3>1. c.block \in Nat /\ Len(chain) \in Nat /\ k \in Nat /\ k <= Len(chain)
      BY Numbers DEF Hash
    <3>2. Len(chain') = k /\ \A b \in 1..k : chain'[b] = chain[b]
      BY <1>2, <3>1, CutShortens
    <3> QED  BY <3>1, <3>2 DEF Canonical, HashAt, Exists
  <2> QED  BY <1>2, <2>1, CutShortens DEF Recorded, Firm, Settled, Hash, ChainInv
<1> QED  BY <1>1, <1>2 DEF Shallow, Deep

\* -------------------------------------------------------------------------- steps of the chain
\* Growth and a shallow reorganisation leave what is settled.
LEMMA SettledStays ==
  ASSUME ChainInv, Mine \/ Shallow
  PROVE  /\ ChainInv' /\ peak <= peak' /\ Settled \in Int /\ Settled' \in Int /\ Settled <= Settled'
         /\ \A e \in All : e.block <= Settled => e \in All'
         /\ \A b \in Nat : Exists(b) /\ Firm(b) =>
              Exists(b)' /\ Firm(b)' /\ \A i \in Nat \ {0} : Logs(i, b)' = Logs(i, b)
         /\ \A c \in Hash : Recorded(c) => Recorded(c)' /\ (Canonical(c)' <=> Canonical(c))
         /\ UNCHANGED <<index, journal, cursor, run, backfill>>
<1>1. /\ ChainInv' /\ peak <= peak' /\ Settled \in Int /\ Settled' \in Int /\ Settled <= Settled'
      /\ \A b \in 1..Len(chain) : b <= Settled => b <= Len(chain') /\ chain'[b] = chain[b]
  <2>1. CASE Mine
    BY <2>1, MineGrows
  <2>2. CASE Shallow
    <3>1. PICK k \in 0..Len(chain) - 1 : k >= peak - Confirmations /\ Cut(k)
      BY <2>2 DEF Shallow
    <3>2. /\ ChainInv' /\ peak' = peak
          /\ \A b \in 1..Len(chain) : b <= k => b <= Len(chain') /\ chain'[b] = chain[b]
      BY <3>1, CutShortens
    <3>3. Len(chain) \in Nat /\ k \in Nat /\ peak \in Nat
      BY Numbers
    <3>4. Settled = peak - Confirmations /\ Settled \in Int /\ Settled' = Settled
      BY <3>2, Numbers DEF Settled
    <3> QED  BY <3>1, <3>2, <3>3, <3>4
  <2> QED  BY <2>1, <2>2
<1>2. /\ \A e \in All : e.block <= Settled => e \in All'
      /\ \A b \in Nat : Exists(b) /\ Firm(b) => Exists(b)' /\ \A i \in Nat \ {0} : Logs(i, b)' = Logs(i, b)
      /\ \A c \in Hash : Canonical(c) /\ Firm(c.block) => Canonical(c)'
  BY <1>1, Keeps DEF Firm
<1>3. \A b \in Nat : Firm(b) => Firm(b)'
  BY <1>1 DEF Firm
<1>4. \A c \in Hash : Recorded(c) => Recorded(c)' /\ (Canonical(c)' <=> Canonical(c))
  BY <1>2, RecordedStays DEF Recorded
<1>5. UNCHANGED <<index, journal, cursor, run, backfill>>
  BY DEF Mine, Shallow, Cut
<1> QED  BY <1>1, <1>2, <1>3, <1>4, <1>5

LEMMA FloorFirm ==
  ASSUME ChainInv, cursor \in Hash, Firm(cursor.block)
  PROVE  Floor \in Nat /\ Firm(Floor) /\ Floor <= cursor.block
BY PonsConstants DEF Floor, Greatest, Firm, Settled, ChainInv, Hash

\* The logs up to a recorded block that is canonical.
LEMMA GoodBlock ==
  ASSUME NEW c \in Hash, Good(c)
  PROVE  c.block \in Nat /\ Exists(c.block) /\ Firm(c.block)
BY DEF Good, Recorded, Canonical, Hash

LEMMA SteadyInv == Inv /\ (Mine \/ Shallow) => Inv'
<1> SUFFICES ASSUME Inv, Mine \/ Shallow PROVE Inv'
  OBVIOUS
<1>1. ChainInv /\ StoreInv /\ CursorInv /\ RunInv /\ BackfillInv
  BY DEF Inv
<1>2. /\ ChainInv' /\ peak <= peak' /\ Settled \in Int /\ Settled' \in Int /\ Settled <= Settled'
      /\ \A e \in All : e.block <= Settled => e \in All'
      /\ \A b \in Nat : Exists(b) /\ Firm(b) =>
              Exists(b)' /\ Firm(b)' /\ \A i \in Nat \ {0} : Logs(i, b)' = Logs(i, b)
      /\ \A c \in Hash : Recorded(c) => Recorded(c)' /\ (Canonical(c)' <=> Canonical(c))
      /\ index' = index /\ journal' = journal /\ cursor' = cursor /\ run' = run /\ backfill' = backfill
  BY <1>1, SettledStays
<1>3. \A e \in index \cup journal : e \in Log /\ e.block <= Settled
  BY <1>1 DEF StoreInv
<1>4. \A e \in index \cup journal : e \in All => e \in All'
  BY <1>2, <1>3
<1>5. \A c \in Hash : Good(c) => /\ Good(c)' /\ (Behind(c.block) => Behind(c.block)')
                                 /\ \A i \in Nat \ {0} : Logs(i, c.block)' = Logs(i, c.block)
  <2> SUFFICES ASSUME NEW c \in Hash, Good(c)
               PROVE  /\ Good(c)' /\ (Behind(c.block) => Behind(c.block)')
                      /\ \A i \in Nat \ {0} : Logs(i, c.block)' = Logs(i, c.block)
    OBVIOUS
  <2>1. c.block \in Nat /\ Exists(c.block) /\ Firm(c.block)
    BY GoodBlock
  <2> QED  BY <1>2, <2>1 DEF Good, Behind
<1>6. cursor # None => cursor \in Hash /\ Recorded(cursor)
  BY <1>1 DEF CursorInv, Recorded
<1>7. Ready' <=> Ready
  BY <1>2, <1>6 DEF Ready
<1>8. Ready /\ cursor # None => Good(cursor)
  BY <1>6 DEF Ready, Good
<1>9. StoreInv'
  <2>1. \A e \in index \cup journal : e \in Log /\ e.block \in Int /\ e.block <= Settled'
    BY <1>2, <1>3 DEF Log
  <2>2. Journaled'
    BY <1>1, <1>2, <2>1, PonsConstants DEF StoreInv, Journaled
  <2> QED  BY <1>1, <1>2, <2>1, <2>2 DEF StoreInv, Key
<1>10. CursorInv'
  <2>1. (cursor # None => Recorded(cursor))'
    BY <1>2, <1>6
  <2>2. (Ready => index \subseteq All /\ journal \subseteq index /\ (cursor # None => Behind(cursor.block)))'
    BY <1>1, <1>2, <1>4, <1>5, <1>6, <1>7, <1>8 DEF CursorInv
  <2>3. ASSUME ~Ready
        PROVE  (/\ Exists(Floor) /\ Behind(Floor)
                /\ \A e \in index \cup journal : e.block <= Floor => e \in All
                /\ index \subseteq All \cup journal)'
    <3>1. cursor \in Hash /\ Firm(cursor.block)
      BY <1>6, <2>3 DEF Ready, Recorded
    <3>2. Floor \in Nat /\ Firm(Floor) /\ Floor' = Floor
      BY <1>1, <1>2, <3>1, FloorFirm DEF Floor, Greatest
    <3>3. Exists(Floor) /\ Behind(Floor) /\ index \subseteq All \cup journal
          /\ \A e \in index \cup journal : e.block <= Floor => e \in All
      BY <1>1, <2>3 DEF CursorInv
    <3>4. Exists(Floor)' /\ Logs(1, Floor)' = Logs(1, Floor)
      BY <1>2, <3>2, <3>3
    <3> QED  BY <1>2, <1>4, <3>2, <3>3, <3>4 DEF Behind
  <2> QED  BY <1>7, <2>1, <2>2, <2>3 DEF CursorInv
<1>11. RunInv'
  <2>1. run.head \in Nat /\ run.head <= peak => run.head <= peak'
    BY <1>1, <1>2 DEF ChainInv
  <2>2. run.to \in Int /\ run.to <= Settled => run.to <= Settled'
    BY <1>2
  <2>3. run.pc \in {"unjournal", "rewind"} => (index \subseteq All)'
    BY <1>1, <1>2, <1>4 DEF RunInv
  <2>4. run.pc = "rewind" => (\A u \in journal : u.block <= Floor)'
    BY <1>1, <1>2 DEF RunInv, Floor, Greatest
  <2>5. Undone' = Undone
    BY <1>2 DEF Undone, Back, Greatest
  <2>6. run.pc \in {"check"} \cup Undoing => (run.cur = cursor \/ (Good(run.cur) /\ Behind(run.cur.block) /\ Ready))'
    BY <1>1, <1>2, <1>5, <1>7 DEF RunInv
  <2>7. run.pc \in Windows => run.cur \in Hash /\ (Good(run.cur) /\ Behind(run.cur.block))'
    BY <1>1, <1>2, <1>5 DEF RunInv, Windows, Good, Recorded
  <2>8. run.pc \in {"header", "write", "mark"} => run.pre \in Hash /\ Good(run.pre)'
    BY <1>1, <1>2, <1>5 DEF RunInv, Good, Recorded
  <2>9. run.pc = "write" => (run.logs = Logs(run.cur.block + 1, run.pre.block))'
    BY <1>1, <1>2, <1>5 DEF RunInv, Good, Recorded, Hash
  <2>10. run.pc = "mark" => Behind(run.pre.block)'
    BY <1>1, <1>2, <1>5 DEF RunInv, Good, Recorded
  <2> QED  BY <1>1, <1>2, <1>7, <2>1, <2>2, <2>3, <2>4, <2>5, <2>6, <2>7, <2>8, <2>9, <2>10
           DEF RunInv, Key, Undoing, Windows
<1>12. BackfillInv'
  BY <1>1, <1>2, <1>5, <1>7 DEF BackfillInv, Good, Recorded
<1> QED  BY <1>2, <1>9, <1>10, <1>11, <1>12 DEF Inv

\* A deep reorganisation leaves in the journal everything that it makes foreign, and nothing below the rewind.
LEMMA DeepInv == ASSUME Quiet PROVE Inv /\ Deep => Inv'
<1> SUFFICES ASSUME Inv, Deep PROVE Inv'
  OBVIOUS
<1>1. ChainInv /\ StoreInv /\ CursorInv /\ RunInv /\ BackfillInv
  BY DEF Inv
<1>2. PICK k \in 0..Len(chain) - 1 :
        /\ k < peak - Confirmations /\ k >= Reach /\ (cursor # None => k >= cursor.block - Rewind)
        /\ Cut(k)
  BY DEF Deep
<1>3. /\ run = Idle /\ backfill = Idle /\ ~HalfWritten
      /\ index' = index /\ journal' = journal /\ cursor' = cursor /\ run' = run /\ backfill' = backfill
  BY <1>2 DEF Deep, Cut
<1>4. /\ ChainInv' /\ peak' = peak /\ Len(chain') = k /\ k \in Nat /\ Len(chain) \in Nat /\ k < Len(chain)
      /\ \A b \in 1..Len(chain) : b <= k => b <= Len(chain') /\ chain'[b] = chain[b]
  BY <1>1, <1>2, CutShortens DEF ChainInv
<1>5. /\ \A e \in All : e.block <= k => e \in All'
      /\ \A b \in Nat : b <= k => Exists(b)' /\ Logs(1, b)' = Logs(1, b)
  <2>1. \A b \in Nat : b <= k => Exists(b)
    BY <1>4 DEF Exists
  <2> QED  BY <1>1, <1>4, <2>1, Keeps
<1>6. Settled' = Settled /\ Settled \in Int /\ JournalBlocks \in Nat /\ k >= Settled - JournalBlocks
  <2>1. /\ peak \in Nat /\ {Confirmations, JournalBlocks} \subseteq Nat
        /\ Settled = peak - Confirmations /\ Settled \in Int
    BY <1>1, Numbers
  <2>2. Settled' = Settled /\ Reach = Settled - JournalBlocks
    BY <1>4, <2>1 DEF Settled, Reach
  <2> QED  BY <1>2, <2>1, <2>2
<1>7. cursor # None => cursor \in Hash /\ Recorded(cursor) /\ Recorded(cursor)'
                       /\ (Canonical(cursor)' => Canonical(cursor))
  BY <1>1, <1>3, RecordedStays DEF CursorInv, Recorded
<1>8. \A e \in index : cursor # None /\ e.block <= cursor.block
  <2>1. \A e \in index : e \in Log
    BY <1>1 DEF StoreInv
  <2> QED  BY <1>3, <1>7, <2>1 DEF HalfWritten, Log, Hash
<1>9. \A e \in index \cup journal : e \in Log
  BY <1>1 DEF StoreInv
<1>10. StoreInv'
  BY <1>1, <1>3, <1>6 DEF StoreInv, Journaled, Key
<1>11. CursorInv'
  <2>1. (cursor # None => Recorded(cursor))'
    BY <1>3, <1>7
  <2>2. ASSUME Ready'
        PROVE  (index \subseteq All /\ journal \subseteq index /\ (cursor # None => Behind(cursor.block)))'
    <3>1. Ready /\ (cursor # None => Canonical(cursor) /\ Canonical(cursor)')
      BY <1>3, <1>7, <2>2 DEF Ready
    <3>2. index \subseteq All /\ journal \subseteq index /\ (cursor # None => Behind(cursor.block))
      BY <1>1, <3>1 DEF CursorInv
    <3>3. cursor # None => cursor.block \in Nat /\ cursor.block <= k
      BY <1>3, <1>4, <1>7, <3>1 DEF Canonical, Exists, Hash
    <3>4. \A e \in index : e.block <= k
      BY <1>4, <1>8, <1>9, <3>3 DEF Log
    <3>5. index \subseteq All'
      BY <1>5, <3>2, <3>4
    <3>6. cursor # None => Behind(cursor.block)'
      BY <1>3, <1>5, <3>2, <3>3 DEF Behind
    <3> QED  BY <1>3, <3>2, <3>5, <3>6
  <2>3. ASSUME ~Ready'
        PROVE  (/\ Exists(Floor) /\ Behind(Floor)
                /\ \A e \in index \cup journal : e.block <= Floor => e \in All
                /\ index \subseteq All \cup journal)'
    <3>1. cursor # None /\ cursor \in Hash /\ Firm(cursor.block)
      BY <1>3, <1>7, <2>3 DEF Ready, Recorded
    <3>2. Floor \in Nat /\ Floor <= cursor.block /\ Floor' = Floor
      BY <1>1, <1>3, <3>1, FloorFirm DEF Floor, Greatest
    <3>3. Floor <= k
      BY <1>2, <1>4, <3>1, PonsConstants DEF Floor, Greatest, Hash
    <3>4. Behind(Floor)
      <4>1. CASE Ready
        <5>1. Behind(cursor.block)
          BY <1>1, <3>1, <4>1 DEF CursorInv
        <5>2. Logs(1, Floor) \subseteq Logs(1, cursor.block)
          BY <1>1, <3>1, <3>2, PartOfAll DEF Hash
        <5> QED  BY <5>1, <5>2 DEF Behind
      <4>2. CASE ~Ready
        BY <1>1, <4>2 DEF CursorInv
      <4> QED  BY <4>1, <4>2
    <3>5. \A e \in index \cup journal : e.block <= Floor => e \in All
      BY <1>1 DEF CursorInv
    <3>6. index \subseteq All \cup journal
      BY <1>1 DEF CursorInv
    <3>7. \A e \in index : e.block <= k \/ e \in journal
      BY <1>1, <1>4, <1>6, <1>9 DEF StoreInv, Journaled, Log
    <3>8. Exists(Floor)' /\ Behind(Floor)'
      BY <1>3, <1>5, <3>2, <3>3, <3>4 DEF Behind
    <3>9. \A e \in index \cup journal : e.block <= Floor => e \in All'
      BY <1>4, <1>5, <1>9, <3>2, <3>3, <3>5 DEF Log
    <3> QED  BY <1>3, <1>5, <3>2, <3>6, <3>7, <3>8, <3>9
  <2> QED  BY <2>1, <2>2, <2>3 DEF CursorInv
<1>12. RunInv'
  BY <1>1, <1>3 DEF RunInv, Idle, Undoing, Windows
<1>13. BackfillInv'
  BY <1>1, <1>3 DEF BackfillInv, Idle
<1> QED  BY <1>4, <1>10, <1>11, <1>12, <1>13 DEF Inv

\* -------------------------------------------------------------------------- steps of the run and of the backfill
LEMMA SameChain ==
  ASSUME UNCHANGED <<chain, peak, forks>>
  PROVE  /\ ChainInv' = ChainInv /\ Settled' = Settled /\ All' = All
         /\ \A b : Exists(b)' = Exists(b)
         /\ \A i, j : Logs(i, j)' = Logs(i, j)
         /\ \A c : Canonical(c)' = Canonical(c) /\ Recorded(c)' = Recorded(c) /\ Good(c)' = Good(c)
BY DEF ChainInv, Settled, All, Exists, Logs, Canonical, HashAt, Recorded, Firm, Good

LEMMA StoreStays ==
  ASSUME Inv, UNCHANGED <<chain, peak, forks, index, journal, cursor>>
  PROVE  /\ ChainInv' /\ StoreInv' /\ CursorInv'
         /\ Ready' = Ready /\ \A b : Behind(b)' = Behind(b)
<1>1. Ready' = Ready /\ Floor' = Floor /\ \A b : Behind(b)' = Behind(b)
  BY SameChain DEF Ready, Floor, Greatest, Behind
<1>2. StoreInv'
  BY SameChain DEF Inv, StoreInv, Journaled, Key
<1>3. CursorInv'
  BY <1>1, SameChain DEF Inv, CursorInv
<1> QED  BY <1>1, <1>2, <1>3, SameChain DEF Inv

LEMMA RunIdles == run' = Idle => RunInv'
BY DEF RunInv, Idle, Undoing, Windows

\* What the backfill does beside a run.
LEMMA RunBeside ==
  ASSUME Inv, UNCHANGED <<chain, peak, forks, run>>, Ready, Ready', index \subseteq index',
         cursor # None => cursor' # None
  PROVE  RunInv'
<1>1. \A b : Behind(b) => Behind(b)'
  BY SameChain DEF Behind
<1>2. RunInv /\ (Ready /\ cursor # None => Good(cursor) /\ Behind(cursor.block))
  BY DEF Inv, CursorInv, Ready, Good
<1>3. run.pc \notin Undoing
  BY <1>2 DEF RunInv
<1>4. run.pc = "check" => Good(run.cur) /\ Behind(run.cur.block)
  BY <1>2 DEF RunInv
<1> QED  BY <1>1, <1>2, <1>3, <1>4, SameChain DEF RunInv, Undoing, Windows

\* What a run does beside the backfill.
LEMMA BackfillBeside ==
  ASSUME Inv, UNCHANGED <<chain, peak, forks, backfill>>,
         Ready => Ready' /\ index \subseteq index'
  PROVE  BackfillInv'
<1>1. Ready => \A b : Behind(b) => Behind(b)'
  BY SameChain DEF Behind
<1> QED  BY <1>1, SameChain DEF Inv, BackfillInv

LEMMA StartInv == Inv /\ Start => Inv'
<1> SUFFICES ASSUME Inv, Start PROVE Inv'
  OBVIOUS
<1>1. /\ UNCHANGED <<chain, peak, forks, index, journal, cursor>> /\ backfill' = backfill
      /\ cursor # None /\ run' = [pc |-> "check", cur |-> cursor, head |-> Len(chain)]
  BY DEF Start, chained
<1>2. cursor \in Hash /\ Len(chain) \in Nat /\ Len(chain) <= peak
  BY <1>1 DEF Inv, CursorInv, Recorded, ChainInv
<1>3. RunInv'
  BY <1>1, <1>2 DEF RunInv, Undoing, Windows
<1> QED  BY <1>1, <1>3, StoreStays, BackfillBeside DEF Inv

\* A window that begins at a good block ends at a settled one.
LEMMA AheadFits ==
  ASSUME Inv, NEW c \in Hash, NEW head \in Nat, head <= peak, run.head = head
  PROVE  \/ Ahead(c) = Idle
         \/ \E to \in Int : to <= Settled /\ Ahead(c) = [pc |-> "scan", cur |-> c, to |-> to]
<1>1. Safe \in Int /\ Safe <= Settled /\ c.block + MaxBlocks \in Int
  <2>1. peak \in Nat /\ {Confirmations, MaxBlocks} \subseteq Nat /\ Settled = peak - Confirmations
    BY Numbers DEF Inv
  <2>2. c.block \in Nat
    BY DEF Hash
  <2> QED  BY <2>1, <2>2 DEF Safe
<1>2. Least(Safe, c.block + MaxBlocks) \in Int /\ Least(Safe, c.block + MaxBlocks) <= Settled
  <2>1. Settled \in Int
    BY Numbers DEF Inv
  <2> QED  BY <1>1, <2>1 DEF Least
<1> QED  BY <1>2 DEF Ahead

LEMMA WindowFits ==
  ASSUME Inv, UNCHANGED <<chain, peak, forks>>, NEW c \in Hash, NEW to \in Int, to <= Settled,
         Good(c), Behind(c.block)', cursor' # None, Ready',
         run' = [pc |-> "scan", cur |-> c, to |-> to] \/ run' = [pc |-> "trim", cur |-> c, to |-> to]
  PROVE  RunInv'
BY SameChain DEF RunInv, Undoing, Windows

LEMMA CheckInv == Inv /\ Check => Inv'
<1> SUFFICES ASSUME Inv, Check PROVE Inv'
  OBVIOUS
<1>1. /\ UNCHANGED <<chain, peak, forks, index, journal, cursor>> /\ backfill' = backfill /\ run.pc = "check"
      /\ run' = IF Canonical(run.cur) THEN Ahead(run.cur) ELSE [run EXCEPT !.pc = "undo"]
  BY DEF Check, chained, Intact
<1>2. /\ run \in [pc : {"check"}, cur : Hash, head : Nat] /\ run.head <= peak /\ cursor # None
      /\ run.cur = cursor \/ (Good(run.cur) /\ Behind(run.cur.block) /\ Ready)
  BY <1>1 DEF Inv, RunInv
<1>3. /\ ChainInv' /\ StoreInv' /\ CursorInv' /\ BackfillInv'
      /\ Ready' = Ready /\ \A b : Behind(b)' = Behind(b)
  BY <1>1, StoreStays, BackfillBeside
<1>4. CASE Canonical(run.cur)
  <2>1. Good(run.cur) /\ Behind(run.cur.block) /\ Ready
    BY <1>2, <1>4 DEF Inv, CursorInv, Good, Ready
  <2>2. CASE Ahead(run.cur) = Idle
    BY <1>1, <1>3, <1>4, <2>2, RunIdles DEF Inv
  <2>3. ASSUME NEW to \in Int, to <= Settled, Ahead(run.cur) = [pc |-> "scan", cur |-> run.cur, to |-> to]
        PROVE  RunInv'
    BY <1>1, <1>2, <1>3, <1>4, <2>1, <2>3, WindowFits
  <2> QED  BY <1>2, <1>3, <2>2, <2>3, AheadFits DEF Inv
<1>5. CASE ~Canonical(run.cur)
  <2>1. run.cur = cursor /\ ~Ready
    BY <1>2, <1>5 DEF Good, Ready
  <2>2. run' \in [pc : {"undo"}, cur : Hash, head : Nat] /\ run'.cur = run.cur /\ run'.head = run.head
    BY <1>1, <1>2, <1>5
  <2>3. RunInv'
    BY <1>1, <1>2, <1>3, <2>1, <2>2 DEF RunInv, Undoing, Windows
  <2> QED  BY <1>3, <2>3 DEF Inv
<1> QED  BY <1>4, <1>5

\* undoFrom works from the cursor that the run has read.
LEMMA UndoFacts ==
  ASSUME Inv, run.pc \in Undoing
  PROVE  /\ run \in [pc : Undoing, cur : Hash, head : Nat] /\ run.head <= peak
         /\ run.cur = cursor /\ cursor \in Hash /\ cursor # None /\ ~Ready /\ backfill = Idle
         /\ Back = Floor /\ Floor \in Nat /\ Firm(Floor)
         /\ Undone = {u \in journal : u.block > Floor}
         /\ Exists(Floor) /\ Behind(Floor) /\ index \subseteq All \cup journal
         /\ \A e \in index \cup journal : e \in Log /\ (e.block <= Floor => e \in All)
<1>1. /\ run \in [pc : {"check"} \cup Undoing, cur : Hash, head : Nat] /\ run.head <= peak
      /\ run.cur = cursor /\ cursor # None /\ ~Ready
  BY DEF Inv, RunInv
<1>2. cursor \in Hash /\ Firm(cursor.block)
  BY <1>1 DEF Inv, CursorInv, Recorded
<1>3. Floor \in Nat /\ Firm(Floor)
  BY <1>2, FloorFirm DEF Inv
<1>4. Back = Floor
  BY <1>1 DEF Back, Floor
<1>5. Undone = {u \in journal : u.block > Floor}
  BY <1>4 DEF Undone
<1>6. backfill = Idle
  BY <1>1 DEF Inv, BackfillInv
<1>7. /\ Exists(Floor) /\ Behind(Floor) /\ index \subseteq All \cup journal
      /\ \A e \in index \cup journal : e \in Log /\ (e.block <= Floor => e \in All)
  BY <1>1 DEF Inv, CursorInv, StoreInv
<1>8. run \in [pc : Undoing, cur : Hash, head : Nat]
  BY <1>1
<1> QED  BY <1>1, <1>2, <1>3, <1>4, <1>5, <1>6, <1>7, <1>8

LEMMA UndoRootsInv == Inv /\ UndoRoots => Inv'
<1> SUFFICES ASSUME Inv, UndoRoots PROVE Inv'
  OBVIOUS
<1>1. /\ UNCHANGED <<chain, peak, forks>> /\ journal' = journal /\ cursor' = cursor /\ backfill' = backfill
      /\ run.pc = "undo" /\ run' = [run EXCEPT !.pc = "unjournal"]
      /\ index' = {e \in index : \A u \in Undone : Key(e) # Key(u)}
  BY DEF UndoRoots, chained, Key
<1>2. /\ run \in [pc : Undoing, cur : Hash, head : Nat] /\ run.head <= peak
      /\ run.cur = cursor /\ cursor \in Hash /\ cursor # None /\ ~Ready /\ backfill = Idle
      /\ Floor \in Nat /\ Undone = {u \in journal : u.block > Floor}
      /\ Exists(Floor) /\ Behind(Floor) /\ index \subseteq All \cup journal
      /\ \A e \in index \cup journal : e \in Log /\ (e.block <= Floor => e \in All)
  BY <1>1, UndoFacts DEF Undoing
<1>3. /\ ~Ready' /\ Floor' = Floor /\ All' = All /\ ChainInv'
      /\ \A b : Exists(b)' = Exists(b) /\ Logs(1, b)' = Logs(1, b)
  BY <1>1, <1>2, SameChain DEF Ready, Floor, Greatest, Inv
<1>4. run' \in [pc : {"unjournal"}, cur : Hash, head : Nat] /\ run'.cur = run.cur /\ run'.head = run.head
  BY <1>1, <1>2
<1>5. Undone' = Undone
  BY <1>1, <1>4 DEF Undone, Back, Greatest
<1>6. Behind(Floor)'
  <2> SUFFICES ASSUME NEW e \in Logs(1, Floor), NEW u \in Undone, Key(e) = Key(u)  PROVE FALSE
    BY <1>1, <1>2, <1>3 DEF Behind
  <2>1. e \in index /\ e.block \in 1..Floor
    BY <1>2, InLogs DEF Behind, Inv
  <2>2. e = u
    BY <1>2, <2>1 DEF Inv, StoreInv
  <2> QED  BY <1>2, <2>1, <2>2
<1>7. index' \subseteq All
  <2> SUFFICES ASSUME NEW e \in index, e \notin All, \A u \in Undone : Key(e) # Key(u)  PROVE FALSE
    BY <1>1
  <2>1. e \in journal /\ e.block > Floor
    BY <1>2 DEF Log
  <2> QED  BY <1>2, <2>1
<1>8. StoreInv'
  BY <1>1, SameChain DEF Inv, StoreInv, Journaled, Key
<1>9. CursorInv'
  BY <1>1, <1>2, <1>3, <1>6, <1>7, SameChain DEF Inv, CursorInv
<1>10. RunInv'
  BY <1>1, <1>2, <1>3, <1>4, <1>5, <1>7, SameChain DEF RunInv, Undoing, Windows, Key, Inv
<1>11. BackfillInv'
  BY <1>1, <1>2, BackfillBeside
<1> QED  BY <1>3, <1>8, <1>9, <1>10, <1>11 DEF Inv

LEMMA UndoJournalInv == Inv /\ UndoJournal => Inv'
<1> SUFFICES ASSUME Inv, UndoJournal PROVE Inv'
  OBVIOUS
<1>1. /\ UNCHANGED <<chain, peak, forks>> /\ index' = index /\ cursor' = cursor /\ backfill' = backfill
      /\ run.pc = "unjournal" /\ run' = [run EXCEPT !.pc = "rewind"] /\ journal' = journal \ Undone
  BY DEF UndoJournal, chained
<1>2. /\ run \in [pc : Undoing, cur : Hash, head : Nat] /\ run.head <= peak
      /\ run.cur = cursor /\ cursor \in Hash /\ cursor # None /\ ~Ready /\ backfill = Idle
      /\ Floor \in Nat /\ Undone = {u \in journal : u.block > Floor}
      /\ Exists(Floor) /\ Behind(Floor)
      /\ \A e \in index \cup journal : e \in Log /\ (e.block <= Floor => e \in All)
  BY <1>1, UndoFacts DEF Undoing
<1>3. /\ ~Ready' /\ Floor' = Floor /\ All' = All /\ ChainInv'
      /\ \A b : Exists(b)' = Exists(b) /\ Behind(b)' = Behind(b)
  BY <1>1, <1>2, SameChain DEF Ready, Floor, Greatest, Inv, Behind
<1>4. run' \in [pc : {"rewind"}, cur : Hash, head : Nat] /\ run'.cur = run.cur /\ run'.head = run.head
  BY <1>1, <1>2
<1>5. index \subseteq All /\ \A e \in index : e \notin Undone
  BY <1>1 DEF Inv, RunInv
<1>6. \A u \in journal' : u.block <= Floor
  BY <1>1, <1>2 DEF Log
<1>7. StoreInv'
  BY <1>1, <1>5, SameChain DEF Inv, StoreInv, Journaled, Key
<1>8. CursorInv'
  BY <1>1, <1>2, <1>3, <1>5, SameChain DEF Inv, CursorInv
<1>9. RunInv'
  BY <1>1, <1>2, <1>3, <1>4, <1>5, <1>6, SameChain DEF RunInv, Undoing, Windows
<1>10. BackfillInv'
  BY <1>1, <1>2, BackfillBeside
<1> QED  BY <1>3, <1>7, <1>8, <1>9, <1>10 DEF Inv

\* The cursor may be put on any settled block behind which the index is exact.
LEMMA CursorMoves ==
  ASSUME Inv, UNCHANGED <<chain, peak, forks, index, journal>>, index \subseteq All, journal \subseteq index,
         NEW c \in Hash, Good(c), Behind(c.block), c # None, cursor' = c
  PROVE  /\ ChainInv' /\ StoreInv' /\ CursorInv' /\ Ready'
         /\ \A b : Behind(b)' = Behind(b)
<1>1. Ready' /\ \A b : Behind(b)' = Behind(b)
  BY SameChain DEF Ready, Good, Behind
<1>2. StoreInv'
  BY SameChain DEF Inv, StoreInv, Journaled, Key
<1>3. CursorInv'
  BY <1>1, SameChain DEF CursorInv, Good
<1> QED  BY <1>1, <1>2, <1>3, SameChain DEF Inv

LEMMA HashIsGood ==
  ASSUME ChainInv, NEW b \in Nat, Exists(b), Firm(b)
  PROVE  HashAt(b) \in Hash /\ HashAt(b).block = b /\ Good(HashAt(b)) /\ HashAt(b) # None
<1>1. CASE b = 0
  BY <1>1, PonsConstants DEF HashAt, Hash, Good, Recorded, Canonical, ChainInv
<1>2. CASE b # 0
  <2>0. b \in 1..Len(chain) /\ Firm(b)
    BY <1>2 DEF Exists, ChainInv
  <2>1. chain[b] \in Block /\ chain[b].fork <= forks
    BY <2>0 DEF ChainInv
  <2>3. chain[b].fork \in Nat
    BY <2>1 DEF Block
  <2>2. HashAt(b) = [block |-> b, fork |-> chain[b].fork]
    BY <1>2 DEF HashAt
  <2> QED  BY <2>0, <2>1, <2>2, <2>3, PonsConstants DEF Hash, Good, Recorded, Canonical
<1> QED  BY <1>1, <1>2

LEMMA RewindCursorInv == Inv /\ RewindCursor => Inv'
<1> SUFFICES ASSUME Inv, RewindCursor PROVE Inv'
  OBVIOUS
<1>1. /\ UNCHANGED <<chain, peak, forks, index, journal>> /\ backfill' = backfill /\ run.pc = "rewind"
      /\ cursor' = HashAt(Back) /\ run' = Ahead(cursor')
  BY DEF RewindCursor, chained
<1>2. /\ run \in [pc : Undoing, cur : Hash, head : Nat] /\ run.head <= peak /\ ~Ready
      /\ Back = Floor /\ Floor \in Nat /\ Firm(Floor) /\ Exists(Floor) /\ Behind(Floor)
      /\ \A e \in index \cup journal : e.block <= Floor => e \in All
  BY <1>1, UndoFacts DEF Undoing
<1>3. index \subseteq All /\ \A u \in journal : u.block <= Floor
  BY <1>1 DEF Inv, RunInv
<1>4. \A u \in journal : u \in Logs(1, Floor)
  BY <1>2, <1>3, PartOfAll DEF Inv
<1>5. journal \subseteq index
  BY <1>2, <1>4 DEF Behind
<1> DEFINE c == HashAt(Back)
<1>6. c \in Hash /\ c.block = Floor /\ Good(c) /\ c # None
  BY <1>2, HashIsGood DEF Inv
<1> HIDE DEF c
<1>7. cursor' = c /\ run' = Ahead(c)
  BY <1>1 DEF c
<1>8. /\ ChainInv' /\ StoreInv' /\ CursorInv' /\ Ready'
      /\ \A b : Behind(b)' = Behind(b)
  BY <1>1, <1>2, <1>3, <1>5, <1>6, <1>7, CursorMoves
<1>9. RunInv'
  <2>1. CASE Ahead(c) = Idle
    BY <1>7, <2>1, RunIdles
  <2>2. ASSUME NEW to \in Int, to <= Settled, Ahead(c) = [pc |-> "scan", cur |-> c, to |-> to]
        PROVE  RunInv'
    BY <1>1, <1>2, <1>6, <1>7, <1>8, <2>2, WindowFits
  <2> QED  BY <1>2, <1>6, <2>1, <2>2, AheadFits
<1>10. BackfillInv'
  BY <1>1, <1>2, BackfillBeside
<1> QED  BY <1>8, <1>9, <1>10 DEF Inv

LEMMA WindowFacts ==
  ASSUME Inv, run.pc \in Windows
  PROVE  /\ cursor # None /\ Ready /\ run.cur \in Hash /\ Good(run.cur) /\ Behind(run.cur.block)
         /\ run.to \in Int /\ run.to <= Settled
         /\ index \subseteq All /\ journal \subseteq index
BY DEF Inv, RunInv, CursorInv, Good, Recorded

LEMMA HeaderInv == Inv /\ Header => Inv'
<1> SUFFICES ASSUME Inv, Header PROVE Inv'
  OBVIOUS
<1>1. PICK end \in run.cur.block + 1..run.to :
        Exists(end) /\ run' = [pc |-> "header", cur |-> run.cur, to |-> run.to, pre |-> HashAt(end)]
  BY DEF Header
<1>2. /\ UNCHANGED <<chain, peak, forks, index, journal, cursor>> /\ backfill' = backfill /\ run.pc = "scan"
  BY DEF Header, chained
<1>3. /\ cursor # None /\ Ready /\ run.cur \in Hash /\ Good(run.cur) /\ Behind(run.cur.block)
      /\ run.to \in Int /\ run.to <= Settled
  BY <1>2, WindowFacts DEF Windows
<1>4. /\ ChainInv' /\ StoreInv' /\ CursorInv' /\ BackfillInv'
      /\ Ready' = Ready /\ \A b : Behind(b)' = Behind(b)
  BY <1>2, StoreStays, BackfillBeside
<1>5. end \in Nat /\ run.cur.block < end /\ Firm(end)
  <2>1. run.cur.block \in Nat /\ run.to \in Int /\ Settled \in Int
    BY <1>3, Numbers DEF Inv, Hash
  <2> QED  BY <1>1, <1>3, <2>1 DEF Firm
<1> DEFINE pre == HashAt(end)
<1>6. pre \in Hash /\ pre.block = end /\ Good(pre)
  BY <1>1, <1>5, HashIsGood DEF Inv
<1> HIDE DEF pre
<1>7. run' = [pc |-> "header", cur |-> run.cur, to |-> run.to, pre |-> pre]
  BY <1>1 DEF pre
<1>8. run' \in [pc : {"header"}, cur : Hash, to : Int, pre : Hash] /\ run'.cur = run.cur /\ run'.to = run.to
      /\ run'.pre = pre /\ run'.pc = "header"
  BY <1>3, <1>6, <1>7
<1>9. RunInv'
  BY <1>2, <1>3, <1>4, <1>5, <1>6, <1>8, SameChain DEF RunInv, Undoing, Windows
<1> QED  BY <1>4, <1>9 DEF Inv

LEMMA GetLogsInv == Inv /\ GetLogs => Inv'
<1> SUFFICES ASSUME Inv, GetLogs PROVE Inv'
  OBVIOUS
<1> DEFINE logs == Logs(run.cur.block + 1, run.pre.block)
<1>1. /\ UNCHANGED <<chain, peak, forks, index, journal, cursor>> /\ backfill' = backfill /\ run.pc = "header"
      /\ \/ run' = Idle
         \/ run' = [pc |-> "write", cur |-> run.cur, to |-> run.to, pre |-> run.pre, logs |-> logs]
  BY DEF GetLogs, chained
<1>2. /\ cursor # None /\ Ready /\ run.cur \in Hash /\ Good(run.cur) /\ Behind(run.cur.block)
      /\ run.to \in Int /\ run.to <= Settled
  BY <1>1, WindowFacts DEF Windows
<1>3. run.pre \in Hash /\ Good(run.pre) /\ run.cur.block < run.pre.block
  BY <1>1 DEF Inv, RunInv
<1>4. /\ ChainInv' /\ StoreInv' /\ CursorInv' /\ BackfillInv'
      /\ Ready' = Ready /\ \A b : Behind(b)' = Behind(b)
  BY <1>1, StoreStays, BackfillBeside
<1>5. logs \in SUBSET Log
  <2>1. run.cur.block + 1 \in Nat \ {0} /\ run.pre.block \in Int
    BY <1>2, <1>3 DEF Hash
  <2>2. ChainInv
    BY DEF Inv
  <2> QED  BY <2>1, <2>2, InLogs
<1>6. ASSUME run' = [pc |-> "write", cur |-> run.cur, to |-> run.to, pre |-> run.pre, logs |-> logs]
      PROVE  RunInv'
  <2>1. run' \in [pc : {"write"}, cur : Hash, to : Int, pre : Hash, logs : SUBSET Log]
        /\ run'.cur = run.cur /\ run'.to = run.to /\ run'.pre = run.pre
    BY <1>2, <1>3, <1>5, <1>6
  <2>2. run'.logs = Logs(run.cur.block + 1, run.pre.block)'
    BY <1>1, <1>6, <2>1, SameChain
  <2> QED  BY <1>1, <1>2, <1>3, <1>4, <2>1, <2>2, SameChain DEF RunInv, Undoing, Windows
<1> QED  BY <1>1, <1>4, <1>6, RunIdles DEF Inv

\* Launches of settled blocks are filed: both sets grow by exactly what is not there.
LEMMA Files ==
  ASSUME Inv, UNCHANGED <<chain, peak, forks, cursor>>, Ready,
         NEW new \in SUBSET {e \in All : e.block <= Settled}, NEW recent \in SUBSET new,
         \A e \in new : e.block > Settled - JournalBlocks => e \in recent,
         index' = ZAdd(index, new), journal' = ZAdd(journal, recent)
  PROVE  /\ ChainInv' /\ StoreInv' /\ CursorInv' /\ Ready'
         /\ index' = index \cup new
<1>1. index \subseteq All /\ journal \subseteq index
  BY DEF Inv, CursorInv
<1>2. index' = index \cup new /\ journal' = journal \cup recent
  BY <1>1, AddingLogs DEF Inv
<1>3. index' \subseteq All /\ journal' \subseteq index'
  BY <1>1, <1>2
<1>4. \A e \in index', u \in journal' : Key(e) = Key(u) => e = u
  BY <1>3, OneLaunch DEF Inv
<1>5. \A e \in index' : e \in Log /\ e.block <= Settled
  <2>1. \A e \in new : e \in Log
    BY InLogs DEF All, Inv, ChainInv
  <2> QED  BY <1>2, <2>1 DEF Inv, StoreInv
<1>6. Journaled'
  BY <1>2, SameChain DEF Inv, StoreInv, Journaled
<1>7. StoreInv'
  BY <1>3, <1>4, <1>5, <1>6, SameChain DEF StoreInv, Key
<1>8. Ready'
  BY SameChain DEF Ready
<1>9. CursorInv'
  BY <1>2, <1>3, <1>8, SameChain DEF Inv, CursorInv, Behind
<1> QED  BY <1>2, <1>7, <1>8, <1>9, SameChain DEF Inv

LEMMA WriteLaunchesInv == Inv /\ WriteLaunches => Inv'
<1> SUFFICES ASSUME Inv, WriteLaunches PROVE Inv'
  OBVIOUS
<1>1. /\ UNCHANGED <<chain, peak, forks, cursor>> /\ backfill' = backfill /\ run.pc = "write"
      /\ run' = [run EXCEPT !.pc = "mark"]
      /\ index' = ZAdd(index, run.logs) /\ journal' = ZAdd(journal, run.logs)
  BY DEF WriteLaunches, chained
<1>2. /\ cursor # None /\ Ready /\ run.cur \in Hash /\ Good(run.cur) /\ Behind(run.cur.block)
      /\ run.to \in Int /\ run.to <= Settled
  BY <1>1, WindowFacts DEF Windows
<1>3. /\ run \in [pc : {"write", "mark"}, cur : Hash, to : Int, pre : Hash, logs : SUBSET Log]
      /\ Good(run.pre) /\ run.cur.block < run.pre.block
      /\ run.logs = Logs(run.cur.block + 1, run.pre.block)
  BY <1>1 DEF Inv, RunInv
<1>4. run.cur.block \in Nat /\ run.pre.block \in Nat /\ run.pre.block <= Settled
  BY <1>3 DEF Good, Recorded, Firm, Hash
<1>5. run.logs \subseteq {e \in All : e.block <= Settled}
  <2>1. run.logs \subseteq {e \in All : e.block \in run.cur.block + 1 .. run.pre.block}
    BY <1>3, <1>4, PartOfAll DEF Inv
  <2>2. Settled \in Int
    BY PonsConstants DEF Inv, ChainInv, Settled
  <2> QED  BY <1>4, <2>1, <2>2
<1>6. /\ ChainInv' /\ StoreInv' /\ CursorInv' /\ Ready'
      /\ index' = index \cup run.logs
  BY <1>1, <1>2, <1>5, Files
<1>7. Behind(run.pre.block)' /\ Behind(run.cur.block)'
  <2>1. Logs(1, run.pre.block) = Logs(1, run.cur.block) \cup run.logs
    BY <1>3, <1>4, PartOfAll DEF Inv
  <2>2. Logs(1, run.pre.block) \subseteq index' /\ Logs(1, run.cur.block) \subseteq index'
    BY <1>2, <1>6, <2>1 DEF Behind
  <2>3. run'.pre = run.pre /\ run'.cur = run.cur
    BY <1>1, <1>3
  <2> QED  BY <1>1, <2>2, <2>3, SameChain DEF Behind
<1>8. run' \in [pc : {"mark"}, cur : Hash, to : Int, pre : Hash, logs : SUBSET Log]
      /\ run'.cur = run.cur /\ run'.to = run.to /\ run'.pre = run.pre
  BY <1>1, <1>3
<1>9. RunInv'
  BY <1>1, <1>2, <1>3, <1>6, <1>7, <1>8, SameChain DEF RunInv, Undoing, Windows
<1>10. BackfillInv'
  BY <1>1, <1>6, BackfillBeside
<1> QED  BY <1>6, <1>9, <1>10 DEF Inv

LEMMA WriteCursorInv == Inv /\ WriteCursor => Inv'
<1> SUFFICES ASSUME Inv, WriteCursor PROVE Inv'
  OBVIOUS
<1>1. /\ UNCHANGED <<chain, peak, forks, index, journal>> /\ backfill' = backfill /\ run.pc = "mark"
      /\ cursor' = run.pre
      /\ \/ run' = [pc |-> "scan", cur |-> run.pre, to |-> run.to]
         \/ run' = [pc |-> "trim", cur |-> run.pre, to |-> run.to]
  BY DEF WriteCursor, chained
<1>2. /\ cursor # None /\ Ready /\ run.to \in Int /\ run.to <= Settled
      /\ index \subseteq All /\ journal \subseteq index
  BY <1>1, WindowFacts DEF Windows
<1>3. run.pre \in Hash /\ Good(run.pre) /\ Behind(run.pre.block) /\ run.pre # None
  BY <1>1, PonsConstants DEF Inv, RunInv, Hash
<1>4. /\ ChainInv' /\ StoreInv' /\ CursorInv' /\ Ready'
      /\ \A b : Behind(b)' = Behind(b)
  BY <1>1, <1>2, <1>3, CursorMoves
<1>5. RunInv'
  BY <1>1, <1>2, <1>3, <1>4, WindowFits
<1>6. BackfillInv'
  BY <1>1, <1>4, BackfillBeside
<1> QED  BY <1>4, <1>5, <1>6 DEF Inv

\* The journal is trimmed from a settled block, so what a deep reorganisation may still reach stays in it.
LEMMA TrimInv == Inv /\ Trim => Inv'
<1> SUFFICES ASSUME Inv, Trim PROVE Inv'
  OBVIOUS
<1>1. /\ UNCHANGED <<chain, peak, forks, index, cursor>> /\ backfill' = backfill /\ run.pc \in {"scan", "trim"}
      /\ run' = Idle /\ journal' = {e \in journal : Kept(e, run.cur.block)}
  BY DEF Trim, chained
<1>2. cursor # None /\ Ready /\ run.cur \in Hash /\ Good(run.cur)
  BY <1>1, WindowFacts DEF Windows
<1>3. \A e \in journal : e.block > Settled - JournalBlocks => Kept(e, run.cur.block)
  <2>1. /\ Settled \in Int /\ JournalBlocks \in Nat /\ run.cur.block \in Nat
        /\ run.cur.block = 0 \/ run.cur.block <= Settled
    BY <1>2, PonsConstants DEF Inv, ChainInv, Settled, Good, Recorded, Firm, Hash
  <2>2. \A e \in journal : e.block \in Nat
    BY DEF Inv, StoreInv, Log
  <2> QED  BY <2>1, <2>2 DEF Kept
<1>4. StoreInv'
  BY <1>1, <1>3, SameChain DEF Inv, StoreInv, Journaled, Key
<1>5. Ready'
  BY <1>1, <1>2, SameChain DEF Ready
<1>6. CursorInv'
  BY <1>1, <1>2, <1>5, SameChain DEF Inv, CursorInv, Behind
<1>7. BackfillInv'
  BY <1>1, <1>5, BackfillBeside
<1> QED  BY <1>1, <1>4, <1>6, <1>7, SameChain, RunIdles DEF Inv

LEMMA StopInv == Inv /\ (Crash \/ NoBlock) => Inv'
<1> SUFFICES ASSUME Inv, Crash \/ NoBlock PROVE Inv'
  OBVIOUS
<1>1. UNCHANGED <<chain, peak, forks, index, journal, cursor>> /\ backfill' = backfill /\ run' = Idle
  BY DEF Crash, NoBlock, chained
<1> QED  BY <1>1, StoreStays, BackfillBeside, RunIdles DEF Inv

LEMMA BackfillReady ==
  ASSUME Inv, backfill.pc # "idle"
  PROVE  Ready /\ backfill.top \in Hash /\ Good(backfill.top) /\ index \subseteq All /\ journal \subseteq index
BY DEF Inv, BackfillInv, CursorInv, Good, Recorded

LEMMA ScanInv == ASSUME Quiet PROVE Inv /\ Scan => Inv'
<1> SUFFICES ASSUME Inv, Scan PROVE Inv'
  OBVIOUS
<1> DEFINE n == Len(chain) - Confirmations
           top == HashAt(n)
<1>1. /\ UNCHANGED <<chain, peak, forks, index, journal, cursor>> /\ run' = run
      /\ n > 0 /\ Ready /\ backfill' = [pc |-> "scan", top |-> top]
  BY DEF Scan, chained, Ready
<1>2. n \in Nat /\ Exists(n) /\ Firm(n)
  BY <1>1, PonsConstants DEF Inv, ChainInv, Exists, Firm, Settled
<1>3. top \in Hash /\ Good(top)
  BY <1>2, HashIsGood DEF Inv
<1> HIDE DEF n, top
<1>4. /\ ChainInv' /\ StoreInv' /\ CursorInv' /\ Ready'
  BY <1>1, StoreStays
<1>5. RunInv'
  BY <1>1, <1>4, RunBeside
<1>6. BackfillInv'
  BY <1>1, <1>3, <1>4, SameChain DEF BackfillInv
<1> QED  BY <1>4, <1>5, <1>6 DEF Inv

LEMMA ScanLogsInv == Inv /\ ScanLogs => Inv'
<1> SUFFICES ASSUME Inv, ScanLogs PROVE Inv'
  OBVIOUS
<1>1. /\ UNCHANGED <<chain, peak, forks, index, journal, cursor>> /\ run' = run /\ backfill.pc = "scan"
      /\ backfill' = [pc |-> "write", top |-> backfill.top, logs |-> Logs(1, backfill.top.block)]
  BY DEF ScanLogs, chained
<1>2. Ready /\ Good(backfill.top)
  BY <1>1, BackfillReady
<1>3. /\ ChainInv' /\ StoreInv' /\ CursorInv' /\ Ready'
  BY <1>1, <1>2, StoreStays
<1>4. RunInv'
  BY <1>1, <1>2, <1>3, RunBeside
<1>5. BackfillInv'
  BY <1>1, <1>2, <1>3, SameChain DEF BackfillInv
<1> QED  BY <1>3, <1>4, <1>5 DEF Inv

LEMMA BackfillLaunchesInv == Inv /\ BackfillLaunches => Inv'
<1> SUFFICES ASSUME Inv, BackfillLaunches PROVE Inv'
  OBVIOUS
<1> DEFINE top == backfill.top
           recent == {l \in backfill.logs : l.block >= top.block - JournalBlocks}
<1>1. /\ UNCHANGED <<chain, peak, forks, cursor>> /\ run' = run /\ backfill.pc = "write"
      /\ backfill' = [pc |-> "mark", top |-> top, prev |-> cursor]
      /\ index' = ZAdd(index, backfill.logs) /\ journal' = ZAdd(journal, recent)
  BY DEF BackfillLaunches, chained
<1>2. Ready /\ top \in Hash /\ Good(top) /\ backfill.logs = Logs(1, top.block)
  BY <1>1, BackfillReady DEF Inv, BackfillInv
<1>3. /\ Settled \in Int /\ JournalBlocks \in Nat /\ top.block \in Nat
      /\ top.block = 0 \/ top.block <= Settled
  BY <1>2, PonsConstants DEF Inv, ChainInv, Settled, Good, Recorded, Firm, Hash
<1>4. \A e \in backfill.logs : e \in All /\ e.block \in 1..top.block
  BY <1>2, <1>3, PartOfAll DEF Inv
<1>5. backfill.logs \in SUBSET {e \in All : e.block <= Settled}
  BY <1>3, <1>4
<1>6. \A e \in backfill.logs : e.block > Settled - JournalBlocks => e \in recent
  BY <1>3, <1>4
<1>7. recent \in SUBSET backfill.logs
  OBVIOUS
<1> HIDE DEF recent
<1>8. /\ ChainInv' /\ StoreInv' /\ CursorInv' /\ Ready'
      /\ index' = index \cup backfill.logs
  BY <1>1, <1>2, <1>5, <1>6, <1>7, Files
<1>9. RunInv'
  BY <1>1, <1>2, <1>8, RunBeside
<1>10. cursor \in {None} \cup Hash
  BY DEF Inv, CursorInv, Recorded
<1>11. BackfillInv'
  BY <1>1, <1>2, <1>8, <1>10, SameChain DEF BackfillInv, Behind
<1> QED  BY <1>8, <1>9, <1>11 DEF Inv

LEMMA BackfillCursorInv == Inv /\ BackfillCursor => Inv'
<1> SUFFICES ASSUME Inv, BackfillCursor PROVE Inv'
  OBVIOUS
<1>1. /\ UNCHANGED <<chain, peak, forks, index, journal>> /\ run' = run /\ backfill.pc = "mark"
      /\ backfill' = Idle
      /\ cursor' = backfill.top \/ cursor' = cursor
  BY DEF BackfillCursor, chained
<1>2. /\ Ready /\ backfill.top \in Hash /\ Good(backfill.top)
      /\ index \subseteq All /\ journal \subseteq index
      /\ Behind(backfill.top.block) /\ backfill.top # None
  BY <1>1, BackfillReady, PonsConstants DEF Inv, BackfillInv, Hash
<1>3. ChainInv' /\ StoreInv' /\ CursorInv' /\ Ready' /\ (cursor # None => cursor' # None)
  <2>1. CASE cursor' = backfill.top
    BY <1>1, <1>2, <2>1, CursorMoves
  <2>2. CASE cursor' = cursor
    BY <1>1, <1>2, <2>2, StoreStays
  <2> QED  BY <1>1, <2>1, <2>2
<1>4. RunInv'
  BY <1>1, <1>2, <1>3, RunBeside
<1>5. BackfillInv'
  BY <1>1 DEF BackfillInv, Idle
<1> QED  BY <1>3, <1>4, <1>5 DEF Inv

LEMMA BackfillCrashInv == Inv /\ BackfillCrash => Inv'
<1> SUFFICES ASSUME Inv, BackfillCrash PROVE Inv'
  OBVIOUS
<1>1. /\ UNCHANGED <<chain, peak, forks, index, journal, cursor>> /\ run' = run /\ backfill' = Idle
      /\ backfill.pc # "idle"
  BY DEF BackfillCrash, chained, Inv, BackfillInv
<1>2. Ready
  BY <1>1, BackfillReady
<1>3. /\ ChainInv' /\ StoreInv' /\ CursorInv' /\ Ready'
  BY <1>1, <1>2, StoreStays
<1>4. RunInv' /\ BackfillInv'
  BY <1>1, <1>2, <1>3, RunBeside DEF BackfillInv, Idle
<1> QED  BY <1>3, <1>4 DEF Inv

\* -------------------------------------------------------------------------- the theorem
LEMMA InitInv == Init => Inv
<1> SUFFICES ASSUME Init PROVE Inv
  OBVIOUS
<1>1. Len(chain) = 0 /\ chain \in Seq(Block)
  BY DEF Init
<1>2. ChainInv
  BY <1>1 DEF Init, ChainInv
<1> QED  BY <1>2 DEF Init, Inv, StoreInv, Journaled, CursorInv, Ready, RunInv, BackfillInv, Idle, Undoing, Windows

LEMMA StutterInv == Inv /\ UNCHANGED vars => Inv'
<1> SUFFICES ASSUME Inv, UNCHANGED vars PROVE Inv'
  OBVIOUS
<1>1. UNCHANGED <<chain, peak, forks, index, journal, cursor>> /\ run' = run /\ backfill' = backfill
  BY DEF vars
<1>2. RunInv'
  BY <1>1, StoreStays, SameChain DEF Inv, RunInv, Undone, Back, Greatest, Key, Undoing, Windows, Floor
<1> QED  BY <1>1, <1>2, StoreStays, BackfillBeside DEF Inv

LEMMA StepInv == ASSUME Quiet PROVE Inv /\ [Next]_vars => Inv'
BY SteadyInv, DeepInv, StartInv, CheckInv, StopInv, UndoRootsInv, UndoJournalInv, RewindCursorInv, HeaderInv,
   GetLogsInv, WriteLaunchesInv, WriteCursorInv, TrimInv, ScanInv, ScanLogsInv, BackfillLaunchesInv,
   BackfillCursorInv, BackfillCrashInv, StutterInv
   DEF Next, Steps, Backfills

\* Whatever the chain, the indexer, the backfill and their crashes do, the root sets say exactly what the canonical
\* chain says up to the cursor, unless the cursor's hash shows that an undo is due (pons-index.js:166-236).
THEOREM ExactTheorem == ASSUME Quiet PROVE Spec => []IndexIsExact
<1>1. Inv => IndexIsExact
  BY DEF Inv, CursorInv, Ready, IndexIsExact, NothingMissed, NothingForeign, Behind, All
<1> QED  BY <1>1, InitInv, StepInv, PTL DEF Spec
====
