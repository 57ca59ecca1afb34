---------------------------- MODULE AnchoringProofs ----------------------------
(***************************************************************************)
(* Theorems about Anchoring, for every set of attestations and of runs, any *)
(* number of days, crashes, refusals, forgotten and reorganised             *)
(* transactions: no lock is relied on.  What a run has read is either still *)
(* so when it writes, since its compare-and-set expects it, or it is of a   *)
(* kind that does not change: the queue of a day for which no request can   *)
(* still write, and what was ever in a block.                               *)
(***************************************************************************)
EXTENDS Anchoring, FiniteSetTheorems, WellFoundedInduction, TLAPS

Bundle == [leaves: SUBSET Attestations, status: {"none", "sent", "confirmed", "failed", "broadcast-failed"},
           nonce: Nat, attempts: Nat, ots: {"none", "submitted", "bitcoin"}]
Transaction == [d: Days, k: Nat, nonce: Nat]
Loop   == [pc: {"build", "anchor", "submit", "upgrade", "end"}, d: Days, today: Days]
Freeze == [pc: {"freeze"}, d: Days, today: Days, leaves: SUBSET Attestations]
Mark   == [pc: {"mark", "send", "refused"}, d: Days, today: Days, raw: Bundle, next: Bundle]
Ots    == [pc: {"ots"}, d: Days, today: Days, raw: Bundle, next: Bundle, after: Loop]
Handler == {Idle} \cup Loop \cup Freeze \cup Mark \cup Ots

Typed ==
  /\ day \in Days /\ phase \in 0 .. DayLength - 1 /\ lock \in 0 .. LockTtl
  /\ held \subseteq Days /\ queue \in [Days -> SUBSET Attestations]
  /\ bundle \in [Days -> Bundle]
  /\ age \in [Days -> 0 .. Wait]
  /\ run \in [Runs -> Handler]
  /\ pool \subseteq Transaction /\ IsFiniteSet(pool)
  /\ mined \subseteq [tx: Transaction, ok: BOOLEAN] /\ IsFiniteSet(mined)
  /\ orphaned \subseteq [tx: Transaction, ok: BOOLEAN]

\* A request may still write for a day that is not over, and for yesterday in
\* the first unit of a day.
Open(d) == day <= d \/ (phase = 0 /\ day = d + 1)

\* No bundle is built for which a request may still write.
DaysAreOver ==
  /\ \A d \in Days : Built(d) => ~Open(d)
  /\ \A d \in held : Open(d)

Sent == pool \cup {m.tx : m \in mined \cup orphaned}

\* The run that will settle an attempt has seen it in a block; the one that
\* makes a new attempt makes it for a bundle that is not confirmed.
Decides(s) ==
  /\ s.raw.status # "confirmed"
  /\ \/ s.next = Marked(s.raw, s.next.nonce)
     \/ /\ s.raw.status = "sent"
        /\ \E m \in mined \cup orphaned :
             /\ m.tx = [d |-> s.d, k |-> s.raw.attempts, nonce |-> s.raw.nonce]
             /\ s.next = [s.raw EXCEPT !.status = IF m.ok THEN "confirmed" ELSE "failed"]

\* The run that recorded an attempt and has not sent it is alone with it: no
\* transaction of it was ever in a block.
Pending(s) ==
  /\ s.next.status = "sent"
  /\ s.next.attempts <= bundle[s.d].attempts
  /\ \A x \in Sent : ~(x.d = s.d /\ x.k = s.next.attempts)
  /\ s.next.attempts = bundle[s.d].attempts =>
       bundle[s.d].nonce = s.next.nonce /\ bundle[s.d].status = "sent"

\* The proof of a bundle only goes forward.
Upgrades(s) ==
  \/ s.raw.ots = "none" /\ s.next = [s.raw EXCEPT !.ots = "submitted"]
  \/ s.raw.ots = "submitted" /\ s.next = [s.raw EXCEPT !.ots = "bitcoin"]

\* Where a run of the day today may go on.
LoopAt(today) == {x \in Loop : x.today = today /\ (x.pc \notin {"build", "end"} => x.d < today)}

\* Runs of a day start after its first unit.
Ran(t) == t <= day /\ (t = day => phase > 0)

Knows(s) ==
  s # Idle =>
    /\ Ran(s.today)
    /\ s.pc \notin {"build", "end"} => s.d < s.today
    /\ s.pc = "freeze" => s.leaves # {} /\ s.leaves = queue[s.d]
    /\ s.pc = "mark" => Decides(s)
    /\ s.pc \in {"send", "refused"} => Pending(s)
    /\ s.pc = "ots" => Upgrades(s) /\ s.after \in LoopAt(s.today)

RunsKnow == \A s \in {run[r] : r \in Runs} : Knows(s)

Sends(s) == s # Idle /\ s.pc \in {"send", "refused"}

OneSender ==
  \A r, q \in Runs : r # q /\ Sends(run[r]) /\ Sends(run[q]) /\ run[r].d = run[q].d =>
    run[r].next.attempts # run[q].next.attempts

Chain == NoStraggler /\ DaysAreOver /\ SentIsRecorded /\ ConfirmedWasMined

Inv == Typed /\ Chain /\ RunsKnow /\ OneSender

-----------------------------------------------------------------------------
(* The least element, and the nonce of the pending block.                  *)

Below == {p \in Nat \X Nat : p[1] < p[2]}

\* Min of FiniteSetsExt, for natural numbers.
LEMMA MinIsLeast ==
  ASSUME NEW S \in SUBSET Nat, S # {}
  PROVE  Min(S) \in S /\ \A x \in S : Min(S) <= x
<1>1. IsWellFoundedOn(Below, Nat)
  BY NatLessThanWellFounded DEF OpToRel, Below
<1>2. PICK x \in S : \A y \in S : ~(<<y, x>> \in Below)
  BY <1>1, WFMin
<1>3. \A y \in S : x <= y
  <2> SUFFICES ASSUME NEW y \in S PROVE ~(y < x)
    OBVIOUS
  <2>1. <<y, x>> \in Nat \X Nat /\ <<y, x>>[1] = y /\ <<y, x>>[2] = x
    OBVIOUS
  <2> QED  BY <1>2, <2>1 DEF Below
<1> QED  BY <1>3 DEF Min

\* There are fewer waiting transactions than nonces to choose from.
LEMMA FreeNonce ==
  ASSUME NEW S, IsFiniteSet(S), NEW f \in [S -> Nat], NEW a \in Nat
  PROVE  \E n \in a .. a + Cardinality(S) : \A x \in S : f[x] # n
<1> DEFINE T == a .. a + Cardinality(S)
<1>1. Cardinality(S) \in Nat
  BY FS_CardinalityType
<1>2. IsFiniteSet(T) /\ Cardinality(T) = Cardinality(S) + 1
  <2>1. PICK c \in Nat : c = Cardinality(S)
    BY <1>1
  <2>2. IsFiniteSet(a .. a + c) /\ Cardinality(a .. a + c) = c + 1
    <3>1. a \in Int /\ a + c \in Int /\ ~(a > a + c) /\ (a + c) - a + 1 = c + 1
      OBVIOUS
    <3> QED  BY <3>1, FS_Interval
  <2> QED  BY <2>1, <2>2
<1> SUFFICES ASSUME \A n \in T : \E x \in S : f[x] = n PROVE FALSE
  OBVIOUS
<1> DEFINE g == [n \in T |-> CHOOSE x \in S : f[x] = n]
<1>3. g \in [T -> S] /\ \A n \in T : f[g[n]] = n
  OBVIOUS
<1> HIDE DEF g, T
<1>4. PICK x, y \in T : x # y /\ g[x] = g[y]
  BY <1>1, <1>2, <1>3, FS_PigeonHole
<1> QED  BY <1>3, <1>4

LEMMA PendingNonceIsFree ==
  ASSUME Typed
  PROVE  PendingNonce \in Nat /\ \A x \in pool : x.nonce # PendingNonce
<1> DEFINE a == Cardinality(mined)
           S == {n \in a .. a + Cardinality(pool) : \A x \in pool : x.nonce # n}
           f == [x \in pool |-> x.nonce]
<1>1. a \in Nat /\ Cardinality(pool) \in Nat /\ IsFiniteSet(pool)
  BY FS_CardinalityType DEF Typed
<1>2. f \in [pool -> Nat] /\ \A x \in pool : f[x] = x.nonce
  BY DEF Typed, Transaction
<1> HIDE DEF f, a
<1>3. \E n \in a .. a + Cardinality(pool) : \A x \in pool : f[x] # n
  BY <1>1, <1>2, FreeNonce
<1>4. S \in SUBSET Nat /\ S # {}
  BY <1>1, <1>2, <1>3
<1>5. PendingNonce = Min(S)
  BY DEF PendingNonce, a
<1> QED  BY <1>4, <1>5, MinIsLeast

-----------------------------------------------------------------------------
(* Where a run goes on.                                                    *)

LEMMA AtTyped ==
  ASSUME NEW pc \in {"build", "anchor", "submit", "upgrade", "end"}, NEW d \in Days, NEW t \in Days,
         pc \notin {"build", "end"} => d < t
  PROVE  At(pc, d, t) \in LoopAt(t)
BY DEF At, Loop, LoopAt

LEMMA DownTyped ==
  ASSUME NEW pc \in {"anchor", "submit", "upgrade"}, NEW d \in Days, NEW t \in Days, d <= t,
         NEW then \in LoopAt(t)
  PROVE  Down(pc, d - 1, t, then) \in LoopAt(t)
<1>1. LastDay \in Nat
  BY AnchoringConstants
<1>2. d - 1 >= 0 => d - 1 \in Days /\ d - 1 < t
  BY <1>1 DEF Days
<1> QED  BY <1>2, AtTyped DEF Down

LEMMA EndsTyped ==
  ASSUME NEW s, s.today \in Days
  PROVE  Ends(s) \in LoopAt(s.today) /\ AfterBuild(s) \in LoopAt(s.today)
<1>1. 0 \in Days /\ s.today <= s.today
  BY AnchoringConstants DEF Days
<1>2. Ends(s) \in LoopAt(s.today)
  BY <1>1, AtTyped DEF Ends
<1> QED  BY <1>1, <1>2, DownTyped DEF AfterBuild

LEMMA AfterTyped ==
  ASSUME NEW s, s.d \in Days, s.today \in Days, s.d < s.today
  PROVE  /\ AfterSubmit(s) \in LoopAt(s.today)
         /\ AfterUpgrade(s) \in LoopAt(s.today)
         /\ AfterAnchor(s) \in LoopAt(s.today)
<1>1. s.d <= s.today /\ s.today - 1 \in Days /\ s.today - 1 < s.today
  BY AnchoringConstants DEF Days
<1>2. AfterUpgrade(s) \in LoopAt(s.today)
  BY <1>1, EndsTyped, DownTyped DEF AfterUpgrade
<1>3. AfterAnchor(s) \in LoopAt(s.today)
  BY AtTyped DEF AfterAnchor
<1>4. At("upgrade", s.today - 1, s.today) \in LoopAt(s.today)
  BY <1>1, AtTyped
<1> QED  BY <1>1, <1>2, <1>3, <1>4, DownTyped DEF AfterSubmit

\* A loop holds nothing that could become stale.
LEMMA LoopKnows ==
  ASSUME NEW t \in Days, NEW x \in LoopAt(t)
  PROVE  /\ x \in Handler /\ ~Sends(x)
         /\ Ran(t) => Knows(x)
         /\ Ran(t) /\ day' = day /\ phase' = phase => Knows(x)'
<1>1. x \in Handler /\ ~Sends(x) /\ (Ran(t) => Knows(x)) /\ (Ran(t)' => Knows(x)')
  BY DEF LoopAt, Loop, Handler, Sends, Knows
<1> QED  BY <1>1 DEF Ran

\* No request writes any more for a day that a run takes for over.
LEMMA OverDay ==
  ASSUME day \in Days, NEW d \in Days, NEW t \in Days, d < t, Ran(t)
  PROVE  ~Open(d)
<1>1. day \in Nat /\ d \in Nat /\ t \in Nat
  BY AnchoringConstants DEF Days
<1> QED  BY <1>1 DEF Open, Ran

-----------------------------------------------------------------------------
(* Steps that leave the record and the chain alone.                        *)

LEMMA ChainSame ==
  ASSUME Chain, UNCHANGED <<day, phase, held, queue, bundle, pool, mined, orphaned>>
  PROVE  Chain'
BY DEF Chain, NoStraggler, DaysAreOver, Open, SentIsRecorded, ConfirmedWasMined, Built, Attempt

\* What the other runs know outlives a step of this one.
LEMMA OthersKeep ==
  ASSUME Inv, NEW r \in Runs, NEW s \in Handler, run' = [run EXCEPT ![r] = s], Knows(s)',
         \A q \in Runs : \A p : q # r /\ p = run[q] => Knows(p)',
         Sends(s) => \A q \in Runs : q # r /\ Sends(run[q]) /\ run[q].d = s.d =>
                                     run[q].next.attempts # s.next.attempts
  PROVE  run' \in [Runs -> Handler] /\ RunsKnow' /\ OneSender'
<1>1. run' \in [Runs -> Handler] /\ run'[r] = s /\ \A q \in Runs : q # r => run'[q] = run[q]
  BY DEF Inv, Typed
<1>2. \A p \in {run'[q] : q \in Runs} : p = s \/ \E q \in Runs : q # r /\ p = run[q]
  BY <1>1
<1>3. \A p \in {run'[q] : q \in Runs} : Knows(p)'
  BY <1>2
<1>4. OneSender'
  BY <1>1 DEF Inv, OneSender, Sends
<1> QED  BY <1>1, <1>3, <1>4 DEF RunsKnow

\* What a run knows rests on the queue, the attempts and the blocks.
LEMMA SameKnows ==
  ASSUME Inv, NEW p \in Handler, Knows(p), UNCHANGED <<day, phase, queue, pool, mined, orphaned>>,
         \A d \in Days : /\ bundle'[d].attempts = bundle[d].attempts
                        /\ bundle'[d].nonce = bundle[d].nonce
                        /\ bundle'[d].status = bundle[d].status
  PROVE  Knows(p)'
<1>1. p # Idle /\ p.pc \in {"send", "refused"} => p.d \in Days
  BY DEF Handler, Loop, Freeze, Mark, Ots, Days
<1> QED  BY <1>1 DEF Knows, Ran, Decides, Pending, Upgrades, Sent

LEMMA MoveKeeps ==
  ASSUME Inv, NEW r \in Runs, NEW s \in Handler, run' = [run EXCEPT ![r] = s], Knows(s),
         Sends(s) => Sends(run[r]) /\ s.d = run[r].d /\ s.next = run[r].next,
         UNCHANGED <<day, phase, held, queue, bundle, age, pool, mined, orphaned>>, lock' \in 0 .. LockTtl
  PROVE  Inv'
<1>1. Chain'
  BY ChainSame DEF Inv
<1>2. \A p \in Handler : Knows(p) => Knows(p)'
  BY SameKnows
<1>3. \A q \in Runs : \A p : q # r /\ p = run[q] => Knows(p)'
  BY <1>2 DEF Inv, Typed, RunsKnow
<1>4. Sends(s) => \A q \in Runs : q # r /\ Sends(run[q]) /\ run[q].d = s.d =>
                                   run[q].next.attempts # s.next.attempts
  BY DEF Inv, OneSender
<1>5. run' \in [Runs -> Handler] /\ RunsKnow' /\ OneSender'
  BY <1>2, <1>3, <1>4, OthersKeep
<1> QED  BY <1>1, <1>5 DEF Inv, Typed

-----------------------------------------------------------------------------
(* A handler that runs, and where it may go.                               *)

LEMMA RunFacts ==
  ASSUME Inv, NEW r \in Runs, run[r].pc # "idle"
  PROVE  /\ run[r] \in Handler /\ run[r] # Idle /\ Knows(run[r])
         /\ run[r].d \in Days /\ run[r].today \in Days /\ Ran(run[r].today)
<1>1. run[r] \in Handler /\ run[r] # Idle /\ Knows(run[r])
  BY DEF Inv, Typed, RunsKnow, Idle
<1>2. run[r].d \in Days /\ run[r].today \in Days
  BY <1>1 DEF Handler, Loop, Freeze, Mark, Ots
<1> QED  BY <1>1, <1>2 DEF Knows

LEMMA LoopMove ==
  ASSUME Inv, NEW r \in Runs, NEW t \in Days, Ran(t), NEW x \in LoopAt(t) \cup {Idle},
         run' = [run EXCEPT ![r] = x],
         UNCHANGED <<day, phase, held, queue, bundle, age, pool, mined, orphaned>>, lock' \in 0 .. LockTtl
  PROVE  Inv'
<1>1. x \in Handler /\ ~Sends(x) /\ Knows(x)
  BY LoopKnows DEF Handler, Sends, Knows
<1> QED  BY <1>1, MoveKeeps

LEMMA StartKeeps == ASSUME Inv, NEW r \in Runs, Start(r) PROVE Inv'
<1>1. day \in Days /\ 0 \in Days /\ Ran(day) /\ LockTtl \in 0 .. LockTtl
  BY AnchoringConstants DEF Start, Inv, Typed, Days, Ran
<1>2. At("build", 0, day) \in LoopAt(day)
  BY <1>1, AtTyped
<1> QED  BY <1>1, <1>2, LoopMove DEF Start, Goes

LEMMA EndKeeps == ASSUME Inv, NEW r \in Runs, End(r) PROVE Inv'
<1>1. run[r].today \in Days /\ Ran(run[r].today) /\ 0 \in 0 .. LockTtl
  BY RunFacts, AnchoringConstants DEF End
<1> QED  BY <1>1, LoopMove DEF End, Goes

LEMMA CrashKeeps == ASSUME Inv, NEW r \in Runs, Crash(r) PROVE Inv'
<1>1. run[r].pc # "idle"
  BY DEF Crash, Idle, Inv, Typed, Handler, Loop, Freeze, Mark, Ots
<1>2. run[r].today \in Days /\ Ran(run[r].today) /\ lock \in 0 .. LockTtl
  BY <1>1, RunFacts DEF Inv, Typed
<1> QED  BY <1>2, LoopMove DEF Crash, Goes

LEMMA DeadlineKeeps == ASSUME Inv, NEW r \in Runs, Deadline(r) PROVE Inv'
<1>1. run[r].today \in Days /\ Ran(run[r].today) /\ lock \in 0 .. LockTtl
  BY RunFacts DEF Deadline, Inv, Typed
<1>2. Ends(run[r]) \in LoopAt(run[r].today)
  BY <1>1, EndsTyped
<1> QED  BY <1>1, <1>2, LoopMove DEF Deadline, Goes

LEMMA AnchorThrowsKeeps == ASSUME Inv, NEW r \in Runs, AnchorThrows(r) PROVE Inv'
<1>1. /\ run[r].d \in Days /\ run[r].today \in Days /\ Ran(run[r].today) /\ run[r].d < run[r].today
      /\ lock \in 0 .. LockTtl
  BY RunFacts DEF AnchorThrows, Inv, Typed, Knows
<1>2. AfterAnchor(run[r]) \in LoopAt(run[r].today)
  BY <1>1, AfterTyped
<1> QED  BY <1>1, <1>2, LoopMove DEF AnchorThrows, Goes

LEMMA BuildReadsKeeps == ASSUME Inv, NEW r \in Runs, BuildReads(r) PROVE Inv'
<1>0. PICK s : s = run[r]
  OBVIOUS
<1>1. /\ s \in Loop /\ s.pc = "build" /\ s.d \in Days /\ s.today \in Days /\ Ran(s.today)
      /\ lock \in 0 .. LockTtl /\ s \in LoopAt(s.today)
  <2>1. s.pc = "build" /\ s \in Handler /\ s.d \in Days /\ s.today \in Days /\ Ran(s.today)
    BY <1>0, RunFacts DEF BuildReads
  <2>2. s \in Loop
    BY <2>1 DEF Handler, Idle, Freeze, Mark, Ots
  <2> QED  BY <2>1, <2>2 DEF LoopAt, Inv, Typed
<1>2. UNCHANGED <<day, phase, held, queue, bundle, age, lock, pool, mined, orphaned>>
  BY DEF BuildReads
<1>3. CASE NotOver(s)
  <2>1. AfterBuild(s) \in LoopAt(s.today)
    BY <1>1, EndsTyped
  <2>2. run' = [run EXCEPT ![r] = AfterBuild(s)]
    BY <1>0, <1>3 DEF BuildReads, Goes
  <2> QED  BY <1>1, <1>2, <2>1, <2>2, LoopMove
<1>4. CASE ~NotOver(s) /\ (Built(s.d) \/ queue[s.d] = {})
  <2>1. s.d + 1 \in Days
    BY <1>1, <1>4, AnchoringConstants DEF NotOver, Days
  <2>2. [s EXCEPT !.d = @ + 1] \in LoopAt(s.today)
    BY <1>1, <2>1 DEF LoopAt, Loop
  <2>3. run' = [run EXCEPT ![r] = [s EXCEPT !.d = @ + 1]]
    BY <1>0, <1>4 DEF BuildReads, Goes
  <2> QED  BY <1>1, <1>2, <2>2, <2>3, LoopMove
<1>5. CASE ~NotOver(s) /\ ~(Built(s.d) \/ queue[s.d] = {})
  <2> DEFINE x == [pc |-> "freeze", d |-> s.d, today |-> s.today, leaves |-> queue[s.d]]
  <2>1. s.d < s.today
    BY <1>1, <1>5, AnchoringConstants DEF NotOver, Days
  <2>2. x \in Freeze
    BY <1>1 DEF Freeze, Inv, Typed
  <2>3. x \in Handler /\ Knows(x) /\ ~Sends(x)
    BY <1>1, <1>5, <2>1, <2>2 DEF Handler, Knows, Sends
  <2>4. run' = [run EXCEPT ![r] = x]
    BY <1>0, <1>5 DEF BuildReads, Goes
  <2> QED  BY <1>1, <1>2, <2>3, <2>4, MoveKeeps
<1> QED  BY <1>3, <1>4, <1>5

\* The record of an attempt.
LEMMA MarkedTyped ==
  ASSUME NEW b \in Bundle, NEW n \in Nat
  PROVE  /\ Marked(b, n) \in Bundle /\ Marked(b, n).nonce = n /\ Marked(b, n).status = "sent"
         /\ Marked(b, n).attempts = b.attempts + 1 /\ Marked(b, n).leaves = b.leaves /\ Marked(b, n).ots = b.ots
<1>1. b.attempts + 1 \in Nat
  BY DEF Bundle
<1> QED  BY <1>1 DEF Marked, Bundle

LEMMA AnchorReadsKeeps == ASSUME Inv, NEW r \in Runs, AnchorReads(r) PROVE Inv'
<1>0. PICK s : s = run[r]
  OBVIOUS
<1> DEFINE skip == ~Built(s.d) \/ bundle[s.d].status = "confirmed" \/ (Waits(s.d) /\ Receipts(s.d) = {})
           b == bundle[s.d]
           x == [pc |-> "mark", d |-> s.d, today |-> s.today, raw |-> b, next |-> AnchorNext(s.d)]
<1>1. /\ s.d \in Days /\ s.today \in Days /\ Ran(s.today) /\ s.d < s.today /\ lock \in 0 .. LockTtl
      /\ b \in Bundle
  BY <1>0, RunFacts DEF AnchorReads, Knows, Inv, Typed
<1>2. UNCHANGED <<day, phase, held, queue, bundle, age, lock, pool, mined, orphaned>>
  BY DEF AnchorReads
<1>3. CASE skip
  <2>1. AfterAnchor(s) \in LoopAt(s.today)
    BY <1>1, AfterTyped
  <2>2. run' = [run EXCEPT ![r] = AfterAnchor(s)]
    BY <1>0, <1>3 DEF AnchorReads, Goes
  <2> QED  BY <1>1, <1>2, <2>1, <2>2, LoopMove
<1>4. CASE ~skip
  <2>1. b.status # "confirmed" /\ run' = [run EXCEPT ![r] = x]
    BY <1>0, <1>4 DEF AnchorReads, Goes
  <2>2. x \in Mark /\ Decides(x)
    <3>1. CASE b.status = "sent" /\ Receipts(s.d) # {}
      <4> DEFINE ok == \E m \in Receipts(s.d) : m.ok
      <4>1. AnchorNext(s.d) = [b EXCEPT !.status = IF ok THEN "confirmed" ELSE "failed"]
        BY <3>1 DEF AnchorNext
      <4>2. AnchorNext(s.d) \in Bundle
        BY <1>1, <4>1 DEF Bundle
      <4>3. PICK m \in mined \cup orphaned : m \in Receipts(s.d) /\ (m.ok <=> ok)
        BY <3>1 DEF Receipts
      <4>4. m.tx = [d |-> s.d, k |-> b.attempts, nonce |-> b.nonce]
        BY <4>3 DEF Receipts, Attempt
      <4>5. AnchorNext(s.d) = [b EXCEPT !.status = IF m.ok THEN "confirmed" ELSE "failed"]
        BY <4>1, <4>3
      <4>6. x \in Mark /\ x.raw = b /\ x.next = AnchorNext(s.d) /\ x.d = s.d
        BY <1>1, <4>2 DEF Mark
      <4> HIDE DEF x
      <4> QED  BY <2>1, <3>1, <4>4, <4>5, <4>6 DEF Decides
    <3>2. CASE ~(b.status = "sent" /\ Receipts(s.d) # {})
      <4>1. AnchorNext(s.d) = Marked(b, PendingNonce) /\ PendingNonce \in Nat
        BY <3>2, PendingNonceIsFree DEF AnchorNext, Inv
      <4>2. AnchorNext(s.d) \in Bundle /\ AnchorNext(s.d).nonce = PendingNonce
        BY <1>1, <4>1, MarkedTyped
      <4>3. x \in Mark /\ x.raw = b /\ x.next = AnchorNext(s.d)
        BY <1>1, <4>2 DEF Mark
      <4> HIDE DEF x
      <4> QED  BY <2>1, <4>1, <4>2, <4>3 DEF Decides
    <3> QED  BY <3>1, <3>2
  <2>3. x \in Handler /\ Knows(x) /\ ~Sends(x)
    <3>1. x.pc = "mark" /\ x.d = s.d /\ x.today = s.today
      OBVIOUS
    <3> HIDE DEF x
    <3> QED  BY <1>1, <2>2, <3>1 DEF Handler, Knows, Sends
  <2> QED  BY <1>1, <1>2, <2>1, <2>3, MoveKeeps
<1> QED  BY <1>3, <1>4

LEMMA OtsReadsKeeps == ASSUME Inv, NEW r \in Runs, OtsReads(r) PROVE Inv'
<1>0. PICK s, b : s = run[r] /\ b = bundle[s.d]
  OBVIOUS
<1> DEFINE from  == IF s.pc = "submit" THEN "none" ELSE "submitted"
           to    == IF s.pc = "submit" THEN "submitted" ELSE "bitcoin"
           after == IF s.pc = "submit" THEN AfterSubmit(s) ELSE AfterUpgrade(s)
           x == [pc |-> "ots", d |-> s.d, today |-> s.today, raw |-> b, next |-> [b EXCEPT !.ots = to],
                 after |-> after]
<1>1. /\ s.d \in Days /\ s.today \in Days /\ Ran(s.today) /\ s.d < s.today /\ lock \in 0 .. LockTtl
      /\ b \in Bundle
  BY <1>0, RunFacts DEF OtsReads, Knows, Inv, Typed
<1>2. UNCHANGED <<day, phase, held, queue, bundle, age, lock, pool, mined, orphaned>>
  BY DEF OtsReads
<1>3. after \in LoopAt(s.today)
  BY <1>1, AfterTyped
<1>4. CASE run' = [run EXCEPT ![r] = after]
  BY <1>1, <1>2, <1>3, <1>4, LoopMove
<1>5. CASE b.ots = from /\ run' = [run EXCEPT ![r] = x]
  <2>1. [b EXCEPT !.ots = to] \in Bundle
    BY <1>1 DEF Bundle
  <2>2. after \in Loop
    BY <1>3 DEF LoopAt
  <2> HIDE DEF after
  <2>3. x \in Ots
    BY <1>1, <2>1, <2>2 DEF Ots
  <2>4. x.pc = "ots" /\ x.d = s.d /\ x.today = s.today /\ x.raw = b /\ x.next = [b EXCEPT !.ots = to]
        /\ x.after = after
    OBVIOUS
  <2> HIDE DEF x
  <2>5. Upgrades(x)
    BY <1>5, <2>4 DEF Upgrades
  <2>6. x \in Handler /\ Knows(x) /\ ~Sends(x)
    BY <1>1, <1>3, <2>3, <2>4, <2>5 DEF Handler, Knows, Sends
  <2> QED  BY <1>1, <1>2, <1>5, <2>6, MoveKeeps
<1> QED  BY <1>0, <1>4, <1>5 DEF OtsReads, Goes

-----------------------------------------------------------------------------
(* Steps that write the bundle.                                            *)

LEMMA BuildCommitsKeeps == ASSUME Inv, NEW r \in Runs, BuildCommits(r) PROVE Inv'
<1>0. PICK s : s = run[r]
  OBVIOUS
<1>1. /\ s.pc = "freeze" /\ s.d \in Days /\ s.today \in Days /\ Ran(s.today) /\ s.d < s.today
      /\ s.leaves # {} /\ s.leaves = queue[s.d] /\ s.leaves \subseteq Attestations
  <2>1. s \in Handler /\ s # Idle /\ s.pc = "freeze" /\ Knows(s) /\ s.d \in Days /\ s.today \in Days
    BY <1>0, RunFacts DEF BuildCommits
  <2>2. s \in Freeze
    BY <2>1 DEF Handler, Idle, Loop, Mark, Ots
  <2> QED  BY <2>1, <2>2 DEF Knows, Freeze
<1>2. UNCHANGED <<day, phase, held, queue, age, lock, pool, mined, orphaned>>
  BY DEF BuildCommits
<1>3. bundle' = IF Built(s.d) THEN bundle ELSE [bundle EXCEPT ![s.d].leaves = s.leaves]
  BY <1>0 DEF BuildCommits
<1>4. /\ bundle' \in [Days -> Bundle]
      /\ \A d \in Days : /\ bundle'[d].attempts = bundle[d].attempts
                         /\ bundle'[d].nonce = bundle[d].nonce
                         /\ bundle'[d].status = bundle[d].status
                         /\ bundle'[d].leaves # bundle[d].leaves => d = s.d /\ bundle'[d].leaves = s.leaves
  <2> DEFINE b == [bundle[s.d] EXCEPT !.leaves = s.leaves]
  <2>1. bundle \in [Days -> Bundle] /\ bundle[s.d] \in Bundle
    BY <1>1 DEF Inv, Typed
  <2>2. /\ b \in Bundle /\ b.attempts = bundle[s.d].attempts /\ b.nonce = bundle[s.d].nonce
        /\ b.status = bundle[s.d].status /\ b.leaves = s.leaves
    BY <1>1, <2>1 DEF Bundle
  <2>3. CASE Built(s.d)
    BY <1>3, <2>1, <2>3
  <2>4. CASE ~Built(s.d)
    <3>1. bundle' = [bundle EXCEPT ![s.d] = b]
      BY <1>1, <1>3, <2>1, <2>4
    <3> QED  BY <2>1, <2>2, <3>1
  <2> QED  BY <2>3, <2>4
<1>5. NoStraggler' /\ DaysAreOver'
  <2>1. ~Open(s.d)
    BY <1>1, OverDay DEF Inv, Typed
  <2>2. \A d : Open(d)' = Open(d)
    BY <1>2 DEF Open
  <2>3. \A d \in Days : Built(d)' => Built(d) \/ d = s.d
    BY <1>4 DEF Built
  <2>4. DaysAreOver'
    BY <1>2, <2>1, <2>2, <2>3 DEF Inv, Chain, DaysAreOver
  <2>5. NoStraggler'
    BY <1>1, <1>2, <1>4 DEF Inv, Chain, NoStraggler, Built
  <2> QED  BY <2>4, <2>5
<1>6. SentIsRecorded' /\ ConfirmedWasMined'
  <2>1. \A x \in pool \cup {m.tx : m \in mined \cup orphaned} : x.d \in Days
    BY DEF Inv, Typed, Transaction
  <2> QED  BY <1>2, <1>4, <2>1 DEF Inv, Chain, SentIsRecorded, ConfirmedWasMined, Receipts, Attempt
<1>7. \A p \in Handler : Knows(p) => Knows(p)'
  BY <1>2, <1>4, SameKnows
<1> DEFINE x == At("build", s.d + 1, s.today)
<1>8. x \in LoopAt(s.today)
  <2>1. s.d + 1 \in Days
    BY <1>1, AnchoringConstants DEF Days
  <2> QED  BY <1>1, <2>1, AtTyped
<1>9. x \in Handler /\ Knows(x)' /\ ~Sends(x)
  BY <1>1, <1>2, <1>8, LoopKnows
<1>10. run' = [run EXCEPT ![r] = x]
  BY <1>0 DEF BuildCommits, Goes
<1>11. \A q \in Runs : \A p : q # r /\ p = run[q] => Knows(p)'
  BY <1>7 DEF Inv, Typed, RunsKnow
<1>12. run' \in [Runs -> Handler] /\ RunsKnow' /\ OneSender'
  BY <1>9, <1>10, <1>11, OthersKeep
<1> QED  BY <1>2, <1>4, <1>5, <1>6, <1>12 DEF Inv, Typed, Chain

\* What an attempt left the bundle with.
LEMMA UpgradeFacts ==
  ASSUME NEW s \in Ots, Upgrades(s)
  PROVE  /\ s.raw \in Bundle /\ s.next \in Bundle
         /\ s.next.leaves = s.raw.leaves /\ s.next.status = s.raw.status
         /\ s.next.nonce = s.raw.nonce /\ s.next.attempts = s.raw.attempts
         /\ s.raw.ots = "none" \/ (s.raw.ots = "submitted" /\ s.next.ots = "bitcoin")
BY DEF Ots, Bundle, Upgrades

LEMMA OtsCommitsKeeps ==
  ASSUME Inv, NEW r \in Runs, OtsCommits(r)
  PROVE  Inv' /\ BundlesStay
<1>0. PICK s, b : s = run[r] /\ b = bundle[s.d]
  OBVIOUS
<1>1. /\ s.d \in Days /\ s.today \in Days /\ Ran(s.today) /\ s \in Ots /\ Upgrades(s)
      /\ s.after \in LoopAt(s.today) /\ b \in Bundle
  <2>1. s.pc = "ots" /\ s \in Handler /\ s # Idle /\ Knows(s) /\ s.d \in Days /\ s.today \in Days
    BY <1>0, RunFacts DEF OtsCommits
  <2>2. s \in Ots
    BY <2>1 DEF Handler, Idle, Loop, Mark, Freeze
  <2> QED  BY <1>0, <2>1, <2>2 DEF Knows, Inv, Typed
<1>2. UNCHANGED <<day, phase, held, queue, age, lock, pool, mined, orphaned>>
  BY DEF OtsCommits
<1>3. bundle' = IF b = s.raw THEN [bundle EXCEPT ![s.d] = s.next] ELSE bundle
  BY <1>0 DEF OtsCommits, Expected
<1>4. /\ bundle' \in [Days -> Bundle]
      /\ \A d \in Days : /\ bundle'[d].attempts = bundle[d].attempts
                         /\ bundle'[d].nonce = bundle[d].nonce
                         /\ bundle'[d].status = bundle[d].status
                         /\ bundle'[d].leaves = bundle[d].leaves
                         /\ \/ bundle'[d].ots = bundle[d].ots \/ bundle[d].ots = "none"
                            \/ bundle[d].ots = "submitted" /\ bundle'[d].ots = "bitcoin"
  <2>1. bundle \in [Days -> Bundle]
    BY DEF Inv, Typed
  <2>2. CASE b = s.raw
    <3>1. bundle' = [bundle EXCEPT ![s.d] = s.next]
      BY <1>3, <2>2
    <3>2. /\ s.next \in Bundle /\ s.next.leaves = b.leaves /\ s.next.status = b.status
          /\ s.next.nonce = b.nonce /\ s.next.attempts = b.attempts
          /\ b.ots = "none" \/ (b.ots = "submitted" /\ s.next.ots = "bitcoin")
      BY <1>1, <2>2, UpgradeFacts
    <3>3. bundle'[s.d] = s.next /\ \A d \in Days : d # s.d => bundle'[d] = bundle[d]
      BY <1>1, <2>1, <3>1
    <3> QED  BY <1>0, <1>1, <2>1, <3>1, <3>2, <3>3
  <2>3. CASE b # s.raw
    BY <1>3, <2>1, <2>3
  <2> QED  BY <2>2, <2>3
<1>5. Chain'
  <2>1. \A x \in pool \cup {m.tx : m \in mined \cup orphaned} : x.d \in Days
    BY DEF Inv, Typed, Transaction
  <2>2. NoStraggler' /\ DaysAreOver'
    BY <1>2, <1>4 DEF Inv, Chain, NoStraggler, DaysAreOver, Open, Built
  <2>3. SentIsRecorded' /\ ConfirmedWasMined'
    BY <1>2, <1>4, <2>1 DEF Inv, Chain, SentIsRecorded, ConfirmedWasMined, Receipts, Attempt
  <2> QED  BY <2>2, <2>3 DEF Chain
<1>6. \A p \in Handler : Knows(p) => Knows(p)'
  BY <1>2, <1>4, SameKnows
<1>7. s.after \in Handler /\ Knows(s.after)' /\ ~Sends(s.after)
  BY <1>1, <1>2, LoopKnows
<1>8. run' = [run EXCEPT ![r] = s.after]
  BY <1>0 DEF OtsCommits, Goes
<1>9. \A q \in Runs : \A p : q # r /\ p = run[q] => Knows(p)'
  BY <1>6 DEF Inv, Typed, RunsKnow
<1>10. run' \in [Runs -> Handler] /\ RunsKnow' /\ OneSender'
  BY <1>7, <1>8, <1>9, OthersKeep
<1>11. BundlesStay
  <2>1. \A d \in Days : bundle[d].attempts \in Nat
    BY DEF Inv, Typed, Bundle
  <2> QED  BY <1>4, <2>1 DEF BundlesStay
<1> QED  BY <1>2, <1>4, <1>5, <1>10, <1>11 DEF Inv, Typed

\* What a decision leaves the bundle with.
LEMMA DecisionFacts ==
  ASSUME NEW s \in Mark, Decides(s)
  PROVE  /\ s.raw \in Bundle /\ s.next \in Bundle /\ s.raw.status # "confirmed"
         /\ s.next.leaves = s.raw.leaves /\ s.next.ots = s.raw.ots
         /\ \/ s.next.status = "sent" /\ s.next.attempts = s.raw.attempts + 1
            \/ /\ s.raw.status = "sent" /\ s.next.status \in {"confirmed", "failed"}
               /\ s.next.attempts = s.raw.attempts /\ s.next.nonce = s.raw.nonce
               /\ \E m \in mined \cup orphaned :
                    /\ m.tx = [d |-> s.d, k |-> s.raw.attempts, nonce |-> s.raw.nonce]
                    /\ s.next.status = "confirmed" => m.ok
<1>1. s.raw \in Bundle /\ s.next \in Bundle /\ s.raw.status # "confirmed"
  BY DEF Mark, Decides
<1>2. CASE s.next = Marked(s.raw, s.next.nonce)
  <2>1. PICK n \in Nat : s.next = Marked(s.raw, n)
    BY <1>1, <1>2 DEF Bundle
  <2>2. /\ Marked(s.raw, n).leaves = s.raw.leaves /\ Marked(s.raw, n).ots = s.raw.ots
        /\ Marked(s.raw, n).status = "sent" /\ Marked(s.raw, n).attempts = s.raw.attempts + 1
    BY <1>1, MarkedTyped
  <2> QED  BY <1>1, <2>1, <2>2
<1>3. CASE /\ s.raw.status = "sent"
           /\ \E m \in mined \cup orphaned :
                /\ m.tx = [d |-> s.d, k |-> s.raw.attempts, nonce |-> s.raw.nonce]
                /\ s.next = [s.raw EXCEPT !.status = IF m.ok THEN "confirmed" ELSE "failed"]
  <2>1. PICK m \in mined \cup orphaned :
                /\ m.tx = [d |-> s.d, k |-> s.raw.attempts, nonce |-> s.raw.nonce]
                /\ s.next = [s.raw EXCEPT !.status = IF m.ok THEN "confirmed" ELSE "failed"]
    BY <1>3
  <2>2. /\ s.next.leaves = s.raw.leaves /\ s.next.ots = s.raw.ots
        /\ s.next.attempts = s.raw.attempts /\ s.next.nonce = s.raw.nonce
        /\ s.next.status = IF m.ok THEN "confirmed" ELSE "failed"
    BY <1>1, <2>1 DEF Bundle
  <2> QED  BY <1>1, <1>3, <2>1, <2>2
<1> QED  BY <1>2, <1>3 DEF Decides

LEMMA AnchorMarksKeeps ==
  ASSUME Inv, NEW r \in Runs, AnchorMarks(r)
  PROVE  Inv' /\ BundlesStay
<1>0. PICK s, b : s = run[r] /\ b = bundle[s.d]
  OBVIOUS
<1>1. /\ s.d \in Days /\ s.today \in Days /\ Ran(s.today) /\ s.d < s.today
      /\ s \in Mark /\ s.pc = "mark" /\ Decides(s) /\ b \in Bundle /\ lock \in 0 .. LockTtl
  <2>1. s.pc = "mark" /\ s \in Handler /\ s # Idle /\ Knows(s) /\ s.d \in Days /\ s.today \in Days
    BY <1>0, RunFacts DEF AnchorMarks
  <2>2. s \in Mark
    BY <2>1 DEF Handler, Idle, Loop, Ots, Freeze
  <2> QED  BY <1>0, <2>1, <2>2 DEF Knows, Inv, Typed
<1>2. UNCHANGED <<day, phase, held, queue, lock, pool, mined, orphaned>>
  BY DEF AnchorMarks
<1>3. AfterAnchor(s) \in LoopAt(s.today)
  BY <1>1, AfterTyped
<1>4. CASE b # s.raw
  <2>1. run' = [run EXCEPT ![r] = AfterAnchor(s)] /\ UNCHANGED <<bundle, age>>
    BY <1>0, <1>4 DEF AnchorMarks, Expected, Goes
  <2>2. Inv'
    BY <1>1, <1>2, <1>3, <2>1, LoopMove
  <2>3. \A d \in Days : bundle[d].attempts \in Nat
    BY DEF Inv, Typed, Bundle
  <2> QED  BY <2>1, <2>2, <2>3 DEF BundlesStay
<1>5. CASE b = s.raw
  <2> DEFINE x == IF s.next.status = "sent" THEN [s EXCEPT !.pc = "send"] ELSE AfterAnchor(s)
  <2>1. /\ bundle' = [bundle EXCEPT ![s.d] = s.next] /\ age' = [age EXCEPT ![s.d] = 0]
        /\ run' = [run EXCEPT ![r] = x]
    BY <1>0, <1>5 DEF AnchorMarks, Expected, Goes
  <2>facts. /\ s.raw \in Bundle /\ s.next \in Bundle /\ s.raw.status # "confirmed"
        /\ s.next.leaves = s.raw.leaves /\ s.next.ots = s.raw.ots
        /\ \/ s.next.status = "sent" /\ s.next.attempts = s.raw.attempts + 1
           \/ /\ s.raw.status = "sent" /\ s.next.status \in {"confirmed", "failed"}
              /\ s.next.attempts = s.raw.attempts /\ s.next.nonce = s.raw.nonce
              /\ \E m \in mined \cup orphaned :
                   /\ m.tx = [d |-> s.d, k |-> s.raw.attempts, nonce |-> s.raw.nonce]
                   /\ s.next.status = "confirmed" => m.ok
    BY <1>1, DecisionFacts
  <2>2. /\ bundle \in [Days -> Bundle] /\ bundle[s.d] = s.raw /\ s.raw \in Bundle /\ s.next \in Bundle
        /\ bundle' \in [Days -> Bundle] /\ bundle'[s.d] = s.next
        /\ \A d \in Days : d # s.d => bundle'[d] = bundle[d]
    BY <1>0, <1>1, <1>5, <2>1, <2>facts DEF Inv, Typed
  <2>3. age' \in [Days -> 0 .. Wait]
    <3>1. 0 \in 0 .. Wait
      BY AnchoringConstants
    <3> QED  BY <2>1, <3>1 DEF Inv, Typed
  <2>4. \A d \in Days : bundle[d].attempts \in Nat /\ bundle'[d].attempts \in Nat
    BY <2>2 DEF Bundle
  <2>5. BundlesStay
    BY <1>1, <2>2, <2>4, <2>facts DEF BundlesStay
  <2>6. NoStraggler' /\ DaysAreOver'
    <3>1. \A d \in Days : bundle'[d].leaves = bundle[d].leaves
      BY <1>1, <2>2, <2>facts
    <3> QED  BY <1>2, <3>1 DEF Inv, Chain, NoStraggler, DaysAreOver, Open, Built
  <2> DEFINE sent == pool \cup {m.tx : m \in mined \cup orphaned}
  <2>7. /\ \A y \in sent : y \in Transaction /\ y.d \in Days /\ y.k \in Nat /\ y.k <= bundle[y.d].attempts
        /\ \A y, z \in sent : y.d = z.d /\ y.k = z.k => y = z
        /\ \A y \in sent : y.k = bundle[y.d].attempts =>
             y.nonce = bundle[y.d].nonce /\ bundle[y.d].status # "broadcast-failed"
    BY DEF Inv, Typed, Chain, SentIsRecorded, Transaction
  <2>8. SentIsRecorded'
    <3>1. ASSUME NEW y \in sent
          PROVE  /\ y.k <= bundle'[y.d].attempts
                 /\ y.k = bundle'[y.d].attempts =>
                      y.nonce = bundle'[y.d].nonce /\ bundle'[y.d].status # "broadcast-failed"
      <4>1. CASE y.d # s.d
        BY <2>2, <2>7, <4>1
      <4>2. CASE y.d = s.d
        <5>1. s.next.attempts \in Nat /\ s.raw.attempts \in Nat
          BY <2>2 DEF Bundle
        <5> QED  BY <1>1, <2>2, <2>7, <2>facts, <4>2, <5>1
      <4> QED  BY <4>1, <4>2
    <3>2. (pool \cup {m.tx : m \in mined \cup orphaned})' = sent
      BY <1>2
    <3> HIDE DEF sent
    <3> QED  BY <2>7, <3>1, <3>2 DEF SentIsRecorded
  <2>9. ConfirmedWasMined'
    <3> SUFFICES ASSUME NEW d \in Days, bundle'[d].status = "confirmed"
                 PROVE  \E m \in (mined \cup orphaned)' : m.tx = Attempt(d)' /\ m.ok
      BY DEF ConfirmedWasMined
    <3>1. CASE d # s.d
      BY <1>2, <2>2, <3>1 DEF Inv, Chain, ConfirmedWasMined, Receipts, Attempt
    <3>2. CASE d = s.d
      BY <1>1, <1>2, <2>2, <3>2, <2>facts DEF Attempt
    <3> QED  BY <3>1, <3>2
  <2>10. ASSUME NEW p \in Handler, Knows(p) PROVE Knows(p)'
    <3>1. CASE ~Sends(p)
      BY <1>2, <2>10, <3>1 DEF Knows, Ran, Sends, Decides, Upgrades
    <3>2. CASE Sends(p)
      <4>1. p \in Mark /\ p.d \in Days /\ p.next.attempts \in Nat /\ Pending(p)
        BY <2>10, <3>2 DEF Sends, Knows, Handler, Loop, Freeze, Mark, Ots, Bundle
      <4>2. CASE p.d # s.d
        <5>1. Pending(p)'
          BY <1>2, <2>2, <4>1, <4>2 DEF Pending, Sent
        <5> QED  BY <1>2, <2>10, <3>2, <5>1 DEF Knows, Ran, Sends
      <4>3. CASE p.d = s.d
        <5>1. CASE s.next.attempts = s.raw.attempts + 1
          <6>1. Pending(p)'
            BY <1>2, <2>2, <2>4, <4>1, <4>3, <5>1, <1>1 DEF Pending, Sent
          <6> QED  BY <1>2, <2>10, <3>2, <6>1 DEF Knows, Ran, Sends
        <5>2. CASE /\ s.next.attempts = s.raw.attempts /\ s.next.nonce = s.raw.nonce
                   /\ \E m \in mined \cup orphaned : m.tx = [d |-> s.d, k |-> s.raw.attempts, nonce |-> s.raw.nonce]
          <6>1. p.next.attempts # s.raw.attempts
            BY <4>1, <4>3, <5>2 DEF Pending, Sent
          <6>2. Pending(p)'
            BY <1>2, <2>2, <4>1, <4>3, <5>2, <6>1 DEF Pending, Sent
          <6> QED  BY <1>2, <2>10, <3>2, <6>2 DEF Knows, Ran, Sends
        <5> QED  BY <1>1, <5>1, <5>2, <2>facts
      <4> QED  BY <4>2, <4>3
    <3> QED  BY <3>1, <3>2
  <2>11. /\ x \in Handler /\ Knows(x)'
         /\ Sends(x) => x.d = s.d /\ x.next = s.next /\ s.next.attempts = s.raw.attempts + 1
    <3>1. CASE s.next.status = "sent"
      <4>1. s.next.attempts = s.raw.attempts + 1
        BY <1>1, <3>1, <2>facts
      <4>2. x \in Mark /\ x.pc = "send" /\ x.d = s.d /\ x.today = s.today /\ x.next = s.next /\ x # Idle
        BY <1>1, <3>1 DEF Mark, Idle
      <4>3. Pending(x)'
        <5>1. s.next.attempts \in Nat /\ s.raw.attempts \in Nat
          BY <2>2 DEF Bundle
        <5>2. \A y \in sent : ~(y.d = s.d /\ y.k = s.next.attempts)
          BY <2>2, <2>7, <4>1, <5>1
        <5>3. Sent' = sent
          BY <1>2 DEF Sent
        <5> HIDE DEF x, sent
        <5> QED  BY <2>2, <3>1, <4>2, <5>1, <5>2, <5>3 DEF Pending
      <4> HIDE DEF x
      <4> QED  BY <1>1, <1>2, <4>1, <4>2, <4>3 DEF Knows, Ran, Handler
    <3>2. CASE s.next.status # "sent"
      BY <1>1, <1>2, <1>3, <3>2, LoopKnows
    <3> QED  BY <3>1, <3>2
  <2>12. \A q \in Runs : \A p : q # r /\ p = run[q] => Knows(p)'
    BY <2>10 DEF Inv, Typed, RunsKnow
  <2>13. Sends(x) => \A q \in Runs : q # r /\ Sends(run[q]) /\ run[q].d = x.d =>
                                     run[q].next.attempts # x.next.attempts
    <3> SUFFICES ASSUME Sends(x), NEW q \in Runs, Sends(run[q]), run[q].d = x.d
                 PROVE  run[q].next.attempts # x.next.attempts
      OBVIOUS
    <3>1. run[q] \in Mark /\ Pending(run[q])
      BY DEF Inv, Typed, RunsKnow, Knows, Sends, Handler, Loop, Freeze, Ots
    <3>2. run[q].next.attempts \in Nat /\ s.raw.attempts \in Nat
      BY <2>2, <3>1 DEF Mark, Bundle
    <3> QED  BY <2>2, <2>11, <3>1, <3>2 DEF Pending
  <2> HIDE DEF x
  <2>14. run' \in [Runs -> Handler] /\ RunsKnow' /\ OneSender'
    BY <2>1, <2>11, <2>12, <2>13, OthersKeep
  <2> QED  BY <1>2, <2>2, <2>3, <2>5, <2>6, <2>8, <2>9, <2>14 DEF Inv, Typed, Chain
<1> QED  BY <1>4, <1>5

\* What the sender of an attempt knows of it, and of the others.
LEMMA SenderFacts ==
  ASSUME Inv, NEW r \in Runs, Sends(run[r])
  PROVE  /\ run[r] \in Mark /\ Pending(run[r]) /\ run[r].d \in Days /\ run[r].today \in Days
         /\ Ran(run[r].today) /\ run[r].d < run[r].today
         /\ run[r].next.attempts \in Nat /\ run[r].next.nonce \in Nat
<1>1. run[r] \in Mark /\ Knows(run[r]) /\ run[r] # Idle
  BY DEF Inv, Typed, RunsKnow, Sends, Handler, Loop, Freeze, Ots
<1> QED  BY <1>1 DEF Knows, Sends, Mark, Bundle

LEMMA SendKeeps == ASSUME Inv, NEW r \in Runs, Send(r) PROVE Inv'
<1>0. PICK s : s = run[r]
  OBVIOUS
<1>1. /\ s \in Mark /\ s.pc = "send" /\ Pending(s) /\ s.d \in Days /\ s.today \in Days /\ Ran(s.today)
      /\ s.d < s.today /\ s.next.attempts \in Nat /\ s.next.nonce \in Nat /\ lock \in 0 .. LockTtl
  BY <1>0, SenderFacts DEF Send, Sends, Idle, Inv, Typed
<1>2. UNCHANGED <<day, phase, held, queue, bundle, age, lock, mined, orphaned>>
  BY DEF Send
<1>3. AfterAnchor(s) \in LoopAt(s.today)
  BY <1>1, AfterTyped
<1>4. CASE pool' = pool /\ run' = [run EXCEPT ![r] = AfterAnchor(s)]
  BY <1>1, <1>2, <1>3, <1>4, LoopMove
<1>5. CASE pool' = pool /\ run' = [run EXCEPT ![r] = [s EXCEPT !.pc = "refused"]]
  <2> DEFINE x == [s EXCEPT !.pc = "refused"]
  <2>1. x \in Mark /\ x.pc = "refused" /\ x.d = s.d /\ x.today = s.today /\ x.next = s.next
    BY <1>1 DEF Mark
  <2> HIDE DEF x
  <2>2. Pending(x)
    BY <1>1, <2>1 DEF Pending
  <2>3. x \in Handler /\ Knows(x)
    BY <1>1, <2>1, <2>2 DEF Handler, Knows
  <2>4. Sends(run[r])
    BY <1>0, <1>1 DEF Sends, Idle
  <2> QED  BY <1>0, <1>1, <1>2, <1>5, <2>1, <2>3, <2>4, MoveKeeps DEF x
<1> DEFINE new == [d |-> s.d, k |-> s.next.attempts, nonce |-> s.next.nonce]
<1>6. CASE pool' = pool \cup {new} /\ run' = [run EXCEPT ![r] = AfterAnchor(s)]
  <2>1. new \in Transaction /\ new.d = s.d /\ new.k = s.next.attempts /\ new.nonce = s.next.nonce
    BY <1>1 DEF Transaction
  <2> HIDE DEF new
  <2>2. pool' \subseteq Transaction /\ IsFiniteSet(pool')
    BY <1>6, <2>1, FS_AddElement DEF Inv, Typed
  <2>3. Sent' = Sent \cup {new} /\ (pool \cup {m.tx : m \in mined \cup orphaned})' = Sent'
    BY <1>2, <1>6 DEF Sent
  <2>4. NoStraggler' /\ DaysAreOver' /\ ConfirmedWasMined'
    BY <1>2 DEF Inv, Chain, NoStraggler, DaysAreOver, Open, ConfirmedWasMined, Built, Attempt
  <2>5. /\ \A y \in Sent : y.k <= bundle[y.d].attempts
        /\ \A y, z \in Sent : y.d = z.d /\ y.k = z.k => y = z
        /\ \A y \in Sent : y.k = bundle[y.d].attempts =>
             y.nonce = bundle[y.d].nonce /\ bundle[y.d].status # "broadcast-failed"
    BY DEF Inv, Chain, SentIsRecorded, Sent
  <2>6. SentIsRecorded'
    <3>1. \A y \in Sent' : y.k <= bundle[y.d].attempts
      BY <1>1, <2>1, <2>3, <2>5 DEF Pending
    <3>2. \A y, z \in Sent' : y.d = z.d /\ y.k = z.k => y = z
      BY <1>1, <2>1, <2>3, <2>5 DEF Pending
    <3>3. \A y \in Sent' : y.k = bundle[y.d].attempts =>
             y.nonce = bundle[y.d].nonce /\ bundle[y.d].status # "broadcast-failed"
      BY <1>1, <2>1, <2>3, <2>5 DEF Pending
    <3> QED  BY <1>2, <2>3, <3>1, <3>2, <3>3 DEF SentIsRecorded
  <2>7. ASSUME NEW q \in Runs, q # r, NEW p, p = run[q] PROVE Knows(p)'
    <3>1. Knows(p) /\ p \in Handler
      BY <2>7 DEF Inv, Typed, RunsKnow
    <3>2. CASE ~Sends(p)
      BY <1>2, <3>1, <3>2 DEF Knows, Ran, Sends, Decides, Upgrades
    <3>3. CASE Sends(p)
      <4>1. p.d = s.d => p.next.attempts # s.next.attempts
        BY <1>0, <1>1, <2>7, <3>3 DEF Inv, OneSender, Sends, Idle
      <4>2. Pending(p)
        BY <3>1, <3>3 DEF Knows, Sends
      <4>3. Pending(p)'
        BY <1>2, <2>1, <2>3, <4>1, <4>2 DEF Pending
      <4> QED  BY <1>2, <3>1, <3>3, <4>3 DEF Knows, Ran, Sends
    <3> QED  BY <3>2, <3>3
  <2>8. AfterAnchor(s) \in Handler /\ Knows(AfterAnchor(s))' /\ ~Sends(AfterAnchor(s))
    BY <1>1, <1>2, <1>3, LoopKnows
  <2>9. run' \in [Runs -> Handler] /\ RunsKnow' /\ OneSender'
    BY <1>6, <2>7, <2>8, OthersKeep
  <2> QED  BY <1>2, <2>2, <2>4, <2>6, <2>9 DEF Inv, Typed, Chain
<1> QED  BY <1>0, <1>4, <1>5, <1>6 DEF Send, Goes

LEMMA RefusedKeeps ==
  ASSUME Inv, NEW r \in Runs, Refused(r)
  PROVE  Inv' /\ BundlesStay
<1>0. PICK s, b : s = run[r] /\ b = bundle[s.d]
  OBVIOUS
<1>1. /\ s \in Mark /\ s.pc = "refused" /\ Pending(s) /\ s.d \in Days /\ s.today \in Days /\ Ran(s.today)
      /\ s.d < s.today /\ s.next.attempts \in Nat /\ s.next.nonce \in Nat /\ lock \in 0 .. LockTtl /\ b \in Bundle
  BY <1>0, SenderFacts DEF Refused, Sends, Idle, Inv, Typed
<1>2. UNCHANGED <<day, phase, held, queue, age, lock, pool, mined, orphaned>> /\ run' = [run EXCEPT ![r] = AfterAnchor(s)]
  BY <1>0 DEF Refused, Goes
<1>3. AfterAnchor(s) \in LoopAt(s.today)
  BY <1>1, AfterTyped
<1>4. \A d \in Days : bundle[d].attempts \in Nat
  BY DEF Inv, Typed, Bundle
<1>5. CASE b # s.next
  <2>1. bundle' = bundle
    BY <1>0, <1>5 DEF Refused
  <2>2. Inv'
    BY <1>1, <1>2, <1>3, <2>1, LoopMove
  <2> QED  BY <2>1, <2>2, <1>4 DEF BundlesStay
<1>6. CASE b = s.next
  <2> DEFINE new == [b EXCEPT !.status = "broadcast-failed"]
  <2>1. /\ new \in Bundle /\ new.status = "broadcast-failed" /\ new.leaves = b.leaves /\ new.nonce = b.nonce
        /\ new.attempts = b.attempts /\ new.ots = b.ots
    BY <1>1 DEF Bundle
  <2>2. bundle \in [Days -> Bundle] /\ bundle' = [bundle EXCEPT ![s.d] = new]
    BY <1>0, <1>6 DEF Refused, Inv, Typed
  <2> HIDE DEF new
  <2>3. /\ bundle' \in [Days -> Bundle] /\ bundle'[s.d] = new
        /\ \A d \in Days : d # s.d => bundle'[d] = bundle[d]
    BY <1>1, <2>1, <2>2
  <2>4. b.status = "sent" /\ b.attempts = s.next.attempts
    BY <1>1, <1>6 DEF Pending
  <2>5. BundlesStay
    BY <1>0, <1>4, <2>1, <2>3, <2>4 DEF BundlesStay
  <2>6. NoStraggler' /\ DaysAreOver'
    <3>1. \A d \in Days : bundle'[d].leaves = bundle[d].leaves
      BY <1>0, <2>1, <2>3
    <3> QED  BY <1>2, <3>1 DEF Inv, Chain, NoStraggler, DaysAreOver, Open, Built
  <2>7. /\ \A y \in Sent : y.k <= bundle[y.d].attempts
        /\ \A y, z \in Sent : y.d = z.d /\ y.k = z.k => y = z
        /\ \A y \in Sent : y.k = bundle[y.d].attempts =>
             y.nonce = bundle[y.d].nonce /\ bundle[y.d].status # "broadcast-failed"
        /\ \A y \in Sent : y.d \in Days
    BY DEF Inv, Typed, Chain, SentIsRecorded, Sent, Transaction
  <2>8. Sent' = Sent /\ (pool \cup {m.tx : m \in mined \cup orphaned})' = Sent
    BY <1>2 DEF Sent
  <2>9. SentIsRecorded'
    <3>1. \A y \in Sent : y.k <= bundle'[y.d].attempts
      BY <1>0, <2>1, <2>3, <2>7
    <3>2. \A y \in Sent : y.k = bundle'[y.d].attempts =>
             y.nonce = bundle'[y.d].nonce /\ bundle'[y.d].status # "broadcast-failed"
      BY <1>0, <1>1, <2>1, <2>3, <2>4, <2>7 DEF Pending
    <3> QED  BY <2>7, <2>8, <3>1, <3>2 DEF SentIsRecorded
  <2>10. ConfirmedWasMined'
    BY <1>2, <2>1, <2>3 DEF Inv, Chain, ConfirmedWasMined, Receipts, Attempt
  <2>11. ASSUME NEW q \in Runs, q # r, NEW p, p = run[q] PROVE Knows(p)'
    <3>1. Knows(p) /\ p \in Handler
      BY <2>11 DEF Inv, Typed, RunsKnow
    <3>2. CASE ~Sends(p)
      BY <1>2, <3>1, <3>2 DEF Knows, Ran, Sends, Decides, Upgrades
    <3>3. CASE Sends(p)
      <4>1. p.d = s.d => p.next.attempts # s.next.attempts
        BY <1>0, <1>1, <2>11, <3>3 DEF Inv, OneSender, Sends, Idle
      <4>2. Pending(p) /\ p.d \in Days
        BY <2>11, <3>1, <3>3, SenderFacts DEF Knows, Sends
      <4>3. Pending(p)'
        BY <1>0, <2>1, <2>3, <2>4, <2>8, <4>1, <4>2 DEF Pending
      <4> QED  BY <1>2, <3>1, <3>3, <4>3 DEF Knows, Ran, Sends
    <3> QED  BY <3>2, <3>3
  <2>12. AfterAnchor(s) \in Handler /\ Knows(AfterAnchor(s))' /\ ~Sends(AfterAnchor(s))
    BY <1>1, <1>2, <1>3, LoopKnows
  <2>13. run' \in [Runs -> Handler] /\ RunsKnow' /\ OneSender'
    BY <1>2, <2>11, <2>12, OthersKeep
  <2> QED  BY <1>2, <2>3, <2>5, <2>6, <2>9, <2>10, <2>13 DEF Inv, Typed, Chain
<1> QED  BY <1>5, <1>6

-----------------------------------------------------------------------------
(* Time, the network and the requests.                                     *)

\* A step that no run makes.
LEMMA NoRunKeeps ==
  ASSUME Inv, run' = run, \A p \in Handler : Knows(p) => Knows(p)'
  PROVE  run' \in [Runs -> Handler] /\ RunsKnow' /\ OneSender'
<1>1. RunsKnow'
  BY DEF Inv, Typed, RunsKnow
<1>2. OneSender'
  BY DEF Inv, OneSender, Sends
<1> QED  BY <1>1, <1>2 DEF Inv, Typed

\* What a run knows, after a step that changes the transactions only.
LEMMA NetworkKeeps ==
  ASSUME UNCHANGED <<day, phase, queue, bundle>>, Sent' \subseteq Sent,
         mined \cup orphaned \subseteq (mined \cup orphaned)'
  PROVE  \A p \in Handler : Knows(p) => Knows(p)'
<1> SUFFICES ASSUME NEW p \in Handler, Knows(p) PROVE Knows(p)'
  OBVIOUS
<1>1. Decides(p) => Decides(p)'
  BY DEF Decides
<1>2. Pending(p) => Pending(p)'
  BY DEF Pending
<1>3. Upgrades(p) => Upgrades(p)'
  BY DEF Upgrades
<1> QED  BY <1>1, <1>2, <1>3 DEF Knows, Ran

LEMMA TickKeeps == ASSUME Inv, Tick PROVE Inv'
<1>1. UNCHANGED <<bundle, run, pool, mined, orphaned>>
  BY DEF Tick
<1>2. /\ \/ day' = day /\ phase' = phase
         \/ day' = day /\ phase' = phase + 1
         \/ day' = day + 1 /\ phase' = 0
      /\ day \in Nat /\ phase \in Nat /\ day' \in Days /\ phase' \in 0 .. DayLength - 1
  <2>1. /\ LastDay \in Nat /\ DayLength \in Nat /\ DayLength > 1
        /\ day \in 0 .. LastDay /\ phase \in 0 .. DayLength - 1
    BY AnchoringConstants DEF Inv, Typed, Days
  <2>2. \/ phase < DayLength - 1 /\ phase' = phase + 1 /\ day' = day
        \/ day < LastDay /\ phase' = 0 /\ day' = day + 1
        \/ phase' = phase /\ day' = day
    BY DEF Tick
  <2> QED  BY <2>1, <2>2 DEF Days
<1>3. age' \in [Days -> 0 .. Wait] /\ lock' \in 0 .. LockTtl
  <2>1. Wait \in Nat /\ LockTtl \in Nat
    BY AnchoringConstants
  <2> QED  BY <2>1 DEF Tick, Inv, Typed
<1>4. held' = {d \in held : d >= day} /\ UNCHANGED <<bundle, queue, run, pool, mined, orphaned>>
      /\ \A d \in Days : d \in Nat
  BY AnchoringConstants DEF Tick, Days
<1>5. Chain'
  <2>1. NoStraggler'
    BY <1>4 DEF Inv, Chain, NoStraggler, Built
  <2>2. \A d \in Days : ~Open(d) => ~Open(d)'
    BY <1>2, <1>4 DEF Open
  <2>3. \A d \in held' : Open(d)'
    <3>1. \A d \in held' : d \in Nat /\ d >= day
      BY <1>4 DEF Inv, Typed
    <3> QED  BY <1>2, <3>1 DEF Open
  <2>4. \A d \in Days : Built(d)' => ~Open(d)'
    BY <1>4, <2>2 DEF Inv, Chain, DaysAreOver, Built
  <2>5. SentIsRecorded' /\ ConfirmedWasMined'
    BY <1>4 DEF Inv, Chain, SentIsRecorded, ConfirmedWasMined, Attempt
  <2> QED  BY <2>1, <2>3, <2>4, <2>5 DEF Chain, DaysAreOver
<1>6. ASSUME NEW p \in Handler, Knows(p) PROVE Knows(p)'
  <2>1. p # Idle => p.today \in Nat
    BY AnchoringConstants DEF Handler, Loop, Freeze, Mark, Ots, Days
  <2>2. p # Idle => Ran(p.today)'
    BY <1>2, <1>6, <2>1 DEF Knows, Ran
  <2>3. /\ Decides(p) => Decides(p)'
        /\ Pending(p) => Pending(p)'
        /\ Upgrades(p) => Upgrades(p)'
    BY <1>4 DEF Decides, Pending, Upgrades, Sent
  <2> QED  BY <1>4, <1>6, <2>2, <2>3 DEF Knows
<1>7. run' \in [Runs -> Handler] /\ RunsKnow' /\ OneSender'
  BY <1>1, <1>6, NoRunKeeps
<1> QED  BY <1>1, <1>2, <1>3, <1>4, <1>5, <1>7 DEF Inv, Typed

LEMMA MineKeeps == ASSUME Inv, Mine PROVE Inv'
<1>1. PICK x \in pool, ok \in BOOLEAN : pool' = pool \ {x} /\ mined' = mined \cup {[tx |-> x, ok |-> ok]}
  BY DEF Mine
<1>2. UNCHANGED <<day, phase, held, queue, bundle, age, lock, run, orphaned>>
  BY DEF Mine
<1>3. pool' \subseteq Transaction /\ IsFiniteSet(pool') /\ IsFiniteSet(mined')
      /\ mined' \subseteq [tx: Transaction, ok: BOOLEAN]
  <2>1. x \in Transaction /\ [tx |-> x, ok |-> ok] \in [tx: Transaction, ok: BOOLEAN]
    BY DEF Inv, Typed
  <2>2. IsFiniteSet(pool \ {x}) /\ IsFiniteSet(mined \cup {[tx |-> x, ok |-> ok]})
    BY FS_RemoveElement, FS_AddElement DEF Inv, Typed
  <2> QED  BY <1>1, <2>1, <2>2 DEF Inv, Typed
<1>4. Sent' = Sent /\ mined \cup orphaned \subseteq (mined \cup orphaned)'
  <2>1. {m.tx : m \in (mined \cup orphaned)'} = {m.tx : m \in mined \cup orphaned} \cup {x}
    <3> DEFINE n == [tx |-> x, ok |-> ok]
    <3>1. n.tx = x /\ mined' = mined \cup {n}
      BY <1>1
    <3> HIDE DEF n
    <3> QED  BY <1>2, <3>1
  <2> QED  BY <1>1, <1>2, <2>1 DEF Sent
<1>5. Chain'
  <2>1. NoStraggler' /\ DaysAreOver'
    BY <1>2 DEF Inv, Chain, NoStraggler, DaysAreOver, Open, Built
  <2>2. SentIsRecorded'
    BY <1>2, <1>4 DEF Inv, Chain, SentIsRecorded, Sent
  <2>3. ConfirmedWasMined'
    BY <1>2, <1>4 DEF Inv, Chain, ConfirmedWasMined, Attempt
  <2> QED  BY <2>1, <2>2, <2>3 DEF Chain
<1>6. \A p \in Handler : Knows(p) => Knows(p)'
  BY <1>2, <1>4, NetworkKeeps
<1>7. run' \in [Runs -> Handler] /\ RunsKnow' /\ OneSender'
  BY <1>2, <1>6, NoRunKeeps
<1> QED  BY <1>2, <1>3, <1>5, <1>7 DEF Inv, Typed

LEMMA DropKeeps == ASSUME Inv, Drop PROVE Inv'
<1>1. PICK x \in pool : pool' = pool \ {x}
  BY DEF Drop
<1>2. UNCHANGED <<day, phase, held, queue, bundle, age, lock, run, mined, orphaned>>
  BY DEF Drop
<1>3. pool' \subseteq Transaction /\ IsFiniteSet(pool') /\ Sent' \subseteq Sent
  BY <1>1, <1>2, FS_RemoveElement DEF Inv, Typed, Sent
<1>4. Chain'
  <2>1. NoStraggler' /\ DaysAreOver' /\ ConfirmedWasMined'
    BY <1>2 DEF Inv, Chain, NoStraggler, DaysAreOver, Open, Built, ConfirmedWasMined, Attempt
  <2>2. SentIsRecorded'
    BY <1>2, <1>3 DEF Inv, Chain, SentIsRecorded, Sent
  <2> QED  BY <2>1, <2>2 DEF Chain
<1>5. \A p \in Handler : Knows(p) => Knows(p)'
  BY <1>2, <1>3, NetworkKeeps
<1>6. run' \in [Runs -> Handler] /\ RunsKnow' /\ OneSender'
  BY <1>2, <1>5, NoRunKeeps
<1> QED  BY <1>2, <1>3, <1>4, <1>6 DEF Inv, Typed

\* What is taken out of its block has been in one.
LEMMA ReorgKeeps == ASSUME Inv, Reorg PROVE Inv'
<1>1. PICK m \in mined : /\ mined' = mined \ {m} /\ orphaned' = orphaned \cup {m}
                         /\ pool' \in {pool, pool \cup {m.tx}}
  BY DEF Reorg
<1>2. UNCHANGED <<day, phase, held, queue, bundle, age, lock, run>>
  BY DEF Reorg
<1>3. m.tx \in Transaction /\ m \in [tx: Transaction, ok: BOOLEAN]
  BY DEF Inv, Typed
<1>4. /\ pool' \subseteq Transaction /\ IsFiniteSet(pool')
      /\ mined' \subseteq [tx: Transaction, ok: BOOLEAN] /\ IsFiniteSet(mined')
      /\ orphaned' \subseteq [tx: Transaction, ok: BOOLEAN]
  BY <1>1, <1>3, FS_AddElement, FS_RemoveElement DEF Inv, Typed
<1>5. (mined \cup orphaned)' = mined \cup orphaned /\ Sent' = Sent
  <2>1. (mined \cup orphaned)' = mined \cup orphaned
    BY <1>1
  <2>2. m.tx \in {n.tx : n \in mined \cup orphaned}
    OBVIOUS
  <2> QED  BY <1>1, <2>1, <2>2 DEF Sent
<1>6. Chain'
  <2>1. NoStraggler' /\ DaysAreOver' /\ ConfirmedWasMined'
    BY <1>2, <1>5 DEF Inv, Chain, NoStraggler, DaysAreOver, Open, Built, ConfirmedWasMined, Attempt
  <2>2. SentIsRecorded'
    BY <1>2, <1>5 DEF Inv, Chain, SentIsRecorded, Sent
  <2> QED  BY <2>1, <2>2 DEF Chain
<1>7. \A p \in Handler : Knows(p) => Knows(p)'
  BY <1>2, <1>5, NetworkKeeps
<1>8. run' \in [Runs -> Handler] /\ RunsKnow' /\ OneSender'
  BY <1>2, <1>7, NoRunKeeps
<1> QED  BY <1>2, <1>4, <1>6, <1>8 DEF Inv, Typed

\* The bundle that is open is today's.
LEMMA OpenBundle ==
  ASSUME Inv
  PROVE  BundleDate \in Days /\ Open(BundleDate)
<1> DEFINE S == {d \in Days : d >= day /\ ~Built(d)}
<1>1. Days \subseteq Nat /\ day \in Days
  BY AnchoringConstants DEF Inv, Typed, Days
<1>2. day \in S
  <2>1. day \in Nat /\ Open(day)
    BY <1>1 DEF Open
  <2>2. ~Built(day)
    BY <1>1, <2>1 DEF Inv, Chain, DaysAreOver
  <2> QED  BY <1>1, <2>1, <2>2
<1>3. Min(S) \in S
  BY <1>1, <1>2, MinIsLeast
<1>4. BundleDate \in S /\ BundleDate \in Nat
  BY <1>1, <1>3 DEF BundleDate
<1> QED  BY <1>1, <1>4 DEF Open

LEMMA IssueReadsKeeps == ASSUME Inv, IssueReads PROVE Inv'
<1>1. BundleDate \in Days /\ Open(BundleDate) /\ held' = held \cup {BundleDate}
  BY OpenBundle DEF IssueReads
<1>2. UNCHANGED <<day, phase, queue, bundle, age, lock, run, pool, mined, orphaned>>
  BY DEF IssueReads
<1>3. \A d : Open(d)' = Open(d)
  BY <1>2 DEF Open
<1>4. Chain'
  BY <1>1, <1>2, <1>3 DEF Inv, Typed, Chain, NoStraggler, DaysAreOver, Built,
                          SentIsRecorded, ConfirmedWasMined, Attempt
<1>5. \A p \in Handler : Knows(p) => Knows(p)'
  BY <1>2, SameKnows
<1>6. run' \in [Runs -> Handler] /\ RunsKnow' /\ OneSender'
  BY <1>2, <1>5, NoRunKeeps
<1> QED  BY <1>1, <1>2, <1>4, <1>6 DEF Inv, Typed

\* A request queues for a day that is open, and no run takes that one for over.
LEMMA IssueCommitsKeeps == ASSUME Inv, IssueCommits PROVE Inv'
<1>1. PICK d \in held, a \in Attestations : queue' = [queue EXCEPT ![d] = @ \cup {a}]
  <2> DEFINE rest == Attestations \ UNION {queue[d] : d \in Days}
  <2>1. rest # {} /\ \E d \in held : queue' = [queue EXCEPT ![d] = @ \cup {CHOOSE a \in rest : TRUE}]
    BY DEF IssueCommits
  <2> QED  BY <2>1
<1>2. UNCHANGED <<day, phase, held, bundle, age, lock, run, pool, mined, orphaned>>
  BY DEF IssueCommits
<1>3. d \in Days /\ Open(d) /\ queue' \in [Days -> SUBSET Attestations]
      /\ \A c \in Days : ~Open(c) => queue'[c] = queue[c]
  BY <1>1 DEF Inv, Typed, Chain, DaysAreOver
<1>4. \A c : Open(c)' = Open(c)
  BY <1>2 DEF Open
<1>5. Chain'
  <2>1. NoStraggler'
    BY <1>2, <1>3 DEF Inv, Chain, NoStraggler, DaysAreOver, Built
  <2> QED  BY <1>2, <1>4, <2>1 DEF Inv, Chain, DaysAreOver, Built, SentIsRecorded, ConfirmedWasMined, Attempt
<1>6. ASSUME NEW p \in Handler, Knows(p) PROVE Knows(p)'
  <2>1. CASE p = Idle
    BY <2>1 DEF Knows
  <2>2. CASE p # Idle
    <3>1. p.d \in Days /\ p.today \in Days /\ day \in Days
      BY <2>2 DEF Handler, Loop, Freeze, Mark, Ots, Inv, Typed
    <3>2. p.pc = "freeze" => queue'[p.d] = queue[p.d]
      BY <1>3, <1>6, <2>2, <3>1, OverDay DEF Knows
    <3>3. /\ Decides(p) => Decides(p)'
          /\ Pending(p) => Pending(p)'
          /\ Upgrades(p) => Upgrades(p)'
      BY <1>2 DEF Decides, Pending, Upgrades, Sent
    <3> QED  BY <1>2, <1>6, <2>2, <3>2, <3>3 DEF Knows, Ran
  <2> QED  BY <2>1, <2>2
<1>7. run' \in [Runs -> Handler] /\ RunsKnow' /\ OneSender'
  BY <1>2, <1>6, NoRunKeeps
<1> QED  BY <1>2, <1>3, <1>5, <1>7 DEF Inv, Typed

-----------------------------------------------------------------------------
(* The theorems.                                                           *)

LEMMA InitInv == Init => Inv
<1> SUFFICES ASSUME Init PROVE Inv
  OBVIOUS
<1>1. 0 \in Days /\ 0 \in 0 .. Wait /\ 0 \in 0 .. LockTtl /\ 0 \in 0 .. DayLength - 1
  BY AnchoringConstants DEF Days
<1>2. NoBundle \in Bundle
  BY <1>1 DEF NoBundle, Bundle
<1>3. Typed
  BY <1>1, <1>2, FS_EmptySet DEF Init, Typed, Handler
<1>4. Chain
  BY DEF Init, Chain, NoStraggler, DaysAreOver, SentIsRecorded, ConfirmedWasMined, NoBundle, Built
<1>5. RunsKnow /\ OneSender
  BY DEF Init, RunsKnow, Knows, OneSender, Sends
<1> QED  BY <1>3, <1>4, <1>5 DEF Inv

\* What does not write the bundle keeps it.
LEMMA BundleSame == ASSUME Inv, bundle' = bundle PROVE BundlesStay
<1>1. \A d \in Days : bundle[d].attempts \in Nat
  BY DEF Inv, Typed, Bundle
<1> QED  BY <1>1 DEF BundlesStay

LEMMA BuildStays == ASSUME Inv, NEW r \in Runs, BuildCommits(r) PROVE BundlesStay
<1>0. PICK s : s = run[r]
  OBVIOUS
<1>1. s.d \in Days /\ bundle \in [Days -> Bundle]
  BY <1>0, RunFacts DEF BuildCommits, Inv, Typed
<1>2. CASE Built(s.d)
  BY <1>0, <1>2, BundleSame DEF BuildCommits
<1>3. CASE ~Built(s.d)
  <2>1. bundle' = [bundle EXCEPT ![s.d] = [bundle[s.d] EXCEPT !.leaves = s.leaves]]
    BY <1>0, <1>1, <1>3 DEF BuildCommits
  <2>2. /\ [bundle[s.d] EXCEPT !.leaves = s.leaves].attempts = bundle[s.d].attempts
        /\ [bundle[s.d] EXCEPT !.leaves = s.leaves].status = bundle[s.d].status
        /\ [bundle[s.d] EXCEPT !.leaves = s.leaves].ots = bundle[s.d].ots
        /\ \A d \in Days : bundle[d].attempts \in Nat
    BY <1>1 DEF Bundle
  <2> QED  BY <1>1, <1>3, <2>1, <2>2 DEF BundlesStay, Built
<1> QED  BY <1>2, <1>3

LEMMA StepInv == Inv /\ [Next]_vars => Inv' /\ BundlesStay
<1> SUFFICES ASSUME Inv, [Next]_vars PROVE Inv' /\ BundlesStay
  OBVIOUS
<1>1. CASE Tick  BY <1>1, TickKeeps, BundleSame DEF Tick
<1>2. CASE Mine  BY <1>2, MineKeeps, BundleSame DEF Mine
<1>3. CASE Drop  BY <1>3, DropKeeps, BundleSame DEF Drop
<1>4. CASE IssueReads
  BY <1>4, IssueReadsKeeps, BundleSame DEF IssueReads
<1>5. CASE IssueCommits
  BY <1>5, IssueCommitsKeeps, BundleSame DEF IssueCommits
<1>6. ASSUME NEW r \in Runs, Start(r) PROVE Inv' /\ BundlesStay
  BY <1>6, StartKeeps, BundleSame DEF Start
<1>7. ASSUME NEW r \in Runs, Crash(r) PROVE Inv' /\ BundlesStay
  BY <1>7, CrashKeeps, BundleSame DEF Crash
<1>8. ASSUME NEW r \in Runs, Deadline(r) PROVE Inv' /\ BundlesStay
  BY <1>8, DeadlineKeeps, BundleSame DEF Deadline
<1>9. ASSUME NEW r \in Runs, AnchorThrows(r) PROVE Inv' /\ BundlesStay
  BY <1>9, AnchorThrowsKeeps, BundleSame DEF AnchorThrows
<1>10. ASSUME NEW r \in Runs, Step(r) PROVE Inv' /\ BundlesStay
  <2>1. CASE End(r)  BY <2>1, EndKeeps, BundleSame DEF End
  <2>2. CASE BuildReads(r)  BY <2>2, BuildReadsKeeps, BundleSame DEF BuildReads
  <2>3. CASE BuildCommits(r)  BY <2>3, BuildCommitsKeeps, BuildStays
  <2>4. CASE AnchorReads(r)  BY <2>4, AnchorReadsKeeps, BundleSame DEF AnchorReads
  <2>5. CASE AnchorMarks(r)  BY <2>5, AnchorMarksKeeps
  <2>6. CASE Send(r)  BY <2>6, SendKeeps, BundleSame DEF Send
  <2>7. CASE Refused(r)  BY <2>7, RefusedKeeps
  <2>8. CASE OtsReads(r)  BY <2>8, OtsReadsKeeps, BundleSame DEF OtsReads
  <2>9. CASE OtsCommits(r)  BY <2>9, OtsCommitsKeeps
  <2> QED  BY <1>10, <2>1, <2>2, <2>3, <2>4, <2>5, <2>6, <2>7, <2>8, <2>9 DEF Step
<1>12. CASE Reorg  BY <1>12, ReorgKeeps, BundleSame DEF Reorg
<1>11. CASE UNCHANGED vars
  <2>1. UNCHANGED <<day, phase, held, queue, bundle, age, lock, run, pool, mined, orphaned>>
    BY <1>11 DEF vars
  <2>2. \A p \in Handler : Knows(p) => Knows(p)'
    BY <2>1, SameKnows
  <2>3. run' \in [Runs -> Handler] /\ RunsKnow' /\ OneSender'
    BY <2>1, <2>2, NoRunKeeps
  <2>4. Chain'
    BY <2>1, ChainSame DEF Inv
  <2> QED  BY <2>1, <2>3, <2>4, BundleSame DEF Inv, Typed
<1> QED  BY <1>1, <1>2, <1>3, <1>4, <1>5, <1>6, <1>7, <1>8, <1>9, <1>10, <1>11, <1>12 DEF Next

\* The inductive invariant holds of every behaviour of the runs.
THEOREM AnchoringInvariant == Spec => []Inv
<1>1. Init => Inv
  BY InitInv
<1>2. Inv /\ [Next]_vars => Inv'
  BY StepInv
<1> QED  BY <1>1, <1>2, PTL DEF Spec

\* Every value of the state is of its kind.
THEOREM AnchoringTypes == Spec => []TypeOK
<1>1. Inv => TypeOK
  BY DEF Inv, Typed, TypeOK, Bundle
<1> QED  BY <1>1, AnchoringInvariant, PTL

\* The bundle of a day has every attestation that is queued for it, also by a
\* request that read the date before midnight and wrote after it, however
\* issuing and building interleave: given that requests end within a unit of
\* time and that runs do not start in the first unit of a day.
THEOREM NoStragglerTheorem == Spec => []NoStraggler
<1>1. Inv => NoStraggler
  BY DEF Inv, Chain
<1> QED  BY <1>1, AnchoringInvariant, PTL

\* One transaction for each recorded attempt and no other, and no bundle that
\* is confirmed without a transaction of that very attempt that was in a block
\* and succeeded, whatever crashed, was reorganised or was sent by two runs.
\* That it still is in a block does not follow: see ConfirmedIsMined.
THEOREM RecordTheorem == Spec => []RecordIsTrue
<1>1. Inv => RecordIsTrue
  BY DEF Inv, Chain, RecordIsTrue
<1> QED  BY <1>1, AnchoringInvariant, PTL

\* No run undoes what another one has written.
THEOREM LossTheorem == Spec => NothingIsLost
<1>1. Inv /\ [Next]_vars => BundlesStay
  BY StepInv
<1> QED  BY <1>1, AnchoringInvariant, PTL DEF Spec, NothingIsLost
=============================================================================
