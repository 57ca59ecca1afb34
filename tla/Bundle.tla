---- MODULE Bundle ----
\* The Merkle bundle of a day: its root, and the proofs by which a verifier finds a leaf in it.  Code:
\* lib/syncnet-early.js, "Merkle bundle".  A hash is the term it is taken of: equal exactly when what was hashed is
\* equal.  Two lists are queued side by side, so that their roots can be compared.  RECURSIVE: TLC only.
EXTENDS Integers, Sequences, SequencesExt

CONSTANTS Payloads,    \* what leaves commit to, ordered as their hashes are
          Dates, MaxLeaves

VARIABLES date, leaves,           \* one day's queue, in the order of the queue
          otherDate, others       \* another one
vars == <<date, leaves, otherDate, others>>

\* ---- hashes, in the three domains 0, 1 and 2 ----
leafHash(payload) == <<0, payload>>
nodeHash(l, r) == <<1, l, r>>
emptyRoot(day) == <<2, day>>

Before(a, b) == a[2] <= b[2]
sortLeaves(list) == SetToSortSeq(ToSet(list), Before)

Pair(level, i) == IF i + 1 \in DOMAIN level THEN level[i + 1] ELSE level[i]      \* the last one pairs with itself
RECURSIVE merkleLevels(_)
merkleLevels(level) ==
    <<level>> \o IF Len(level) <= 1 THEN <<>>
                 ELSE merkleLevels([k \in 1..((Len(level) + 1) \div 2) |-> nodeHash(level[2 * k - 1], Pair(level, 2 * k - 1))])
merkleRoot(sorted, day) == IF sorted = <<>> THEN emptyRoot(day) ELSE Last(merkleLevels(sorted))[1]

\* Where the ancestor of the i-th leaf is at level d, counted from 0.
Above(i, d) == (i - 1) \div (2 ^ (d - 1))
\* Mutation of merkleProof: the sibling is always the next one.
X_NextOne(sorted, i) ==
    LET levels == merkleLevels(sorted)
    IN [d \in 1..(Len(levels) - 1) |-> [hash |-> Pair(levels[d], Above(i, d) + 1), side |-> "R"]]
merkleProof(sorted, i) ==
    LET levels == merkleLevels(sorted)
        sibling(level, at) == IF at % 2 = 1 THEN [hash |-> level[at], side |-> "L"] ELSE [hash |-> Pair(level, at + 1), side |-> "R"]
    IN [d \in 1..(Len(levels) - 1) |-> sibling(levels[d], Above(i, d))]
verifyProof(leaf, siblings, root) ==
    root = FoldLeft(LAMBDA h, s : IF s.side = "L" THEN nodeHash(s.hash, h) ELSE nodeHash(h, s.hash), leaf, siblings)

\* ---- two queues ----
Init == date \in Dates /\ otherDate \in Dates /\ leaves = <<>> /\ others = <<>>
Queue == \E p \in Payloads : Len(leaves) < MaxLeaves /\ leaves' = Append(leaves, leafHash(p)) /\ UNCHANGED <<date, otherDate, others>>
QueueOther == \E p \in Payloads : Len(others) < MaxLeaves /\ others' = Append(others, leafHash(p)) /\ UNCHANGED <<date, leaves, otherDate>>
Next == Queue \/ QueueOther
BundleSpec == Init /\ [][Next]_vars

\* ---- properties ----
\* A root stands for one set of leaves: two queues have the same root exactly when they hold the same leaves, whatever
\* their order and however often a leaf was queued; two empty days have different roots.  Pairing the last node with
\* itself is what puts this at risk.
RootIsTheSet ==
    (merkleRoot(sortLeaves(leaves), date) = merkleRoot(sortLeaves(others), otherDate)) =
        (ToSet(leaves) = ToSet(others) /\ (leaves = <<>> => date = otherDate))
\* The proof served for a leaf verifies that leaf against its bundle's root, no other leaf, and against no other root.
ProofIsOfTheLeaf ==
    LET sorted == sortLeaves(leaves)
        root == merkleRoot(sorted, date)
        other == merkleRoot(sortLeaves(others), otherDate)
    IN \A i \in DOMAIN sorted :
         LET proof == merkleProof(sorted, i)
         IN /\ \A p \in Payloads : verifyProof(leafHash(p), proof, root) = (leafHash(p) = sorted[i])
            /\ verifyProof(sorted[i], proof, other) => other = root
====
