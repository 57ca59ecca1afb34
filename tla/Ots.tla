---- MODULE Ots ----
\* The OpenTimestamps proof of a day's root: the calendars' answers are parsed, united, written, and later replaced by
\* what the calendars hold by then.  Code: netlify/lib/early-ots.js, and its caller in netlify/functions/early-anchor.js.
\* A timestamp is a tree [att, ops]: attestations <<tag, payload>> of the message, and operations [op, arg, child] that
\* make the message of a subtree.  A message is the sequence of the operations that led to it.  RECURSIVE: TLC only.
EXTENDS Integers, Sequences, SequencesExt, FiniteSets

CONSTANTS Calendars,      \* the calendars asked, in their order (DEFAULT_CALENDARS)
          Answers,        \* External: calendar |-> what it may answer to the digest (trees)
          Holds,          \* External: calendar |-> what it may hold for a commitment later (trees)
          MaxRounds       \* later runs of the daily job for this root

VARIABLES asked,      \* calendars asked so far
          node,       \* the tree in memory
          todo,       \* upgrade's list: attestations with where each was when the list was made
          proof,      \* the proof kept in the bundle record (a sequence of tokens; <<>>: null)
          status, rounds,
          given       \* <<attestation, message>> the calendars gave and did not replace
vars == <<asked, node, todo, proof, status, rounds, given>>

Empty == [att |-> <<>>, ops |-> <<>>]
PENDING == "pending"
BITCOIN == "bitcoin"
Nothing == Empty

\* ---- the wire: a fork before every item of a node but the last ----
Fork == [token |-> "fork", of |-> <<>>]
RECURSIVE serializeTimestamp(_)
serializeTimestamp(tree) ==
    LET items == [i \in DOMAIN tree.att |-> <<[token |-> "attestation", of |-> tree.att[i]]>>] \o
                 [i \in DOMAIN tree.ops |-> <<[token |-> "op", of |-> <<tree.ops[i].op, tree.ops[i].arg>>]>>
                                            \o serializeTimestamp(tree.ops[i].child)]
    IN FoldLeft(LAMBDA wire, item : IF wire = <<>> THEN item ELSE <<Fork>> \o item \o wire, <<>>, Reverse(items))

Broken == [node |-> Empty, next |-> 0]                      \* parseTimestamp throws
RECURSIVE parseTimestamp(_, _, _)
parseTimestamp(wire, pos, tree) ==
    LET forks == pos <= Len(wire) /\ wire[pos] = Fork
        at == IF forks THEN pos + 1 ELSE pos
        sub == parseTimestamp(wire, at + 1, Empty)
        step == IF at > Len(wire) \/ (at <= Len(wire) /\ wire[at] = Fork) THEN Broken
                ELSE IF wire[at].token = "attestation"
                THEN [node |-> [tree EXCEPT !.att = Append(@, wire[at].of)], next |-> at + 1]
                ELSE IF sub.next = 0 THEN Broken
                ELSE [node |-> [tree EXCEPT !.ops = Append(@, [op |-> wire[at].of[1], arg |-> wire[at].of[2], child |-> sub.node])],
                      next |-> sub.next]
    IN IF step.next = 0 \/ ~forks THEN step ELSE parseTimestamp(wire, step.next, step.node)
Whole(wire) == LET read == parseTimestamp(wire, 1, Empty) IN read.next = Len(wire) + 1      \* "trailing bytes", "truncated"

\* ---- the tree ----
RECURSIVE attestationsOf(_, _, _)
attestationsOf(tree, msg, path) ==
    [i \in DOMAIN tree.att |-> [att |-> tree.att[i], commitment |-> msg, path |-> path, index |-> i]] \o
    FoldLeft(LAMBDA all, i : all \o attestationsOf(tree.ops[i].child, Append(msg, <<tree.ops[i].op, tree.ops[i].arg>>), Append(path, i)),
             <<>>, [i \in DOMAIN tree.ops |-> i])
Promises(tree, msg) == {<<a.att, a.commitment>> : a \in ToSet(attestationsOf(tree, msg, <<>>))}

SameOp(x, y) == x.op = y.op /\ x.arg = y.arg
\* The union of two timestamps of one message.
RECURSIVE mergeInto(_, _)
mergeInto(a, b) ==
    LET all == [a EXCEPT !.att = @ \o SelectSeq(b.att, LAMBDA x : x \notin ToSet(a.att))]
        add(tree, o) == LET i == SelectInSeq(tree.ops, LAMBDA x : SameOp(x, o))
                        IN IF i = 0 THEN [tree EXCEPT !.ops = Append(@, o)] ELSE [tree EXCEPT !.ops[i].child = mergeInto(@, o.child)]
    IN FoldLeft(add, all, b.ops)

\* splice(indexOf(attestations[index]), 1): when nothing is there any more, indexOf is -1 and the last one goes.
Spliced(atts, index) == IF atts = <<>> THEN atts
                        ELSE RemoveAt(atts, IF index \in DOMAIN atts THEN index ELSE Len(atts))
\* One pending attestation gives way to what its calendar holds, in the node that carries it.
RECURSIVE Replaced(_, _, _, _)
Replaced(tree, path, index, answer) ==
    IF path = <<>> THEN mergeInto([tree EXCEPT !.att = Spliced(@, index)], answer)
    ELSE [tree EXCEPT !.ops[path[1]].child = Replaced(@, Tail(path), index, answer)]
hasBitcoin(wire) == \E a \in ToSet(attestationsOf(parseTimestamp(wire, 1, Empty).node, <<>>, <<>>)) : a.att[1] = BITCOIN

\* ---- submit ----
Init == /\ asked = 0 /\ node = Nothing /\ todo = <<>> /\ proof = <<>> /\ status = "none" /\ rounds = 0
        /\ given = {}
Submitting == status \in {"none", "failed"} /\ asked < Len(Calendars)
Ask(tree) ==
    /\ Submitting /\ asked' = asked + 1
    /\ Whole(serializeTimestamp(tree))
    /\ node' = IF node = Nothing THEN tree ELSE mergeInto(node, tree)
    /\ given' = given \cup Promises(tree, <<>>)
    /\ UNCHANGED <<todo, proof, status, rounds>>
AskFails == Submitting /\ asked' = asked + 1 /\ UNCHANGED <<node, todo, proof, status, rounds, given>>
Keep ==
    /\ status \in {"none", "failed"} /\ asked = Len(Calendars)
    /\ proof' = IF node = Nothing THEN <<>> ELSE serializeTimestamp(node)
    /\ status' = IF proof' = <<>> THEN "failed" ELSE IF hasBitcoin(proof') THEN "bitcoin-verifiable" ELSE "submitted"
    /\ asked' = IF proof' = <<>> /\ rounds < MaxRounds THEN 0 ELSE asked       \* no proof: the next run asks again
    /\ rounds' = IF proof' = <<>> /\ rounds < MaxRounds THEN rounds + 1 ELSE rounds
    /\ node' = Nothing
    /\ UNCHANGED <<todo, given>>

\* ---- upgrade ----
Upgrade ==
    /\ status = "submitted" /\ node = Nothing /\ rounds < MaxRounds
    /\ rounds' = rounds + 1
    /\ node' = parseTimestamp(proof, 1, Empty).node
    /\ todo' = SelectSeq(attestationsOf(node', <<>>, <<>>), LAMBDA a : a.att[1] = PENDING)
    /\ UNCHANGED <<asked, proof, status, given>>
UpgradeOne(tree) ==
    /\ todo # <<>>
    /\ LET a == Head(todo)
       IN /\ tree \in Holds[a.att[2]] /\ Whole(serializeTimestamp(tree))
          /\ node' = Replaced(node, a.path, a.index, tree)
          /\ given' = (given \ {<<a.att, a.commitment>>}) \cup Promises(tree, a.commitment)
    /\ todo' = Tail(todo)
    /\ UNCHANGED <<asked, proof, status, rounds>>
\* Nothing yet, an error, or bytes that do not parse: the attestation stays.
UpgradeFails == todo # <<>> /\ todo' = Tail(todo) /\ UNCHANGED <<asked, node, proof, status, rounds, given>>
Upgraded ==
    /\ status = "submitted" /\ node # Nothing /\ todo = <<>>
    /\ proof' = serializeTimestamp(node)
    /\ status' = IF hasBitcoin(proof') THEN "bitcoin-verifiable" ELSE "submitted"
    /\ node' = Nothing
    /\ UNCHANGED <<asked, todo, rounds, given>>

Next == \/ \E c \in DOMAIN Calendars : c = asked + 1 /\ \E tree \in Answers[Calendars[c]] : Ask(tree)
        \/ AskFails \/ Keep \/ Upgrade \/ \E c \in DOMAIN Holds : \E tree \in Holds[c] : UpgradeOne(tree)
        \/ UpgradeFails \/ Upgraded
OtsSpec == Init /\ [][Next]_vars

\* ---- properties ----
\* The proof the bundle keeps, read back, holds exactly what the calendars gave and did not replace, at the message each
\* of them attested, and it is called Bitcoin-verifiable exactly when one of those is a Bitcoin attestation.  Header of
\* early-ots.js: upgrade "replace[s] pending attestations with what the calendar now holds".
NothingLost ==
    status \in {"submitted", "bitcoin-verifiable"} /\ node = Nothing =>
        /\ Whole(proof)
        /\ Promises(parseTimestamp(proof, 1, Empty).node, <<>>) = given
        /\ (status = "bitcoin-verifiable") = \E g \in given : g[1][1] = BITCOIN
====
