------------------------------ MODULE MCReceipts ------------------------------
(***************************************************************************)
(* Instances of Receipts for TLC.  One step of the clock stands for the    *)
(* order of the code's durations, not their lengths: a draft is shorter    *)
(* than a window, a window no longer than the grace after it.              *)
(***************************************************************************)
EXTENDS Receipts, TLC

CONSTANTS i1, i2, x1, x2, s1, s2

\* At most one transfer is in the chain when the clock takes its last step.
Short == clock' = MaxTime => \E x \in Txs : mined'[x] = 0
ShortSpec == Init /\ [][Next /\ Short]_vars

Interchangeable == Permutations(Intents) \cup Permutations(Txs) \cup Permutations(Slots)
=============================================================================
