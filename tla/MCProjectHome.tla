--------------------------- MODULE MCProjectHome ---------------------------
(***************************************************************************)
(* One project, two quotes that may draw the same exact amount once the    *)
(* first one's reservation has ended.  Two cases: part "pay" has one        *)
(* operator, who pays; part "site" two operators in turn, who publish, one   *)
(* mode, one quote and one block.                                           *)
(***************************************************************************)
EXTENDS ProjectHome, TLC

CONSTANTS a, b, t1, i1, i2, c1, c2, x1, s1, s2

MCTokenFor == [i \in Intents |-> t1]
MCPays     == [x \in Txs |-> c1]

VARIABLE part
Paying == /\ passport'[t1] # b /\ ~suspended'[t1]
          /\ \A s \in Slots : run'[s].kind \notin {"publish", "unpublish"}
Publishing == mode' = mode /\ intent'[i2].status = "NONE" /\ amount'[c2] = None /\ chain'[x1].block <= 1

Cases == Init /\ part \in {"pay", "site"}
Step == Next /\ UNCHANGED part /\ IF part = "pay" THEN Paying ELSE Publishing
CasesSpec == Cases /\ [][Step]_<<vars, part>>

SlotSymmetry == Permutations(Slots)
=============================================================================
