---- MODULE Preflight ----
\* What a builder reads of PAR before a launch, and what is left of it when the launch is included.  Code:
\* launch-engine-v2.js (normalize, prepare, presendCheck), lib/syncnet-chain.js (readParState, parChecks,
\* recipientStaticCheck, classifyRecipient).  The reads of one Promise.all may be answered from the block before the
\* newest one, and a read that fails is null.  The owner of PAR changes one parameter at a time.
EXTENDS Integers, Sequences, SequencesExt

CONSTANTS None,
          Values,      \* parameter of PAR |-> its values; a check of readParState is a parameter here too
          Healthy,     \* the values a launch expects, and the first ones
          Drafts,      \* [quotes, tax, mode, recipient, opening, slippage, ack]: what the creator filled in
          MaxOpening,  \* MAX_OPENING_BUY_WEI
          Reached,     \* how many of the quotes a route reaches from ETH
          MaxChanges, MaxFaults

VARIABLES par,      \* PAR in the newest block
          before,   \* PAR in the block before it
          kind,     \* what has code at the fee recipient's address
          prepared, \* locals of prepare(), then P
          since,    \* the parameters of every block since P
          outcome,  \* of the launch
          changes, faults
vars == <<par, before, kind, prepared, since, outcome, changes, faults>>

Reviewed == {"launchFee", "baseFeeBps", "protocolFeeShareBps"}
Fields == DOMAIN Values
KINDS == {"eoa", "delegated-eoa", "contract", "par-launch-token"}
Idle == [pc |-> "idle"]
Nothing == [is |-> "none"]
Ends(how) == [is |-> how]
Init == /\ par = Healthy /\ before = Healthy /\ kind \in KINDS /\ prepared = Idle /\ since = {} /\ outcome = Nothing
        /\ changes = 0 /\ faults = 0

\* ------------------------------------------------------------------------------------------ PAR and the RPC
Govern == /\ outcome = Nothing /\ changes < MaxChanges /\ changes' = changes + 1
          /\ \E f \in Fields : \E v \in Values[f] \ {par[f]} : par' = [par EXCEPT ![f] = v]
          /\ before' = par /\ since' = IF prepared.pc \in {"review", "resimulate", "sent"} THEN since \cup {par'} ELSE since
          /\ UNCHANGED <<kind, prepared, outcome, faults>>
Settle == /\ outcome = Nothing /\ before # par /\ before' = par
          /\ UNCHANGED <<par, kind, prepared, since, outcome, changes, faults>>
\* One Promise.all of tryRead: each value from either block, at most MaxFaults of them null.
Failing == IF faults < MaxFaults THEN {{}} \cup {{f} : f \in Fields} ELSE {{}}
Answers(failed) == {[f \in Fields |-> IF f \in failed THEN None ELSE from[f]] :
                      from \in {[f \in Fields |-> IF f \in late THEN before[f] ELSE par[f]] :
                                  late \in SUBSET {f \in Fields : before[f] # par[f]}}}
Counts(failed) == faults' = IF failed = {} THEN faults ELSE faults + 1

\* ----------------------------------------------------------------------------------------------- the checks
\* parChecks: what blocks a launch, and not only warns.  With an opening buy the router's wiring blocks too.
Blocking(draft) == {"code", "quotePricer", "launchConfig", "canLaunch"} \cup (IF draft.opening > 0 THEN {"launchForwarder"} ELSE {})
                   \cup (IF draft.mode = "creator" THEN {} ELSE {"vault"})
Checked(read, draft) == /\ \A f \in Fields \cap Blocking(draft) : read[f] = Healthy[f]
                        /\ \A f \in Reviewed : read[f] # None
                        /\ read["maxCreatorTaxBps"] # None /\ draft.tax <= read["maxCreatorTaxBps"]
\* normalize: what is refused before anything is read.  A quote is an address that is a market of its own; a recipient
\* is checked by what it is known to be.
FEE_MODES == {"holders", "burn", "floor", "creator"}
TAX_OPTIONS == {0, 100, 250, 500, 1000}
SLIPPAGE_BPS == {50, 100, 200, 500}
recipientStaticCheck(recipient) ==
  recipient \notin {"malformed", "zero", "system", "vault", "infrastructure", "extra", "quote", "burn"}
normalize(draft) == /\ Len(draft.quotes) \in 1..5 /\ IsInjective(draft.quotes)
                    /\ ToSet(draft.quotes) \cap {"malformed", "zero", "weth"} = {}
                    /\ draft.tax \in TAX_OPTIONS /\ draft.slippage \in SLIPPAGE_BPS
                    /\ draft.mode \in FEE_MODES
                    /\ draft.mode = "creator" => recipientStaticCheck(draft.recipient)
                    /\ draft.opening \in 0..MaxOpening
\* A wallet, or a contract the creator has confirmed; never the token of another launch.
Recipient(draft, k) == draft.mode = "creator" => /\ k # "par-launch-token" /\ (k = "contract" => draft.ack)
\* Without an answer to readLaunch the token of a launch passes for any other contract.
Classified(fails) == IF kind = "par-launch-token" /\ fails THEN "contract" ELSE kind
\* External: what the digest of expectedEconomics covers.  Markets that follow the spot price move it.
Economics(p) == [f \in (Reviewed \ {"launchFee"}) \cup {"supply", "curated", "spot"} |->
                   IF f = "spot" /\ p["curated"] THEN None ELSE p[f]]
Simulates(p, draft, digest, value) ==
  /\ p["launchConfig"] = Healthy["launchConfig"] /\ p["canLaunch"] = Healthy["canLaunch"]
  /\ draft.tax <= p["maxCreatorTaxBps"] /\ value >= p["launchFee"] + draft.opening
  /\ digest = None \/ digest = Economics(p)

\* The opening buy, split over the markets that can be reached: the first leg takes the dust.
Legs(draft) == LET each == draft.opening \div Reached
               IN [k \in 1..Reached |-> IF k = 1 THEN each + draft.opening - each * Reached ELSE each]
MinTokens(out, draft) == (out * (10000 - draft.slippage)) \div 10000
\* What the pools give, by the spot price.
TokensOut(p, draft) == (draft.opening * 100) \div p["spot"]

\* --------------------------------------------------------------------------------------- prepare, one read a step
ReadParState(draft) ==
  /\ prepared.pc = "idle" /\ outcome = Nothing
  /\ normalize(draft)
  /\ \E failed \in Failing : \E read \in Answers(failed) :
       /\ Counts(failed)
       /\ prepared' = IF Checked(read, draft) THEN [pc |-> "recipient", draft |-> draft, read |-> read] ELSE prepared
       /\ outcome' = IF Checked(read, draft) THEN Nothing ELSE Ends("refused")
  /\ UNCHANGED <<par, before, kind, since, changes>>
ReadRecipient ==
  /\ prepared.pc = "recipient"
  /\ \E failed \in IF faults < MaxFaults THEN BOOLEAN ELSE {FALSE} :
       LET ok == Recipient(prepared.draft, Classified(failed))
       IN /\ faults' = IF failed THEN faults + 1 ELSE faults
          /\ prepared' = IF ok THEN [prepared EXCEPT !.pc = "preview"] ELSE Idle
          /\ outcome' = IF ok THEN Nothing ELSE Ends("refused")
  /\ UNCHANGED <<par, before, kind, since, changes>>
\* Only owner-set economics are committed; an economy of the spot price is waived, and so is one that was not read.
Commits(read, digest) == IF read["curated"] = TRUE /\ digest # None THEN digest ELSE None
\* The digest and the simulation are calls of their own: each sees the block it is answered from.
Prepare ==
  /\ prepared.pc = "preview"
  /\ \E digest \in {None, Economics(before), Economics(par)}, p \in {before, par} :
       LET draft == prepared.draft
           value == prepared.read["launchFee"] + draft.opening
           commitment == Commits(prepared.read, digest)
           ok == /\ Simulates(p, draft, commitment, value)
                 /\ draft.opening > 0 => \A k \in 1..Reached : Legs(draft)[k] > 0
       IN /\ prepared' = IF ok THEN [pc |-> "review", draft |-> draft, read |-> prepared.read, value |-> value,
                                     commitment |-> commitment, min |-> MinTokens(TokensOut(p, draft), draft)]
                               ELSE Idle
          /\ outcome' = IF ok THEN Nothing ELSE Ends("refused")
          /\ since' = IF ok THEN {before, par} ELSE {}
  /\ UNCHANGED <<par, before, kind, changes, faults>>

\* ----------------------------------------------------------------------------------------------- presendCheck
\* Mutation of Unchanged: the protocol's share is not compared.
X_ButTheShare(now) == /\ \A f \in Reviewed \ {"protocolFeeShareBps"} : now[f] = prepared.read[f]
                      /\ now["launchConfig"] = Healthy["launchConfig"]
                      /\ now["canLaunch"] \in {None, Healthy["canLaunch"]}
                      /\ prepared.draft.opening > 0 => now["launchForwarder"] = Healthy["launchForwarder"]
Unchanged(now) == /\ \A f \in Reviewed : now[f] = prepared.read[f]
                  /\ now["launchConfig"] = Healthy["launchConfig"]
                  /\ now["canLaunch"] \in {None, Healthy["canLaunch"]}
                  /\ prepared.draft.opening > 0 => now["launchForwarder"] = Healthy["launchForwarder"]
Reread == /\ prepared.pc = "review"
          /\ \E failed \in Failing : \E now \in Answers(failed) :
               /\ Counts(failed)
               /\ prepared' = IF Unchanged(now) THEN [prepared EXCEPT !.pc = "resimulate"] ELSE prepared
               /\ outcome' = IF Unchanged(now) THEN Nothing ELSE Ends("refused")
          /\ outcome = Nothing
          /\ UNCHANGED <<par, before, kind, since, changes>>
Resimulate == /\ prepared.pc = "resimulate"
              /\ \E p \in {before, par} :
                   LET ok == /\ Simulates(p, prepared.draft, prepared.commitment, prepared.value)
                             /\ TokensOut(p, prepared.draft) >= prepared.min
                   IN /\ prepared' = IF ok THEN [prepared EXCEPT !.pc = "sent"] ELSE Idle
                      /\ outcome' = IF ok THEN Nothing ELSE Ends("refused")
              /\ UNCHANGED <<par, before, kind, since, changes, faults>>
\* External: the transaction is included in the newest block, where it may revert.
Included == /\ prepared.pc = "sent" /\ outcome = Nothing
            /\ outcome' = IF /\ Simulates(par, prepared.draft, prepared.commitment, prepared.value)
                             /\ TokensOut(par, prepared.draft) >= prepared.min THEN Ends("deployed") ELSE Ends("reverted")
            /\ UNCHANGED <<par, before, kind, prepared, since, changes, faults>>

Next == \/ Govern \/ Settle \/ \E draft \in Drafts : ReadParState(draft)
        \/ ReadRecipient \/ Prepare \/ Reread \/ Resimulate \/ Included
PreflightSpec == Init /\ [][Next]_vars

\* ------------------------------------------------------------------------------------------------ properties
TypeOK == /\ \A p \in {par, before} \cup since : \A f \in Fields : p[f] \in Values[f]
          /\ kind \in KINDS /\ changes \in 0..MaxChanges /\ faults \in 0..MaxFaults
          /\ outcome.is \in {"none", "refused", "deployed", "reverted"}
          /\ prepared.pc \in {"idle", "recipient", "preview", "review", "resimulate", "sent"}
Sent == prepared.pc = "sent"
\* launch-engine-v2.js:192, presendCheck "re-read everything that could have changed": a launch is only sent when each
\* fee the creator reviewed was in force in some block after the review was prepared, whatever was changed in between
\* and from whichever block each read was answered; and the value is the fee and every leg of the opening buy.
SentAsReviewed ==
  Sent => /\ \A f \in Reviewed : \E p \in since : p[f] = prepared.read[f]
          /\ prepared.value = prepared.read["launchFee"] + FoldLeft(LAMBDA sum, leg : sum + leg, 0, Legs(prepared.draft))
\* launch-engine-v2.js:117-121: a digest that moves with every trade is not committed, and the minimum leaves room for
\* the slippage.  So a launch that was sent only reverts when the owner of PAR changed something, or when the price
\* moved by more than the slippage the creator allowed.
RevertsForAReason ==
  outcome.is = "reverted" =>
    \/ \E p \in since : \E f \in Fields \ {"spot"} : p[f] # prepared.read[f]
    \/ \E p \in since : TokensOut(par, prepared.draft) * 10000 < TokensOut(p, prepared.draft) * (10000 - prepared.draft.slippage)
====
