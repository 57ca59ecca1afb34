---- MODULE Evidence ----
\* The label a token may carry and the verdict on a launch, from reads of a chain that moves meanwhile.  Code:
\* lib/syncnet-provenance.js (assess), lib/syncnet-chain.js (verifyEvidence, verifyDeployment and their reads).
\* A hash stands for what it hashes: recordHash and salt are the intent they commit to.  A statement is what a wallet
\* signs or, being a contract, approves.  The check compares field by field; terms are the fields of a launch.
EXTENDS Integers, FiniteSets

CONSTANTS None,
          Wallets, Contracts,   \* addresses; the ones with code, which approve by EIP-1271
          Tokens,
          Txs,                  \* [from, to, salt, terms, recipient, token, kind, ok]: launches that may be included
          Inputs,               \* of assess(): [token, proof, origin, operatorProof, profile]
          Expected,             \* of verifyDeployment(): [token, deployer, terms, recipient]
          Attempts, MaxMoves, MaxFaults

VARIABLES mined,     \* transactions of the newest block's chain
          recipient, \* the creator-fee recipient of a token now
          approved,  \* <<contract wallet, statement>>: isValidSignature answers the magic value
          job,       \* locals of the running check
          ever,      \* what was so at some time since the check began
          moves, faults
vars == <<mined, recipient, approved, job, ever, moves, faults>>

Unavailable == [kind |-> "unavailable"]
Launch(t, txs) == {x \in txs : x.ok /\ x.token = t}
\* External: what getLaunchedToken and the token's own getters answer.
Factory(t) == IF Launch(t, mined) = {} THEN None
              ELSE LET x == CHOOSE x \in Launch(t, mined) : TRUE
                   IN [kind |-> x.kind, deployer |-> x.from, recipient |-> recipient[t], terms |-> x.terms]
Roles(t, txs, owner) == {x.from : x \in Launch(t, txs)} \cup (IF Launch(t, txs) = {} THEN {} ELSE {owner[t]})
Now(txs, owner, approvals) ==
  [mined |-> txs, absent |-> {t \in Tokens : Launch(t, txs) = {}}, approved |-> approvals,
   roles |-> UNION {{<<t, w>> : w \in Roles(t, txs, owner)} : t \in Tokens}, recipients |-> {<<t, owner[t]>> : t \in Tokens}]
Also(then, now) == [f \in DOMAIN then |-> then[f] \cup now[f]]

Init == /\ mined \in SUBSET Txs /\ \A t \in Tokens : Cardinality(Launch(t, mined)) <= 1
        /\ recipient = [t \in Tokens |-> IF \E x \in Txs : x.token = t /\ x.ok
                                         THEN (CHOOSE x \in Txs : x.token = t /\ x.ok).recipient ELSE None]
        /\ approved = {}
        /\ job \in {[pc |-> "launch", about |-> i] : i \in Inputs}
                   \cup {[pc |-> "attempt", about |-> e, left |-> Attempts, code |-> FALSE, launch |-> None, readOk |-> FALSE] :
                          e \in Expected}
        /\ ever = Now(mined, recipient, approved) /\ moves = 0 /\ faults = 0

\* ------------------------------------------------------------------------------------ External: the chain moves
Running == job.pc # "done"
Moves == /\ Running /\ moves < MaxMoves /\ moves' = moves + 1
         /\ ever' = Also(ever, Now(mined', recipient', approved')) /\ UNCHANGED <<job, faults>>
Include(x) == /\ x \notin mined /\ (x.ok => Launch(x.token, mined) = {}) /\ mined' = mined \cup {x}
              /\ UNCHANGED <<recipient, approved>> /\ Moves
Drop(x) == /\ x \in mined /\ mined' = mined \ {x} /\ UNCHANGED <<recipient, approved>> /\ Moves
Transfer(t, w) == /\ Launch(t, mined) # {} /\ w # recipient[t] /\ recipient' = [recipient EXCEPT ![t] = w]
                  /\ UNCHANGED <<mined, approved>> /\ Moves
\* A contract wallet approves what the check is about to ask it, or takes that back.
Asked == IF "proof" \notin DOMAIN job.about THEN {}
         ELSE {<<p.deployer, p.sig.says>> : p \in {job.about.proof} \ {None}}
              \cup {<<c.operator, c.says>> : c \in {job.about.operatorProof} \ {None}}
Approve(a) == /\ a[1] \in Contracts
              /\ approved' = IF a \in approved THEN approved \ {a} ELSE approved \cup {a}
              /\ UNCHANGED <<mined, recipient>> /\ Moves

\* A call of the RPC: an answer or, after the retry of makeRpc, an exception.
Call(failed) == /\ failed => faults < MaxFaults
                /\ faults' = IF failed THEN faults + 1 ELSE faults
Reads == UNCHANGED <<mined, recipient, approved, ever, moves>>
Goes(pc) == job' = [job EXCEPT !.pc = pc]
Ends(result) == job' = [pc |-> "done", about |-> job.about, result |-> result]

\* ----------------------------------------------------------------------------------------------- verifyEvidence
\* Core.sameTypedIntent, or the text of personal_sign: exactly this launch.
SignedText(p) == /\ p.sig.scheme \in {"EIP-712", "personal_sign"}
                 /\ p.sig.says = [operator |-> p.deployer, token |-> p.token, recordHash |-> p.recordHash, salt |-> p.salt]
\* What is checked before the chain is read.
Committed(p) == /\ p.recordHash = p.intent /\ p.salt = p.recordHash
                /\ p.intent.operator = p.deployer /\ SignedText(p)
\* The signature recovers to the address, or its contract wallet approves the digest now.
SignatureBy(wallet, sig, failed) == \/ sig.by = wallet
                                    \/ ~failed /\ wallet \in Contracts /\ <<wallet, sig.says>> \in approved
\* The launch transaction carried this salt and these terms, and launched this token.
Carried(p, x) == /\ x.from = p.deployer /\ x.to \in {"factory", "router"} /\ x.ok
                 /\ x.salt = p.salt /\ x.terms = p.intent.terms /\ x.recipient = p.intent.recipient
                 /\ x.token = p.token /\ x.kind = "multi"
\* The recipient may have been transferred since: it is not compared.
RecordedAs(p, launch) == launch # None /\ launch.kind = "multi" /\ launch.deployer = p.deployer
                         /\ launch.terms.tax = p.intent.terms.tax
ReadSignature == /\ job.pc = "signature" /\ Reads
                 /\ \E failed \in BOOLEAN : /\ Call(failed)
                                            /\ LET p == job.about.proof
                                               IN job' = [job EXCEPT !.pc = "tx", !.ok = Committed(p) /\ SignatureBy(p.deployer, p.sig, failed)]
\* A transaction that is not found ends the check.
ReadTx == /\ job.pc = "tx" /\ Reads
          /\ \E failed \in BOOLEAN :
               /\ Call(failed)
               /\ LET p == job.about.proof
                  IN IF failed \/ p.tx \notin mined THEN Ends("unverified")
                     ELSE job' = [job EXCEPT !.pc = "record", !.ok = job.ok /\ Carried(p, p.tx)]
ReadRecord == /\ job.pc = "record" /\ Reads
              /\ \E failed \in BOOLEAN :
                   /\ Call(failed)
                   /\ LET launch == Factory(job.about.token)
                      IN IF failed THEN Ends("unverified")
                         ELSE job' = [job EXCEPT !.pc = IF launch = None THEN "verdict" ELSE "token",
                                                 !.ok = job.ok /\ RecordedAs(job.about.proof, launch)]
\* readMarkets and readTokenMetadata: what cannot be read does not match.
SameToken(terms, failed) == ~failed /\ LET now == Factory(job.about.token) IN now # None /\ now.terms = terms
ReadToken == /\ job.pc = "token" /\ Reads
             /\ \E failed \in BOOLEAN :
                  Call(failed) /\ job' = [job EXCEPT !.pc = "verdict", !.ok = job.ok /\ SameToken(job.about.proof.intent.terms, failed)]
Verdict == /\ job.pc = "verdict" /\ Reads /\ UNCHANGED faults
           /\ Ends(IF job.ok THEN "built" ELSE "unverified")

\* ------------------------------------------------------------------------------------------------------- assess
\* The token's record is read first, by assess or by the page that calls it (v2-token.js, v2-registry.js) and passes what
\* it has read; not being readable is told from not being there.
ReadLaunch == /\ job.pc = "launch" /\ Reads
              /\ \E failed \in BOOLEAN :
                   Call(failed) /\ job' = [pc |-> "assess", about |-> job.about, launch |-> IF failed THEN Unavailable ELSE Factory(job.about.token), ok |-> FALSE]
\* The operator is the deployer or the fee recipient of the record read before the signature is.
Role(c, launch) == launch # None /\ c.operator \in {launch.deployer, launch.recipient}
Assess == /\ job.pc = "assess" /\ Reads /\ UNCHANGED faults
          /\ LET in == job.about
             IN \/ in.proof # None /\ IF in.proof.token # in.token THEN Ends("unverified") ELSE Goes("signature")
                \/ in.proof = None /\ in.origin /\ Ends("origin")
                \/ /\ in.proof = None /\ ~in.origin /\ in.operatorProof # None
                   /\ IF job.launch # Unavailable /\ in.operatorProof.token = in.token /\ Role(in.operatorProof, job.launch)
                      THEN Goes("operator") ELSE Ends("unverified")
                \/ /\ in.proof = None /\ ~in.origin /\ in.operatorProof = None
                   /\ Ends(IF in.profile THEN "profile" ELSE IF job.launch \in {None, Unavailable} THEN None ELSE "indexed")
ReadOperator == /\ job.pc = "operator" /\ Reads
                /\ \E failed \in BOOLEAN :
                     /\ Call(failed)
                     /\ Ends(IF SignatureBy(job.about.operatorProof.operator, job.about.operatorProof, failed) THEN "operator" ELSE "unverified")

\* --------------------------------------------------------------------------------------------- verifyDeployment
\* Each attempt reads the code, then the record; what an attempt read is kept when a later one fails.
ReadCode == /\ job.pc = "attempt" /\ job.left > 0 /\ Reads
            /\ \E failed \in BOOLEAN :
                 /\ Call(failed)
                 /\ job' = IF failed THEN [job EXCEPT !.left = @ - 1]
                           ELSE [job EXCEPT !.pc = "recorded", !.code = Factory(job.about.token) # None]
Read(failed) == ~failed
ReadFactory ==
  /\ job.pc = "recorded" /\ Reads
  /\ \E failed \in BOOLEAN :
       /\ Call(failed)
       /\ LET launch == IF failed THEN job.launch ELSE Factory(job.about.token)
          IN job' = [job EXCEPT !.launch = launch, !.readOk = @ \/ Read(failed),
                                !.pc = IF ~failed /\ launch # None /\ job.code THEN "details" ELSE "attempt", !.left = @ - 1]
Conclude == /\ job.pc = "attempt" /\ job.left = 0 /\ Reads /\ UNCHANGED faults
            /\ IF job.launch # None THEN Goes("details") ELSE Ends(IF job.readOk THEN "not-found" ELSE "unavailable")
\* Every hard check; a detail that is not readable does not match.
Deployed(e, failed) == /\ job.launch.kind = "multi" /\ job.launch.deployer = e.deployer /\ job.launch.recipient = e.recipient
                       /\ job.launch.terms.tax = e.terms.tax /\ job.code
                       /\ ~failed /\ LET now == Factory(e.token) IN now # None /\ now.terms = e.terms
ReadDetails == /\ job.pc = "details" /\ Reads
               /\ \E failed \in BOOLEAN : Call(failed) /\ Ends(IF Deployed(job.about, failed) THEN "verified" ELSE "mismatch")

Next == \/ \E x \in Txs : Include(x) \/ Drop(x)
        \/ \E t \in Tokens, w \in Wallets : Transfer(t, w)
        \/ \E a \in Asked : Approve(a)
        \/ ReadLaunch \/ Assess \/ ReadSignature \/ ReadTx \/ ReadRecord \/ ReadToken \/ Verdict \/ ReadOperator
        \/ ReadCode \/ ReadFactory \/ Conclude \/ ReadDetails
EvidenceSpec == Init /\ [][Next]_vars

\* --------------------------------------------------------------------------------------------------- properties
TypeOK == /\ mined \subseteq Txs /\ recipient \in [Tokens -> Wallets \cup {None}]
          /\ moves \in 0..MaxMoves /\ faults \in 0..MaxFaults
Result(r) == job.pc = "done" /\ job.result = r
\* What a wallet has signed, or approved while the check ran.
Agreed(wallet, sig) == sig.by = wallet \/ <<wallet, sig.says>> \in ever.approved
\* syncnet-provenance.js BUILT: "the deployer signed the SyncNet launch intent, the launch transaction carried its salt,
\* and that transaction deployed this token".  A proof put together from pieces of different launches of one deployer
\* never earns the label, whatever the chain does between the reads.
BuiltIsOneLaunch ==
  Result("built") =>
    LET p == job.about.proof
        x == p.tx
    IN /\ x \in ever.mined /\ x.ok /\ x.token = job.about.token /\ x.salt = p.intent /\ x.terms = p.intent.terms
       /\ p.sig.says = [operator |-> x.from, token |-> x.token, recordHash |-> p.intent, salt |-> p.intent]
       /\ Agreed(x.from, p.sig)
\* OPERATOR: the operator held the token at some time during the check and signed the claim for it.
OperatorHolds ==
  Result("operator") => /\ <<job.about.token, job.about.operatorProof.operator>> \in ever.roles
                        /\ job.about.operatorProof.token = job.about.token
                        /\ Agreed(job.about.operatorProof.operator, job.about.operatorProof)
\* syncnet-chain.js:360 "'unavailable' = the chain could not be read at all; 'not-found' = read fine, token not recorded
\* (yet)": a launch that was recorded all along is never reported missing because reads failed, and a verified one had
\* every expected field while the check ran.
VerdictIsRead ==
  /\ Result("not-found") => job.about.token \in ever.absent
  /\ Result("verified") => /\ <<job.about.token, job.about.recipient>> \in ever.recipients
                           /\ \E x \in ever.mined : /\ x.ok /\ x.token = job.about.token
                                                    /\ x.from = job.about.deployer /\ x.terms = job.about.terms
====
