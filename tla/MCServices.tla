------------------------------ MODULE MCServices ------------------------------
(***************************************************************************)
(* Six services that do not call each other, each on its own: part says    *)
(* which.  They share the variables v1 .. v13, and the ones that a part    *)
(* does not need stay empty.                                               *)
(***************************************************************************)
EXTENDS Integers, Sequences, FiniteSets, TLC

CONSTANTS None, r1, r2, i1, i2, w1, w2, t1, Tabs, q1
VARIABLES part, v1, v2, v3, v4, v5, v6, v7, v8, v9, v10, v11, v12, v13
all == <<part, v1, v2, v3, v4, v5, v6, v7, v8, v9, v10, v11, v12, v13>>
Requests == {r1, r2}

-----------------------------------------------------------------------------
\* Access: two requests at once, from two addresses, through one operation ("unlock", "signin", "upload"), or one request
\* at a time through all of an operator's ("operator").
Buckets == {"canary-attempt", "ca-fail-ip", "ca-fail-global", "ua-challenge", "ua-verify", "ua-wallet-day", "up-founder",
            "up-ip", "up-wallet-h", "up-wallet-d", "up-public"}
Limits == [b \in Buckets |->
  CASE b = "ca-fail-ip" -> 2 [] b \in {"ca-fail-global", "canary-attempt"} -> 3 [] b = "up-ip" -> 4
    [] b \in {"up-wallet-d", "ua-verify", "ua-wallet-day"} -> 2 [] OTHER -> 1]
Windows == [b \in Buckets |-> CASE b = "canary-attempt" -> 1 [] b \in {"ua-wallet-day", "up-wallet-d"} -> 4 [] OTHER -> 2]
Over == [b \in Buckets |-> IF b \in {"ca-fail-ip", "ca-fail-global", "up-public"} THEN 3 ELSE 1]
A == INSTANCE Access WITH
  Ips <- {i1, i2}, Wallets <- {w1}, Challenges <- {"challenge"}, Sids <- {"sid"}, Images <- {"image", "other"}, Good <- {"image"},
  Limit <- Limits, Window <- Windows, LockTime <- 2, ChallengeTtl <- 1, NonceMargin <- 1, SessionTtl <- 1, FunctionTime <- 1,
  MaxNow <- 2, MaxFaults <- 1, MaxDeploys <- 1, MaxOver <- Over,
  now <- v1, env <- v2, count <- v3, lockedUntil <- v4, burnt <- v5, challenges <- v6, sessions <- v7, req <- v8,
  pinned <- v9, allowed <- v10, tried <- v11, signedIn <- v12, faults <- v13
AccessParts == {"unlock", "signin", "upload", "operator"}
Alone(r) == \A q \in Requests \ {r} : v8[q] = A!Idle
AccessStep ==
  /\ UNCHANGED part
  /\ \/ \E r \in Requests : \/ part = "unlock" /\ (A!UnlockStep(r) \/ A!Breaks(r))
                            \/ part = "signin" /\ A!SignInStep(r)
                            \/ part = "upload" /\ (A!UploadStep(r) \/ (Alone(r) /\ v7 = {} /\ A!SignInStep(r)))
                            \/ part = "operator" /\ Alone(r) /\ (A!UnlockStep(r) \/ A!UploadStep(r))
     \/ part \in {"signin", "upload"} /\ A!Challenge
     \/ part \in {"signin", "operator"} /\ A!Redeploy
     \/ (part # "signin" => v1 < 1) /\ A!Tick

-----------------------------------------------------------------------------
\* Economies: two handlers at once under one curator ("cap"), or one under curators that change ("reign").
E == INSTANCE Economies WITH
  Wallets <- {w1, w2}, Children <- {"child"}, Ids <- 1..3, MaxEvents <- 1, MaxRequests <- 1, MaxSkew <- 1, MaxNow <- 3, MaxReigns <- 3,
  now <- v1, passport <- v2, reigns <- v3, rootKind <- v4, events <- v5, claims <- v6, req <- v7
Unused7 == v8 = <<>> /\ v9 = <<>> /\ v10 = <<>> /\ v11 = <<>> /\ v12 = <<>> /\ v13 = <<>>
Cap == /\ v1 = 3 /\ v3 = 3 /\ v4 \in {"launch", "contract"} /\ v5 = {} /\ v6 = {}
       /\ v2 = IF v4 = "launch" THEN [operator |-> w1, since |-> 3] ELSE E!NoCurator
       /\ v7 = [r \in Requests |-> E!Idle]
EconomyStep == /\ E!Next /\ UNCHANGED <<part, v8, v9, v10, v11, v12, v13>>
               /\ part = "reign" => v7'[r2] = E!Idle

-----------------------------------------------------------------------------
\* The launch feed: requests and time over one list ("cache"), or a list that grows while it is read ("walk").
L == INSTANCE LaunchFeed WITH
  FRESH_MS <- 2, STALE_MS <- 4, FAILURE_BACKOFF_MS <- 1, RESPONSE_BUDGET_MS <- 1, TIMEOUT_MS <- 2, MaxNow <- 9,
  PAGE <- 1, MAX_LAUNCHES <- 4, PAGE_CONCURRENCY <- 2, MaxN <- 6,
  now <- v1, cache <- v2, inflight <- v3, lastFailureAt <- v4, req <- v5, n <- v6, walk <- v7, indexed <- v8
FeedStart == L!WalkInit /\ (part = "walk" <=> v6 > 0)
FeedStep == /\ L!Next /\ UNCHANGED <<part, v9, v10, v11, v12, v13>>
            /\ IF part = "cache" THEN v6' = v6 ELSE v1' = v1 /\ v5'[r2] = L!Idle /\ v2 = None

-----------------------------------------------------------------------------
\* The editor: one tab, two quotes, three transfers, and a manual recovery when nothing runs.
H == INSTANCE HomeEditor WITH Quotes <- {"q1", "q2"}, Transfers <- 1..3, Ambiguous <- FALSE,
                              quote <- v1, ent <- v2, observed <- v3, transfer <- v4, PAY <- v5, tab <- v6
Reloaded == \E t \in Tabs, q \in {"q1", "q2"}, k \in 1..3 : v6[t].loops = {} /\ v4[k].quote = q /\ H!Recover(t, q, k)
EditorStep == (H!Pages \/ H!World \/ Reloaded) /\ UNCHANGED <<part, v7, v8, v9, v10, v11, v12, v13>>

-----------------------------------------------------------------------------
\* The Solana index: three launches and one backfill, or two of each; never --restart and --catch-up together.
S == INSTANCE SolanaIndex WITH
  Modes <- {"fill", "catchup", "restart"}, FromSlot <- 1, LookBack <- 2, PerRun <- 2, Part <- 1, Page <- 2, PageSize <- 1,
  MaxTx <- 3, MaxSlot <- 2, MaxFills <- 2, MaxFails <- 1,
  txs <- v1, members <- v2, checkpoint <- v3, progress <- v4, indexer <- v5, script <- v6, reader <- v7, fills <- v8, fails <- v9
SolanaStep == S!Next /\ (v8' = 2 => Len(v1') <= 2) /\ UNCHANGED <<part, v10, v11, v12, v13>>

-----------------------------------------------------------------------------
\* Launches from two builder tabs: two of this browser ("tabs"), or one and one from elsewhere ("records").
B == INSTANCE Launches WITH
  Tabs <- {r1, r2}, Page <- "page", Prepared <- {i1, i2}, Elsewhere <- {q1}, WebLocks <- TRUE, MaxAttempts <- 2,
  records <- v1, tx <- v2, prompt <- v3, tab <- v4, verify <- v5, lock <- v6, migrated <- v7
LaunchStep == /\ B!Next /\ UNCHANGED <<part, v8, v9, v10, v11, v12, v13>>
              /\ IF part = "tabs" THEN v1'[q1] = None /\ v2'[q1] = "none" ELSE None \in {v1'[i1], v1'[i2]}

-----------------------------------------------------------------------------
Unused10 == v10 = <<>> /\ v11 = <<>> /\ v12 = <<>> /\ v13 = <<>>
Start ==
  \/ part \in AccessParts /\ A!Init
  \/ part = "cap" /\ Cap /\ Unused7
  \/ part = "reign" /\ E!Init /\ v4 = "launch" /\ Unused7
  \/ part \in {"cache", "walk"} /\ FeedStart /\ v9 = <<>> /\ Unused10
  \/ part = "editor" /\ H!Init /\ v7 = <<>> /\ Unused7
  \/ part = "solana" /\ S!Init /\ Unused10
  \/ part \in {"tabs", "records"} /\ B!Init /\ Unused7
Step ==
  \/ part \in {"tabs", "records"} /\ LaunchStep
  \/ part \in AccessParts /\ AccessStep
  \/ part \in {"cap", "reign"} /\ EconomyStep
  \/ part \in {"cache", "walk"} /\ FeedStep
  \/ part = "editor" /\ EditorStep
  \/ part = "solana" /\ SolanaStep
Spec == Start /\ [][Step]_all
Same == Permutations({i1, i2}) \cup Permutations({r1, r2})

\* Locks, limits and one-time challenges hold for requests that run at the same time.
AccessIsBounded == part \in AccessParts => A!FailuresBounded /\ A!ChallengeOnce /\ A!OthersKeepTheirShare
\* A record of an economy stays within its bounds, and an earlier reign's decisions stay inert.
EconomyIsSound == part \in {"cap", "reign"} => E!EventsBounded /\ E!OldReignIsInert
\* A feed is recent, and misses no more than was added while it was read.
FeedIsRecent == part \in {"cache", "walk"} => L!AnswersAreRecent /\ L!MissedIsBounded
\* One transfer at a time may pay for a project.
NoSecondTransfer == part = "editor" => H!NoSecondTransfer
\* The Solana index skips no launch, and a visitor's pages agree.
SolanaIsExact == part = "solana" => S!NothingSkipped /\ S!PagesAgree
\* Two tabs never ask for two launches, what went out is on record, and what is on record as deployed exists.
LaunchIsKept == part \in {"tabs", "records"} => B!OneLaunch /\ B!EvidenceKept /\ B!DeployedExists
\* A decision gives way to a later one only, a checkpoint only moves forward, a deployed launch stays one, and a second
\* launch of a ticker is one its user asked for.
OnlyForward == [][/\ part = "reign" /\ v2' = v2 => E!LaterOnly
                  /\ part = "solana" => S!Forward
                  /\ part \in {"tabs", "records"} => B!Deployed
                  /\ part = "tabs" => B!Acknowledged]_all
=============================================================================
