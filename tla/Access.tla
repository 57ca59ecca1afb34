---- MODULE Access ----
\* Who may launch and upload: the operator's unlock, the wallet sign-in and the image upload, over one durable store of
\* counters.  Code: canary-auth.js, upload-auth.js, upload-session.js, ipfs-upload.js, ratelimit.js, flags.js.
\* A step is what a handler does up to its next await.  Tokens and challenges carry a MAC: only issued ones exist.
EXTENDS Integers, Sequences, FiniteSets, TLC

CONSTANTS Requests, Ips, Wallets, Challenges, Sids, None,
          Images, Good,    \* the images sent; those the sanitizer accepts
          Limit, Window,   \* by bucket: the limit, and its window in ticks
          LockTime,        \* ticks an address stays locked out
          ChallengeTtl, NonceMargin, SessionTtl,
          FunctionTime,    \* ticks a function may run before its platform ends it
          MaxNow, MaxFaults, MaxDeploys, MaxOver \* bounds

VARIABLES now, env,        \* the clock; the deployment's environment
          count,           \* rl:<bucket>:<id>:<window> and ca:fail:*
          lockedUntil,     \* ca:lock:<ip>
          burnt,           \* ua:nonce:<nonce>: its uses and its expiry
          challenges, sessions,
          req,             \* locals of a running handler
          pinned, allowed, \* images at the pinning service; site:img:v1:<cid>
          tried, signedIn, \* history: wrong keys compared, by address and hour; sessions given for a challenge
          faults
vars == <<now, env, count, lockedUntil, burnt, challenges, sessions, req, pinned, allowed, tried, signedIn, faults>>
store == <<count, lockedUntil, burnt, allowed>>
tokens == <<challenges, sessions>>
seen == <<pinned, tried, signedIn, faults>>

Idle == [pc |-> "idle"]
Init == /\ now = 0 /\ env = [public |-> TRUE, killed |-> FALSE, epoch |-> 0]
        /\ count = [k \in {} |-> 0] /\ lockedUntil = [i \in Ips |-> 0]
        /\ burnt = [c \in Challenges |-> [uses |-> 0, until |-> 0]]
        /\ challenges = [c \in Challenges |-> None] /\ sessions = {}
        /\ req = [r \in Requests |-> Idle] /\ pinned = {} /\ allowed = {}
        /\ tried = [k \in {} |-> 0] /\ signedIn = [c \in Challenges |-> 0] /\ faults = 0

At(r, pc) == req[r].pc = pc
Ends(r) == req' = [req EXCEPT ![r] = Idle]
Goes(r, pc) == req' = [req EXCEPT ![r].pc = pc]
Starts(r, local) == /\ At(r, "idle")
                    /\ req' = [req EXCEPT ![r] = local @@ [env |-> env, t |-> now]]

\* -------------------------------------------------------------------------- counters
Key(bucket, id, t) == <<bucket, id, t \div Window[bucket]>>
Of(f, k) == IF k \in DOMAIN f THEN f[k] ELSE 0
\* No count is followed further than its bucket's MaxOver beyond its limit.
Plus(f, k) == LET n == IF Of(f, k) < Limit[k[1]] + MaxOver[k[1]] THEN Of(f, k) + 1 ELSE Of(f, k)
              IN  [x \in DOMAIN f \cup {k} |-> IF x = k THEN n ELSE f[x]]
Incr(k) == count' = Plus(count, k)
\* limit: the caller is counted, and refused beyond the limit.
Allows(bucket, id, t) == Of(count, Key(bucket, id, t)) < Limit[bucket]

\* -------------------------------------------------------------------------- the operator's unlock
Unlock(r, ip) == /\ Starts(r, [pc |-> "global", ip |-> ip])
                 /\ UNCHANGED <<now, env, store, tokens, seen>>
ReadGlobal(r) == /\ At(r, "global")
                 /\ IF Of(count, Key("ca-fail-global", "all", req[r].t)) >= Limit["ca-fail-global"]
                    THEN Ends(r) ELSE Goes(r, "lock")
                 /\ UNCHANGED <<now, env, store, tokens, seen>>
ReadLock(r) == /\ At(r, "lock")
               /\ IF lockedUntil[req[r].ip] > req[r].t THEN Ends(r) ELSE Goes(r, "attempt")
               /\ UNCHANGED <<now, env, store, tokens, seen>>

Session(scope, subject, e) ==
  [scope |-> scope, subject |-> subject, epoch |-> e.epoch, exp |-> now + SessionTtl]
Right(r) == \E sid \in Sids : /\ \A s \in sessions : s.subject # sid
                              /\ sessions' = sessions \cup {Session("founder", sid, req[r].env)}
Attempt(r) ==
  /\ At(r, "attempt") /\ Incr(Key("canary-attempt", req[r].ip, req[r].t))
  /\ IF ~Allows("canary-attempt", req[r].ip, req[r].t) THEN Ends(r) /\ UNCHANGED <<sessions, tried>>
     ELSE \/ Right(r) /\ Ends(r) /\ UNCHANGED tried
          \/ /\ Goes(r, "ip") /\ UNCHANGED sessions
             /\ tried' = Plus(Plus(tried, Key("ca-fail-ip", req[r].ip, req[r].t)), Key("ca-fail-global", "all", req[r].t))
  /\ UNCHANGED <<now, env, lockedUntil, burnt, allowed, challenges, pinned, signedIn, faults>>

Locks(failures) == failures >= Limit["ca-fail-ip"]
\* recordFailure, in three calls of the store.
CountIp(r) == LET k == Key("ca-fail-ip", req[r].ip, req[r].t)
              IN  /\ At(r, "ip") /\ Incr(k)
                  /\ Goes(r, IF Locks(Of(count, k) + 1) THEN "locks" ELSE "all")
                  /\ UNCHANGED <<now, env, lockedUntil, burnt, allowed, tokens, seen>>
SetLock(r) == /\ At(r, "locks") /\ Goes(r, "all")
              /\ lockedUntil' = [lockedUntil EXCEPT ![req[r].ip] = req[r].t + LockTime]
              /\ UNCHANGED <<now, env, count, burnt, allowed, tokens, seen>>
CountAll(r) == /\ At(r, "all") /\ Ends(r) /\ Incr(Key("ca-fail-global", "all", req[r].t))
               /\ UNCHANGED <<now, env, lockedUntil, burnt, allowed, tokens, seen>>

\* -------------------------------------------------------------------------- the wallet's sign-in
\* GET: a challenge, in the one step after its limit.
GetChallenge(c, wallet, ip) ==
  /\ env.public /\ challenges[c] = None /\ Incr(Key("ua-challenge", ip, now))
  /\ IF Allows("ua-challenge", ip, now)
     THEN challenges' = [challenges EXCEPT ![c] = [wallet |-> wallet, epoch |-> env.epoch, exp |-> now + ChallengeTtl]]
     ELSE UNCHANGED challenges
  /\ UNCHANGED <<now, env, lockedUntil, burnt, allowed, sessions, req, seen>>
SignIn(r, c, wallet, ip) == /\ env.public /\ challenges[c] # None
                            /\ Starts(r, [pc |-> "verify", c |-> c, wallet |-> wallet, ip |-> ip])
                            /\ UNCHANGED <<now, env, store, tokens, seen>>
\* parseChallenge and its caller's address check.
Parses(r) == LET c == challenges[req[r].c]
             IN  c.wallet = req[r].wallet /\ c.epoch = req[r].env.epoch /\ c.exp > now
Verify(r) == /\ At(r, "verify") /\ Incr(Key("ua-verify", req[r].ip, now))
             /\ IF Allows("ua-verify", req[r].ip, now) /\ Parses(r) THEN Goes(r, "signature") ELSE Ends(r)
             /\ UNCHANGED <<now, env, lockedUntil, burnt, allowed, tokens, seen>>
\* ECDSA recovery, or a call of the contract wallet.
CheckSignature(r) == /\ At(r, "signature") /\ (Goes(r, "burn") \/ Ends(r))
                     /\ UNCHANGED <<now, env, store, tokens, seen>>

\* Mutation of BurnTtl: the nonce is kept exactly as long as the challenge.
X_Exact(exp) == exp - now
BurnTtl(exp) == exp - now + NonceMargin
\* INCR, with an expiry when the key is new.  A key whose time is over is new.
Burn(r) == LET c == req[r].c  live == burnt[c].until > now
           IN  /\ At(r, "burn")
               /\ burnt' = [burnt EXCEPT ![c] =
                    IF live THEN [@ EXCEPT !.uses = @ + 1]
                    ELSE [uses |-> 1, until |-> now + (IF BurnTtl(challenges[c].exp) > 1
                                                       THEN BurnTtl(challenges[c].exp) ELSE 1)]]
               /\ IF live THEN Ends(r) ELSE Goes(r, "quota")
               /\ UNCHANGED <<now, env, count, lockedUntil, allowed, tokens, seen>>
Quota(r) == /\ At(r, "quota") /\ Ends(r) /\ Incr(Key("ua-wallet-day", req[r].wallet, now))
            /\ IF Allows("ua-wallet-day", req[r].wallet, now)
               THEN /\ sessions' = sessions \cup {Session("wallet", req[r].wallet, req[r].env)}
                    /\ signedIn' = [signedIn EXCEPT ![req[r].c] = @ + 1]
               ELSE UNCHANGED <<sessions, signedIn>>
            /\ UNCHANGED <<now, env, lockedUntil, burnt, allowed, challenges, pinned, tried, faults>>

\* -------------------------------------------------------------------------- the upload
\* verify: an unexpired session of this epoch, in a scope the deployment takes.
Valid(s) == s.exp > now /\ s.epoch = env.epoch /\ (s.scope = "wallet" => env.public)
Upload(r, s, ip) == /\ ~env.killed /\ Valid(s)
                    /\ Starts(r, [pc |-> "quotas", session |-> s, ip |-> ip, i |-> 1])
                    /\ UNCHANGED <<now, env, store, tokens, seen>>
\* limitAll counts in this order and stops at the first refusal.
Quotas(r) == LET s == req[r].session
             IN  IF s.scope = "founder" THEN <<<<"up-founder", s.subject>>>>
                 ELSE <<<<"up-ip", req[r].ip>>, <<"up-wallet-h", s.subject>>, <<"up-wallet-d", s.subject>>,
                        <<"up-public", "all">>>>
Sanitize(r) == \E image \in Images : IF image \in Good THEN req' = [req EXCEPT ![r] = [@ EXCEPT !.pc = "pin"] @@ [image |-> image]]
                                     ELSE Ends(r)
UploadQuota(r) ==
  LET q == Quotas(r)[req[r].i]
  IN  /\ At(r, "quotas") /\ Incr(Key(q[1], q[2], now))
      /\ IF ~Allows(q[1], q[2], now) THEN Ends(r)
         ELSE IF req[r].i < Len(Quotas(r)) THEN req' = [req EXCEPT ![r].i = @ + 1]
         ELSE Sanitize(r)
      /\ UNCHANGED <<now, env, lockedUntil, burnt, allowed, tokens, seen>>
\* The primary pin may fail; the secondary one changes nothing here.
Pin(r) == /\ At(r, "pin")
          /\ \/ pinned' = pinned \cup {req[r].image} /\ Goes(r, "record")
             \/ Ends(r) /\ UNCHANGED pinned
          /\ UNCHANGED <<now, env, store, tokens, tried, signedIn, faults>>
RecordImage(r) == /\ At(r, "record") /\ Ends(r) /\ allowed' = allowed \cup {req[r].image}
                  /\ UNCHANGED <<now, env, count, lockedUntil, burnt, tokens, seen>>

\* -------------------------------------------------------------------------- the platform
\* A store that fails and an instance that dies both end the request where it is.
Breaks(r) == /\ req[r] # Idle /\ faults < MaxFaults /\ faults' = faults + 1 /\ Ends(r)
             /\ UNCHANGED <<now, env, store, tokens, pinned, tried, signedIn>>
Tick == /\ now < MaxNow /\ now' = now + 1
        /\ \A r \in Requests : req[r] # Idle => now' - req[r].t <= FunctionTime
        /\ UNCHANGED <<env, store, tokens, req, seen>>
\* The operator changes the environment: running requests keep theirs.
Redeploy == /\ env.epoch < MaxDeploys
            /\ \E public, killed \in BOOLEAN : env' = [public |-> public, killed |-> killed, epoch |-> env.epoch + 1]
            /\ UNCHANGED <<now, store, tokens, req, seen>>

UnlockStep(r) == \/ \E ip \in Ips : Unlock(r, ip)
                 \/ ReadGlobal(r) \/ ReadLock(r) \/ Attempt(r) \/ CountIp(r) \/ SetLock(r) \/ CountAll(r)
SignInStep(r) == \/ \E c \in Challenges, w \in Wallets, ip \in Ips : SignIn(r, c, w, ip)
                 \/ Verify(r) \/ CheckSignature(r) \/ Burn(r) \/ Quota(r)
UploadStep(r) == \/ \E s \in sessions, ip \in Ips : Upload(r, s, ip)
                 \/ UploadQuota(r) \/ Pin(r) \/ RecordImage(r)
Challenge == \E c \in Challenges, w \in Wallets, ip \in Ips : GetChallenge(c, w, ip)
Platform == Tick \/ Redeploy \/ \E r \in Requests : Breaks(r)
Next == \/ \E r \in Requests : UnlockStep(r) \/ SignInStep(r) \/ UploadStep(r)
        \/ Challenge \/ Platform
Spec == Init /\ [][Next]_vars

\* -------------------------------------------------------------------------- properties
\* Every session is one that was given, and every counter counts.
TypeOK == /\ now \in 0..MaxNow /\ faults \in 0..MaxFaults /\ \A k \in DOMAIN count : count[k] > 0
          /\ pinned \subseteq Good /\ allowed \subseteq pinned
          /\ \A s \in sessions : s.exp <= now + SessionTtl

\* The lockouts are read before a failure is counted, and counted in three calls that may fail between them
\* (canary-auth.js:95).  Beyond the limits, of one address and of all, go only the requests that were already past the
\* reads, and one for each request that broke off.
FailuresBounded == \A k \in DOMAIN tried : tried[k] <= Limit[k[1]] + Cardinality(Requests) - 1 + faults

\* A challenge gives at most one session, although it is stateless, is checked an await before its nonce is burnt, and
\* the nonce is forgotten some time after (upload-auth.js:94).
ChallengeOnce == \A c \in Challenges : signedIn[c] <= 1

\* The hour's budget of all public uploads is spent only by uploads within their wallet's own: refused ones do not
\* count, but those that straddle the hour do (ipfs-upload.js:119, limitAll).
OthersKeepTheirShare ==
  \A k \in DOMAIN count : k[1] = "up-public" =>
    count[k] <= Limit["up-wallet-h"] * Cardinality(Wallets) + Cardinality(Requests)
====
