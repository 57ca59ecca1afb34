---- MODULE Economies ----
\* Curation of one root's Economy: signed events in an append-only set, folded at read time for whoever is curator now.
\* Code: economies.js, lib/syncnet-economy.js, economy-v2.js (curate, requestCurator).
\* A step is what a handler does up to its next await.  An event stands for its message, its digest and its signature.
EXTENDS Integers, FiniteSets

CONSTANTS Wallets, Children, Requests, None,
          Ids,              \* digests, in their order
          MaxEvents, MaxRequests, MaxSkew,
          MaxNow, MaxReigns \* bounds

VARIABLES now,
          passport,   \* mp:passport:v1:<root>: [operator, since], written by the Marketplace
          reigns,     \* how often it was
          rootKind,   \* the root itself: "launch" or "contract"
          events,     \* eco:cur:v1:<root>
          claims,     \* eco:req:v1:<root>
          req         \* locals of a handler
vars == <<now, passport, reigns, rootKind, events, claims, req>>
world == <<now, passport, reigns, rootKind>>

Idle == [pc |-> "idle"]
NoCurator == [operator |-> None, since |-> 0]
Init == /\ now = 1 /\ passport = NoCurator /\ reigns = 0
        /\ rootKind \in {"launch", "contract"} /\ events = {} /\ claims = {}
        /\ req = [r \in Requests |-> Idle]

\* -------------------------------------------------------------------------- the fold
Newer(a, b) == a.at > b.at \/ (a.at = b.at /\ a.id > b.id)
\* Mutation of Counts: whatever the curator ever signed counts.
X_Ever(e, curator) == curator.operator # None /\ e.by = curator.operator
\* Signed by the current curator, in this curatorship but for the clocks' tolerance.
Counts(e, curator) == /\ curator.operator # None /\ e.by = curator.operator
                      /\ e.at + MaxSkew >= curator.since
\* latestByChild: at most one event.
Latest(members, child, curator) ==
  LET counted == {e \in members : e.child = child /\ Counts(e, curator)}
  IN  {e \in counted : \A f \in counted \ {e} : Newer(e, f)}
Recognized(members, curator) ==
  {c \in Children : \E e \in Latest(members, c, curator) : e.decision = "recognize"}

\* -------------------------------------------------------------------------- wallets and the chain
\* The Marketplace binds or moves the passport of a launch.
Transfer(w) == /\ rootKind = "launch" /\ reigns < MaxReigns /\ w # passport.operator
               /\ passport' = [operator |-> w, since |-> now] /\ reigns' = reigns + 1
               /\ UNCHANGED <<now, rootKind, events, claims, req>>
Tick == now < MaxNow /\ now' = now + 1
        /\ UNCHANGED <<passport, reigns, rootKind, events, claims, req>>

\* -------------------------------------------------------------------------- curate
At(r, pc) == req[r].pc = pc
Ends(r) == req' = [req EXCEPT ![r] = Idle]
To(r, local) == req' = [req EXCEPT ![r] = local]
Goes(r, pc) == req' = [req EXCEPT ![r].pc = pc]
Posted == events \cup {req[r].e : r \in {x \in Requests : "e" \in DOMAIN req[x]}}
\* A decision the curator signs, with a clock within the tolerance, or one it signed before: events are public.
Signable == [child : Children, by : {passport.operator}, decision : {"recognize", "revoke"},
             at : (now - MaxSkew)..(now + MaxSkew), id : Ids \ {e.id : e \in Posted}]
SkewOk(at) == at - now <= MaxSkew /\ now - at <= MaxSkew
\* Up to resolveCurator; what is refused here leaves nothing behind.
Curate(r) == /\ At(r, "idle")
             /\ \E e \in Posted \cup Signable :
                  SkewOk(e.at) /\ Counts(e, passport) /\ To(r, [pc |-> "members", e |-> e, curator |-> passport])
             /\ UNCHANGED <<world, events, claims>>

\* Not a duplicate, not stale; at the cap only a revoke that removes a recognition.
Accepts(members, e, current) ==
  /\ \A f \in current : f.id # e.id /\ ~Newer(f, e)
  /\ Cardinality(members) >= MaxEvents =>
       e.decision = "revoke" /\ \E f \in current : f.decision = "recognize"
ReadMembers(r) == LET e == req[r].e
                  IN  /\ At(r, "members")
                      /\ IF Accepts(events, e, Latest(events, e.child, req[r].curator)) THEN Goes(r, "wallet") ELSE Ends(r)
                      /\ UNCHANGED <<world, events, claims>>
\* walletLimited: the bucket is shared with the wallet's other roots.
ChargeWallet(r) == /\ At(r, "wallet")
                   /\ \/ Goes(r, IF req[r].e.decision = "recognize" THEN "chain" ELSE "add")
                      \/ Ends(r)
                   /\ UNCHANGED <<world, events, claims>>
\* connectionOnChain; a chain that cannot be read refuses too.
ReadConnection(r) == /\ At(r, "chain")
                     /\ Goes(r, "add") \/ Ends(r)
                     /\ UNCHANGED <<world, events, claims>>
AddEvent(r) == /\ At(r, "add") /\ Ends(r) /\ events' = events \cup {req[r].e}
               /\ UNCHANGED <<world, claims>>

\* -------------------------------------------------------------------------- claim-request
ClaimRequest(r, w) == /\ At(r, "idle") /\ passport.operator = None /\ rootKind = "contract"
                      /\ To(r, [pc |-> "claims", claim |-> w])
                      /\ UNCHANGED <<world, events, claims>>
\* A second request of the same wallet differs in its nonce; an exact duplicate is answered without a write.
ReadClaims(r) == /\ At(r, "claims")
                 /\ IF Cardinality(claims) >= MaxRequests THEN Ends(r) ELSE Goes(r, "claimant")
                 /\ UNCHANGED <<world, events, claims>>
ChargeClaimant(r) == /\ At(r, "claimant") /\ (Goes(r, "file") \/ Ends(r))
                     /\ UNCHANGED <<world, events, claims>>
FileClaim(r) == /\ At(r, "file") /\ Ends(r)
                /\ \E id \in Ids : claims' = claims \cup {[by |-> req[r].claim, id |-> id]}
                /\ UNCHANGED <<world, events>>

Handler(r) == \/ Curate(r) \/ ReadMembers(r) \/ ChargeWallet(r) \/ ReadConnection(r) \/ AddEvent(r)
              \/ \E w \in Wallets : ClaimRequest(r, w)
              \/ ReadClaims(r) \/ ChargeClaimant(r) \/ FileClaim(r)
World == (\E w \in Wallets : Transfer(w)) \/ Tick
Next == World \/ \E r \in Requests : Handler(r)
Spec == Init /\ [][Next]_vars

\* -------------------------------------------------------------------------- properties
TypeOK == /\ now \in 1..MaxNow /\ reigns \in 0..MaxReigns
          /\ passport.operator \in Wallets \cup {None}
          /\ \A c \in Children : Cardinality(Latest(events, c, passport)) <= 1

\* The soft cap is read before it is used (economies.js:217, "check-then-act"), and a revoke may pass it.  There are
\* never more recognitions than the cap and the requests in flight allow, nor more events past that than there were
\* recognitions to remove, once for each request in flight.  Claims are capped the same way.
Many == Cardinality(Requests)
Decided(d) == {e \in events : e.decision = d}
EventsBounded ==
  /\ Cardinality(Decided("recognize")) <= MaxEvents + Many - 1
  /\ Cardinality(events) <= MaxEvents + Many - 1 + Many * Cardinality(Decided("recognize"))
  /\ Cardinality(claims) <= MaxRequests + Many - 1

\* When a passport comes back to an earlier operator, what that operator recognized before does not come back with it:
\* a child is recognized only by a decision of this curatorship, but for the clocks' tolerance (syncnet-economy.js:145).
OldReignIsInert ==
  \A c \in Recognized(events, passport) :
    \E e \in events : e.child = c /\ e.by = passport.operator /\ e.at >= passport.since - MaxSkew

\* While the curator stays, the decision in force for a child is only replaced by one signed later: neither an old event
\* posted again nor two writers that cross can undo it (syncnet-economy.js:11).
LaterOnly ==
  \A c \in Children : \A e \in Latest(events, c, passport) :
    \E f \in events' : f.child = c /\ f.by = e.by /\ f.at >= e.at /\ f \in Latest(events', c, passport)
====
