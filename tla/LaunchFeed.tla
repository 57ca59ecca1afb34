---- MODULE LaunchFeed ----
\* The lists of PAR's that are kept in an instance's memory and refreshed by the requests that find them old.
\* Code: par-tokenlist.js, whose scheme par-launches-all.js shares (the cache); par-launches-all.js (the walk).
\* Only _resetCache, for tests, changes "generation", so it is left out.
EXTENDS Integers, FiniteSets

CONSTANTS Requests, None,
          FRESH_MS, STALE_MS, FAILURE_BACKOFF_MS,
          RESPONSE_BUDGET_MS, \* longest a request waits; above TIMEOUT_MS where it waits for the refresh itself
          TIMEOUT_MS,         \* longest a refresh takes
          MaxNow              \* bound

VARIABLES now,
          cache,         \* fetchedAt, and begun: when the refresh it came from started
          inflight,      \* the shared refresh
          lastFailureAt,
          req            \* a request: idle, waiting since, or what it was answered: data begun at, or 503
feed == <<now, cache, inflight, lastFailureAt, req>>

Idle == [pc |-> "idle"]
Answered(c) == [pc |-> "answered", at |-> now, begun |-> IF c = None THEN None ELSE c.begun]
Init == /\ now = 1 /\ cache = None /\ inflight = None /\ lastFailureAt = None
        /\ req = [r \in Requests |-> Idle]

Age(c) == now - c.fetchedAt
\* What a request that got no refresh is answered.
Old == IF cache # None /\ Age(cache) < STALE_MS THEN cache ELSE None
Fresh == cache # None /\ Age(cache) < FRESH_MS
BackingOff == inflight = None /\ lastFailureAt # None /\ now - lastFailureAt < FAILURE_BACKOFF_MS
Waiting == {r \in Requests : req[r].pc = "waiting"}
AnswerAll(c) == req' = [r \in Requests |-> IF r \in Waiting THEN Answered(c) ELSE req[r]]

\* The handler after its rate limit, up to the wait.  A request may be repeated.
Ask(r) ==
  /\ r \notin Waiting
  /\ req' = [req EXCEPT ![r] = IF Fresh THEN Answered(cache)
                               ELSE IF BackingOff THEN Answered(Old) ELSE [pc |-> "waiting", at |-> now]]
  /\ inflight' = IF Fresh \/ BackingOff \/ inflight # None THEN inflight ELSE [begun |-> now]
  /\ UNCHANGED <<now, cache, lastFailureAt>>
\* waitAtMost: the refresh goes on.
GiveUp(r) == /\ r \in Waiting /\ now - req[r].at >= RESPONSE_BUDGET_MS
             /\ req' = [req EXCEPT ![r] = Answered(Old)]
             /\ UNCHANGED <<now, cache, inflight, lastFailureAt>>
Succeed == /\ inflight # None
           /\ LET c == [fetchedAt |-> now, begun |-> inflight.begun] IN cache' = c /\ AnswerAll(c)
           /\ inflight' = None /\ lastFailureAt' = None /\ UNCHANGED now
Fail == /\ inflight # None
        /\ inflight' = None /\ lastFailureAt' = now /\ AnswerAll(Old) /\ UNCHANGED <<now, cache>>
\* Timers are on time.
Tick == /\ now < MaxNow /\ now' = now + 1
        /\ inflight # None => now - inflight.begun < TIMEOUT_MS
        /\ \A r \in Waiting : now - req[r].at < RESPONSE_BUDGET_MS
        /\ UNCHANGED <<cache, inflight, lastFailureAt, req>>
\* The instance is recycled.
Restart == /\ cache' = None /\ inflight' = None /\ lastFailureAt' = None
           /\ req' = [r \in Requests |-> Idle] /\ UNCHANGED now

\* -------------------------------------------------------------------------- walk
\* PAR's launches, newest first, walked page by page by a few workers while launches are added at the head.
\* Code: par-launches-all.js (refresh, getJson, handler).  Launch k is the k-th that was created.
CONSTANTS PAGE, MAX_LAUNCHES, PAGE_CONCURRENCY,
          MaxN \* bound on the launches upstream

VARIABLES n,      \* launches upstream
          walk,   \* the refresh: locals of "refresh"
          indexed \* the launches of the cache; since, upTo: upstream when their refresh began and ended
vars == <<feed, n, walk, indexed>>

NoWalk == [pc |-> "none"]
WalkInit == Init /\ n \in 0..MaxN /\ walk = NoWalk /\ indexed = None

\* orderBy=createdAt, desc, limit=PAGE, offset=i*PAGE
Rows(i) == {k \in 1..n : (n - k) \div PAGE = i}
Least(a, b) == IF a < b THEN a ELSE b
Pages(count) == LET target == IF count = None THEN MAX_LAUNCHES ELSE Least(count, MAX_LAUNCHES)
                IN  IF target = 0 THEN 1 ELSE (target + PAGE - 1) \div PAGE
Unread == [pc |-> "unread"]
Asked == [pc |-> "asked"]

\* The first request that finds the list old starts the refresh.
Asks(r) == /\ Ask(r)
           /\ walk' = IF inflight = None /\ inflight' # None THEN [pc |-> "count", since |-> n] ELSE walk
           /\ UNCHANGED <<n, indexed>>
\* The count, read some time since it was asked for, or not at all; then each worker asks for a page.
Count == /\ walk.pc = "count"
         /\ \E count \in {None} \cup walk.since..n :
              LET pages == Pages(count)
                  first == Least(PAGE_CONCURRENCY, pages)
              IN  walk' = [pc |-> "pages", since |-> walk.since, next |-> first, lastPage |-> pages - 1,
                           page |-> [i \in 0..(pages - 1) |-> IF i < first THEN Asked ELSE Unread]]
         /\ UNCHANGED <<feed, n, indexed>>
\* PAR answers from its list as it is now; a retry after 429 or 5xx is a later answer.
Serve(i) == /\ walk.pc = "pages" /\ i \in DOMAIN walk.page /\ walk.page[i] = Asked
            /\ walk' = [walk EXCEPT !.page[i] = [pc |-> "sent", rows |-> Rows(i)]]
            /\ UNCHANGED <<feed, n, indexed>>
\* Mutation of ShortPage: a full page ends the history too.
X_FullPage(rows) == Cardinality(rows) <= PAGE
ShortPage(rows) == Cardinality(rows) < PAGE
\* The answer arrives: the worker keeps the rows and asks for the next page there is.
Arrive(i) ==
  /\ walk.pc = "pages" /\ i \in DOMAIN walk.page /\ walk.page[i].pc = "sent"
  /\ LET rows == walk.page[i].rows
         last == IF ShortPage(rows) /\ i < walk.lastPage THEN i ELSE walk.lastPage
         goes == walk.next <= last
     IN  walk' = [walk EXCEPT !.lastPage = last, !.next = IF goes THEN @ + 1 ELSE @,
                              !.page = [j \in DOMAIN @ |-> IF j = i THEN [pc |-> "read", rows |-> rows]
                                                           ELSE IF goes /\ j = walk.next THEN Asked ELSE @[j]]]
  /\ UNCHANGED <<feed, n, indexed>>
\* Every worker is through.  The rows of the pages up to the last, each launch once.
Done == /\ walk.pc = "pages" /\ \A i \in DOMAIN walk.page : walk.page[i].pc \in {"unread", "read"}
        /\ Succeed /\ walk' = NoWalk /\ UNCHANGED n
        /\ indexed' = [since |-> walk.since, upTo |-> n,
                       launches |-> UNION {walk.page[i].rows : i \in {j \in 0..walk.lastPage : walk.page[j].pc = "read"}}]
\* A page that fails ends the refresh; so does its time.
Break == walk.pc = "pages" /\ Fail /\ walk' = NoWalk /\ UNCHANGED <<n, indexed>>
Launch == n < MaxN /\ n' = n + 1 /\ UNCHANGED <<feed, walk, indexed>>
Others == /\ (Tick \/ \E r \in Requests : GiveUp(r))
          /\ UNCHANGED <<n, walk, indexed>>
Recycle == Restart /\ walk' = NoWalk /\ indexed' = None /\ UNCHANGED n
Next == \/ \E r \in Requests : Asks(r)
        \/ Count \/ Done \/ Break \/ Launch \/ Others \/ Recycle
        \/ \E i \in 0..(MAX_LAUNCHES \div PAGE) : Serve(i) \/ Arrive(i)
Spec == WalkInit /\ [][Next]_vars

\* -------------------------------------------------------------------------- properties
\* No answer carries data read longer ago than the stale limit and one refresh, though the age is counted from the end
\* of the refresh, and a request may wait for a refresh that fails and only then fall back (par-tokenlist.js:236-247).
AnswersAreRecent ==
  \A r \in Requests : req[r].pc = "answered" /\ req[r].begun # None =>
    req[r].at - req[r].begun < STALE_MS + TIMEOUT_MS

\* A refresh misses a launch that was there when it began only if others were added while it ran, and then at most as
\* many for each as there are workers: one may leave the last page, and one each page answered after the next one was
\* (par-launches-all.js:213).
Due == {k \in 1..indexed.since : indexed.since - k < MAX_LAUNCHES}
MissedIsBounded ==
  indexed # None =>
    Cardinality(Due \ indexed.launches) <= PAGE_CONCURRENCY * (indexed.upTo - indexed.since)
====
