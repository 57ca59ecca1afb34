---- MODULE HomeEditor ----
\* The activation payment in the browser: the editor's tabs, what they keep in localStorage, the wallet and the server.
\* Code: home-editor.js (quote, pay, verifyLoop, resume, recover, boot); the server's side as project-home.js answers it.
EXTENDS Integers, FiniteSets

CONSTANTS Tabs, Quotes, Transfers, None,
          Ambiguous           \* a wallet may answer with an error after it has sent the transfer

VARIABLES quote,    \* server: "new", "open", "expired" (still OPEN, its lock has passed), "consumed"
          ent,      \* server: the transfer that activated the project
          observed, \* server: quote -> the transfer seen for it
          transfer, \* the wallet and the chain: its quote, and "none", "prompt", "rejected", "sent", "mined", "safe", "late", "failed"
          PAY,      \* localStorage, one for all tabs: the quote, and the transfer's hash or None while "sending"
          tab       \* locals of a tab
vars == <<quote, ent, observed, transfer, PAY, tab>>
server == <<quote, ent, observed>>

\* st: refreshStatus; shows: the quote area; loops: verifyLoops with a request on its way, polling: the one that goes on.
Open(st) == [pc |-> "open", st |-> st, shows |-> "none", busy |-> FALSE, prompt |-> None, polling |-> None, loops |-> {}]
Closed == [Open([open |-> None, ent |-> FALSE, seen |-> None]) EXCEPT !.pc = "closed"]
Init == /\ quote = [q \in Quotes |-> "new"] /\ ent = None /\ observed = [q \in Quotes |-> None]
        /\ transfer = [k \in Transfers |-> [quote |-> None, state |-> "none"]]
        /\ PAY = None /\ tab = [t \in Tabs |-> Closed]

\* -------------------------------------------------------------------------- the server
Opened == {q \in Quotes : quote[q] = "open"}
OpenIntent == IF Opened = {} THEN None ELSE CHOOSE q \in Opened : TRUE
Status == [open |-> OpenIntent, ent |-> ent # None,
           seen |-> IF OpenIntent = None THEN None ELSE observed[OpenIntent]]
Pending(q) == observed[q] # None /\ quote[q] \in {"open", "expired"}
\* verifyPayment of quote q by transaction k.
Verdict(q, k) ==
  CASE ent = k /\ transfer[k].quote = q -> "ok"
    [] quote[q] = "consumed" -> "refused"
    [] transfer[k].state = "sent" -> "pending"
    [] transfer[k].state = "mined" /\ transfer[k].quote = q -> "seen"
    [] transfer[k].state = "safe" /\ transfer[k].quote = q /\ ent = None -> "ok"
    [] OTHER -> "refused"
Verifies(q, k) ==
  /\ observed' = IF Verdict(q, k) = "seen" THEN [observed EXCEPT ![q] = k] ELSE observed
  /\ IF Verdict(q, k) = "ok" THEN ent' = k /\ quote' = [quote EXCEPT ![q] = "consumed"] ELSE UNCHANGED <<ent, quote>>

\* -------------------------------------------------------------------------- the page
\* Mutation of Sending: only a transfer whose hash is known counts.
X_Known(pay) == FALSE
\* walletRequestOpen: a request was handed to the wallet and its outcome is not known.
Sending(pay) == pay # None /\ pay.tx = None
Sent(pay) == pay # None /\ pay.tx # None
\* renderQuoteArea.
Area(u, pay) ==
  LET q == u.st.open
  IN  IF q # None /\ quote[q] = "open" /\ ~(Sent(pay) /\ pay.quote = q) THEN [u EXCEPT !.shows = q]
      ELSE IF u.polling # None THEN u
      ELSE [u EXCEPT !.shows = IF Sending(pay) THEN "clear" ELSE "ask"]
\* verifyLoop: the loop before it ends at its next turn, but an answer on its way is still handled.
Loop(u, q, k, own) ==
  LET l == [quote |-> q, tx |-> k, own |-> own, answer |-> None]
  IN  [u EXCEPT !.polling = l, !.loops = @ \cup {l}, !.shows = "transaction"]
\* resume, and where there is nothing to resume the quote area.
Resumed(u, pay) ==
  IF u.st.ent THEN u
  ELSE IF Sent(pay) THEN Loop(u, pay.quote, pay.tx, FALSE)
  ELSE IF u.st.seen # None THEN Loop(u, u.st.open, u.st.seen, FALSE)
  ELSE Area(u, pay)
Sets(t, u) == tab' = [tab EXCEPT ![t] = u]
Ready(t, what) == tab[t].pc = "open" /\ ~tab[t].busy /\ tab[t].shows = what

\* boot, of a tab opened or loaded again: what it waited for is gone, but not from the wallet.
Boot(t) == /\ PAY' = IF Status.ent THEN None ELSE PAY
           /\ Sets(t, Resumed(Open(Status), PAY'))
           /\ UNCHANGED <<server, transfer>>
\* getQuote; a payment already seen is resumed instead.
GetQuote(t) ==
  LET u == tab[t]
      Shows(q) == Sets(t, [u EXCEPT !.st.open = q, !.shows = q])
  IN  /\ Ready(t, "ask") /\ UNCHANGED <<ent, observed, transfer>>
      /\ IF Sending(PAY) THEN Sets(t, Area(u, PAY)) /\ UNCHANGED <<quote, PAY>>
         ELSE IF ent # None THEN UNCHANGED <<quote, PAY, tab>>
         ELSE IF \E q \in Quotes : Pending(q)
              THEN Sets(t, Resumed([u EXCEPT !.st = Status], PAY)) /\ UNCHANGED <<quote, PAY>>
         ELSE IF Opened # {} THEN Shows(OpenIntent) /\ UNCHANGED <<quote, PAY>>
         ELSE \E q \in Quotes : /\ quote[q] = "new" /\ quote' = [quote EXCEPT ![q] = "open"]
                                /\ Shows(q) /\ UNCHANGED PAY
\* The countdown of the quote it shows ends.
Elapse(t, q) == /\ tab[t].shows = q /\ quote[q] = "expired"
                /\ Sets(t, Area([tab[t] EXCEPT !.st.open = None], PAY))
                /\ UNCHANGED <<server, transfer, PAY>>
\* pay: unless a transfer is on its way or may be, the wallet is asked for one.
Pay(t, q, k) ==
  /\ Ready(t, q) /\ transfer[k].state = "none" /\ quote[q] # "expired"
  /\ UNCHANGED server
  /\ IF Sent(PAY) \/ Sending(PAY)
     THEN Sets(t, IF Sent(PAY) THEN Resumed(tab[t], PAY) ELSE Area(tab[t], PAY)) /\ UNCHANGED <<transfer, PAY>>
     ELSE /\ PAY' = [quote |-> q, tx |-> None]
          /\ transfer' = [transfer EXCEPT ![k] = [quote |-> q, state |-> "prompt"]]
          /\ Sets(t, [tab[t] EXCEPT !.busy = TRUE, !.prompt = k])
\* The wallet answers; the tab that asked learns of it if it is still there.
Asked(t, k) == tab[t].prompt = k
Approve(k) ==
  /\ transfer[k].state = "prompt" /\ transfer' = [transfer EXCEPT ![k].state = "sent"] /\ UNCHANGED server
  /\ IF \E t \in Tabs : Asked(t, k)
     THEN LET q == transfer[k].quote
          IN  /\ PAY' = [quote |-> q, tx |-> k]
              /\ \E t \in Tabs : Asked(t, k) /\ Sets(t, Loop([tab[t] EXCEPT !.prompt = None], q, k, TRUE))
     ELSE UNCHANGED <<PAY, tab>>
\* An error of the wallet is taken for "nothing was sent", whatever the error is.
Outcomes == IF Ambiguous THEN {"rejected", "sent"} ELSE {"rejected"}
Fail(k) ==
  /\ transfer[k].state = "prompt" /\ UNCHANGED server
  /\ \E state \in Outcomes : transfer' = [transfer EXCEPT ![k].state = state]
  /\ IF \E t \in Tabs : Asked(t, k)
     THEN PAY' = None /\ \E t \in Tabs : Asked(t, k) /\ Sets(t, [tab[t] EXCEPT !.prompt = None, !.busy = FALSE])
     ELSE UNCHANGED <<PAY, tab>>
\* "I rejected it in my wallet": and so it is.
Clear(t) == /\ Ready(t, "clear") /\ Sending(PAY)
            /\ \A k \in Transfers : transfer[k].quote = PAY.quote => transfer[k].state \in {"rejected", "late", "failed"}
            /\ PAY' = None /\ Sets(t, Area(tab[t], None)) /\ UNCHANGED <<server, transfer>>
\* A verifyLoop's request reaches the server; without a definite answer it is sent again while the loop goes on.
Verify(t, l) ==
  LET verdict == Verdict(l.quote, l.tx)
      loops == tab[t].loops \ {l}
      answered == [l EXCEPT !.answer = verdict]
  IN  /\ l \in tab[t].loops /\ l.answer = None /\ Verifies(l.quote, l.tx)
      /\ IF verdict \in {"ok", "refused"}
         THEN Sets(t, [tab[t] EXCEPT !.loops = loops \cup {answered}, !.polling = IF @ = l THEN answered ELSE @])
         ELSE Sets(t, IF tab[t].polling = l THEN tab[t] ELSE [tab[t] EXCEPT !.loops = loops])
      /\ UNCHANGED <<transfer, PAY>>
\* The definite answer arrives: activated, or refused.
Answer(t, l) ==
  /\ l \in tab[t].loops /\ l.answer # None
  /\ LET u == [tab[t] EXCEPT !.loops = @ \ {l}, !.polling = None, !.st = Status, !.busy = @ /\ ~l.own]
     IN  /\ PAY' = None
         /\ Sets(t, IF l.answer = "ok" THEN [u EXCEPT !.shows = "none"] ELSE Area(u, PAY'))
  /\ UNCHANGED <<server, transfer>>
\* A pasted hash is tried with the project's quotes, in the order the server's set has.
Recover(t, q, k) ==
  /\ tab[t].pc = "open" /\ quote[q] # "new" /\ transfer[k].state \notin {"none", "prompt", "rejected"}
  /\ Verdict(q, k) # "refused" /\ Verifies(q, k)
  /\ PAY' = [quote |-> q, tx |-> k]
  /\ Sets(t, Loop(tab[t], q, k, FALSE)) /\ UNCHANGED transfer

\* -------------------------------------------------------------------------- time and the chain
Expire(q) == /\ quote[q] = "open" /\ quote' = [quote EXCEPT ![q] = "expired"]
             /\ UNCHANGED <<ent, observed, transfer, PAY, tab>>
Becomes(k, state) == transfer' = [transfer EXCEPT ![k].state = state] /\ UNCHANGED <<server, PAY, tab>>
Mine(k) == /\ transfer[k].state = "sent"
           /\ Becomes(k, "failed") \/ Becomes(k, IF quote[transfer[k].quote] = "expired" THEN "late" ELSE "mined")
Settle(k) == transfer[k].state = "mined" /\ Becomes(k, "safe")

Page(t) == \/ Boot(t) \/ GetQuote(t) \/ Clear(t)
           \/ \E q \in Quotes : Elapse(t, q) \/ \E k \in Transfers : Pay(t, q, k)
           \/ \E l \in tab[t].loops : Verify(t, l) \/ Answer(t, l)
World == \/ \E q \in Quotes : Expire(q)
         \/ \E k \in Transfers : Approve(k) \/ Fail(k) \/ Mine(k) \/ Settle(k)
Pages == \E t \in Tabs : Page(t)
Recovers == \E t \in Tabs, q \in Quotes, k \in Transfers : Recover(t, q, k)
Next == Pages \/ Recovers \/ World
Spec == Init /\ [][Next]_vars

\* -------------------------------------------------------------------------- properties
\* A transfer that may still pay for something: in the wallet, on its way, or mined in time.
Alive(k) == transfer[k].state \in {"prompt", "sent", "mined", "safe"}
\* The wallet is asked for a transfer only when no earlier one is alive (home-editor.js:395 "a transfer is already on its
\* way (ANY quote): verify it, never send another").  The code keeps it in one tab, whatever expires, reloads or answers
\* late, with a wallet whose errors mean "not sent" and a payment that is recovered when no answer about one is on its
\* way.  TLC refutes it with Ambiguous = TRUE (:407 forgets a transfer that was sent), with Recovers at any time (the loop
\* that was replaced clears what the next payment has remembered, :435) and with two tabs.
NoSecondTransfer == Cardinality({k \in Transfers : Alive(k)}) <= 1

\* docs/PROJECT_HOME.md:496: "The tx hash is remembered in this browser (`syncnet_home_pay_<token>`) so a second transfer
\* for the same quote is never offered."
OneTransferPerQuote == \A q \in Quotes : Cardinality({k \in Transfers : Alive(k) /\ transfer[k].quote = q}) <= 1
====
