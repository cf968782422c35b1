-------------------------------- MODULE Daemon --------------------------------
(***************************************************************************)
(* tickerd: the request handlers of server.rs, one asynchronous task per   *)
(* client connection, and the refresh_stale sweep of main.rs, all sharing  *)
(* one SQLite database behind one mutex and one provider configuration.    *)
(*                                                                         *)
(* A step is what a task does between two points where another task can    *)
(* run: one critical section of the database mutex, one read of the        *)
(* configuration, sending a provider request, or its answer arriving.      *)
(* The local state of a task is what its async fn keeps across awaits.     *)
(*                                                                         *)
(* Left out: requests that only read (Ping, Summary, Holdings,             *)
(* Transactions, ProviderStatus), the wording of errors, price history,    *)
(* and the waiting inside the rate limiter (Throttle.tla).  Any write to   *)
(* SQLite may fail; reads are taken to succeed.                            *)
(***************************************************************************)
EXTENDS Integers, Sequences, FiniteSets

CONSTANTS
    Tickers,     \* canonical symbols, the ones validate_ticker accepts
    Names,       \* symbols as clients spell them
    Upper,       \* str::to_uppercase, a function on Names
    Handlers,    \* connection tasks
    Sweeper,     \* the task running refresh_stale
    Requests,    \* the requests clients may send
    Closes,      \* closing prices the provider may answer
    Conditions,  \* of the provider: subset of {"unset", "flaky", "partial", "good"}
    Delisted,    \* the tickers a partial provider has no answer for
    Eps,         \* the tolerance 1e-9, in units of 1e-9 share
    MaxDay,      \* bound: UTC days explored
    MaxLedger,   \* bound: transactions explored
    MayCrash,    \* whether the daemon may die and be started again
    NaN,         \* a share count or price that is not a finite number
    None         \* an absent Option

Tasks == Handlers \cup {Sweeper}

Days == 0 .. MaxDay

Ops == {"History", "Buy", "Sell", "Refresh", "RefreshTicker"}

ASSUME DaemonAssumption ==
    /\ Tickers \subseteq Names
    /\ Upper \in [Names -> Names]
    /\ Sweeper \notin Handlers
    /\ Requests \subseteq [op : Ops, name : Names, shares : Int \cup {NaN},
                           price : Int \cup {NaN, None}, force : BOOLEAN]
    /\ Closes \subseteq Int
    /\ Conditions \subseteq {"unset", "flaky", "partial", "good"}
    /\ Delisted \subseteq Tickers
    /\ Eps \in Nat
    /\ MaxDay \in Nat
    /\ MaxLedger \in Nat
    /\ None \notin Int \cup Names
    /\ None \notin [price : Closes, date : Days]
    /\ NaN \notin Int

VARIABLES
    ledger,    \* table transactions, oldest first
    net,       \* SUM(shares) per ticker, what every read of the ledger amounts to
    cache,     \* table price_cache: [price, date] per ticker, or None
    day,       \* the UTC date
    provider,  \* "unset"; "flaky": fetching or storing may fail; "good": neither does;
               \* "partial": fetching does for the delisted and never for the others
    serving,   \* the accept loop runs (after the startup sweep)
    pc,        \* per task: the await it is parked at
    job,       \* per task: the request being served, ticker uppercased
    todo,      \* per task: tickers of the refresh loop not yet visited
    today,     \* per task: the date its refresh loop compares with
    snap,      \* per task: the price snapshot in hand, or None
    reply      \* per task: the verdict so far

db     == <<ledger, net, cache>>
env    == <<day, provider, serving>>
locals == <<job, todo, today, snap, reply>>
vars   == <<ledger, net, cache, day, provider, serving, pc, job, todo, today, snap, reply>>

-----------------------------------------------------------------------------
(* Validation at the dispatch boundary.                                    *)

validate_ticker(t) == t \in Tickers

validate_shares(s) == s # NaN /\ s > 0

validate_price_override(p) == p # NaN /\ p > 0

Valid(r) ==
    /\ r.op # "Refresh" => validate_ticker(Upper[r.name])
    /\ r.op \in {"Buy", "Sell"} => validate_shares(r.shares)
    /\ r.op = "Buy" /\ r.price # None => validate_price_override(r.price)

\* Share counts and prices that can reach the ledger.
Lots == {r.shares : r \in {q \in Requests : validate_shares(q.shares)}}

Prices ==
    Closes \cup {r.price : r \in {q \in Requests : q.price # None /\ validate_price_override(q.price)}}

-----------------------------------------------------------------------------
NoJob == [op |-> "None", ticker |-> None, shares |-> 0, price |-> None, force |-> FALSE]

SweepJob == [NoJob EXCEPT !.op = "Sweep"]

PcLabels == {"idle", "lookup", "resolve", "held", "loop", "send", "wait", "store",
             "answer", "insert", "sell", "done", "asleep"}

Snaps == [price : Closes, date : Days]

Jobs == [op : Ops \cup {"None", "Sweep"}, ticker : Tickers \cup {None},
         shares : Lots \cup {0}, price : Prices \cup {None}, force : BOOLEAN]

Goto(p, label) == pc' = [pc EXCEPT ![p] = label]

Reply(p, verdict) ==
    /\ Goto(p, "done")
    /\ reply' = [reply EXCEPT ![p] = verdict]

held_tickers == {t \in Tickers : net[t] > Eps}

\* What the oversell check takes to be held.
Held(t) == IF net[t] > Eps THEN net[t] ELSE 0

Current(t, date) == cache[t] # None /\ cache[t].date = date

-----------------------------------------------------------------------------
Init ==
    /\ ledger = <<>>
    /\ net = [t \in Tickers |-> 0]
    /\ cache = [t \in Tickers |-> None]
    /\ day = 0
    /\ provider \in Conditions
    /\ serving = FALSE
    /\ pc = [p \in Tasks |-> IF p = Sweeper THEN "held" ELSE "idle"]
    /\ job = [p \in Tasks |-> IF p = Sweeper THEN SweepJob ELSE NoJob]
    /\ todo = [p \in Tasks |-> {}]
    /\ today = [p \in Tasks |-> 0]
    /\ snap = [p \in Tasks |-> None]
    /\ reply = [p \in Tasks |-> "Ok"]

-----------------------------------------------------------------------------
(* A request line arrives on an idle connection.                           *)

Refuse(p, r) ==
    /\ pc[p] = "idle" /\ serving
    /\ ~Valid(r)
    /\ Reply(p, "Error")
    /\ UNCHANGED <<db, env, job, todo, today, snap>>

\* The first await of the arm of dispatch.
Entry == [History |-> "lookup", Buy |-> "lookup", Sell |-> "sell",
          Refresh |-> "resolve", RefreshTicker |-> "resolve"]

\* Slip for the mutants: the symbol is used as the client spelled it.
AsTyped(r) == r.name

Symbol(r) == Upper[r.name]

Receive(p, r) ==
    /\ pc[p] = "idle" /\ serving
    /\ Valid(r)
    /\ Goto(p, Entry[r.op])
    /\ job' = [job EXCEPT ![p] =
                 [op     |-> r.op,
                  ticker |-> IF r.op = "Refresh" THEN None ELSE Symbol(r),
                  shares |-> IF r.op \in {"Buy", "Sell"} THEN r.shares ELSE 0,
                  price  |-> IF r.op = "Buy" THEN r.price ELSE None,
                  force  |-> r.op = "Refresh" /\ r.force]]
    /\ UNCHANGED <<db, env, todo, today, snap, reply>>

(* The response is written and the handler reads its next line.            *)
Forget(p, idle, label) ==
    /\ Goto(p, label)
    /\ job' = [job EXCEPT ![p] = idle]
    /\ todo' = [todo EXCEPT ![p] = {}]
    /\ today' = [today EXCEPT ![p] = 0]
    /\ snap' = [snap EXCEPT ![p] = None]
    /\ reply' = [reply EXCEPT ![p] = "Ok"]

Deliver(p) ==
    /\ pc[p] = "done"
    /\ Forget(p, NoJob, "idle")
    /\ UNCHANGED <<db, env>>

-----------------------------------------------------------------------------
\* Slip for the mutants: a buy at a given price does not need the cache.
LookupUnlessPriced(p) ==
    /\ pc[p] = "lookup"
    /\ LET row == cache[job[p].ticker]
       IN  IF job[p].price # None
           THEN Goto(p, "insert") /\ UNCHANGED snap
           ELSE IF row = None
           THEN Goto(p, "resolve") /\ UNCHANGED snap
           ELSE /\ Goto(p, IF job[p].op = "Buy" THEN "insert" ELSE "answer")
                /\ snap' = [snap EXCEPT ![p] = row]
    /\ UNCHANGED <<db, env, job, todo, today, reply>>

(* History and Buy: read the cached snapshot under the lock; on a hit, go  *)
(* on without the provider.                                                *)
Lookup(p) ==
    /\ pc[p] = "lookup"
    /\ LET row == cache[job[p].ticker]
       IN  IF row = None
           THEN Goto(p, "resolve") /\ UNCHANGED snap
           ELSE /\ Goto(p, IF job[p].op = "Buy" THEN "insert" ELSE "answer")
                /\ snap' = [snap EXCEPT ![p] = row]
    /\ UNCHANGED <<db, env, job, todo, today, reply>>

\* Slip for the mutants: a source that has worked once is kept.
ResolveOnce(p) ==
    /\ pc[p] = "resolve"
    /\ IF provider # "unset" \/ \E t \in Tickers : cache[t] # None
       THEN /\ Goto(p, CASE job[p].op = "Refresh" -> "held"
                         [] job[p].op = "Sweep"   -> "loop"
                         [] OTHER                 -> "send")
            /\ today' = [today EXCEPT ![p] = IF p = Sweeper THEN day ELSE @]
            /\ UNCHANGED <<serving, job, todo, snap, reply>>
       ELSE IF p = Sweeper
            THEN Forget(p, NoJob, "asleep") /\ serving' = TRUE
            ELSE Reply(p, "Error") /\ UNCHANGED <<serving, job, todo, today, snap>>
    /\ UNCHANGED <<db, day, provider>>

(* Providers::current: the one place where "nothing configured" stops a    *)
(* fetch.  The source it returns is used to the end of the request or      *)
(* sweep, whatever happens to the configuration meanwhile.                 *)
Resolve(p) ==
    /\ pc[p] = "resolve"
    /\ IF provider # "unset"
       THEN /\ Goto(p, CASE job[p].op = "Refresh" -> "held"
                         [] job[p].op = "Sweep"   -> "loop"
                         [] OTHER                 -> "send")
            /\ today' = [today EXCEPT ![p] = IF p = Sweeper THEN day ELSE @]
            /\ UNCHANGED <<serving, job, todo, snap, reply>>
       ELSE IF p = Sweeper
            THEN Forget(p, NoJob, "asleep") /\ serving' = TRUE
            ELSE Reply(p, "Error") /\ UNCHANGED <<serving, job, todo, today, snap>>
    /\ UNCHANGED <<db, day, provider>>

(* Enumerate the holdings under the lock.  Refresh resolved its source     *)
(* before and takes today's date now; the sweep resolves its source next   *)
(* and takes the date then.                                                *)
HeldTickers(p) ==
    /\ pc[p] = "held"
    /\ todo' = [todo EXCEPT ![p] = held_tickers]
    /\ today' = [today EXCEPT ![p] = day]
    /\ Goto(p, IF p = Sweeper THEN "resolve" ELSE "loop")
    /\ UNCHANGED <<db, env, job, snap, reply>>

(* One iteration of the refresh loop: skip a row that already carries      *)
(* today's date, unless forced.  (The order of the query is left open.)    *)
Visit(p, t) ==
    /\ pc[p] = "loop" /\ t \in todo[p]
    /\ todo' = [todo EXCEPT ![p] = @ \ {t}]
    /\ IF ~job[p].force /\ Current(t, today[p])
       THEN UNCHANGED <<pc, job>>
       ELSE /\ job' = [job EXCEPT ![p].ticker = t]
            /\ Goto(p, "send")
    /\ UNCHANGED <<db, env, today, snap, reply>>

LoopEnds(p) ==
    /\ pc[p] = "loop" /\ todo[p] = {}
    /\ IF p = Sweeper
       THEN Forget(p, NoJob, "asleep") /\ serving' = TRUE
       ELSE Reply(p, reply[p]) /\ UNCHANGED <<serving, job, todo, today, snap>>
    /\ UNCHANGED <<db, day, provider>>

-----------------------------------------------------------------------------
(* PriceSource::fetch: the request leaves once the rate limiter lets it;   *)
(* the snapshot is stamped with the date on which the answer has been      *)
(* read; storing it takes the database lock again.                         *)

Send(p) ==
    /\ pc[p] = "send"
    /\ Goto(p, "wait")
    /\ UNCHANGED <<db, env, locals>>

\* Whether a fetch of t may come to an answer, and whether it may fail.
CanAnswer(t) == provider = "partial" => t \notin Delisted

CanFail(t) == provider \in {"unset", "flaky"} \/ ~CanAnswer(t)

Answer(p) ==
    /\ pc[p] = "wait" /\ CanAnswer(job[p].ticker)
    /\ \E close \in Closes :
           snap' = [snap EXCEPT ![p] = [price |-> close, date |-> day]]
    /\ Goto(p, "store")
    /\ UNCHANGED <<db, env, job, todo, today, reply>>

\* Slip for the mutants: a ticker that failed is tried again.
FailsRequeued(p) ==
    /\ IF job[p].op \in {"Refresh", "Sweep"}
       THEN /\ Goto(p, "loop")
            /\ todo' = [todo EXCEPT ![p] = @ \cup {job[p].ticker}]
            /\ UNCHANGED reply
       ELSE Reply(p, "Error") /\ UNCHANGED todo
    /\ UNCHANGED <<db, env, job, today, snap>>

\* Slip for the mutants: a failure ends the whole loop.
FailsForAll(p) ==
    /\ IF job[p].op \in {"Refresh", "Sweep"}
       THEN /\ Goto(p, "loop")
            /\ todo' = [todo EXCEPT ![p] = {}]
            /\ reply' = [reply EXCEPT ![p] = IF p = Sweeper THEN @ ELSE "Error"]
       ELSE Reply(p, "Error") /\ UNCHANGED todo
    /\ UNCHANGED <<db, env, job, today, snap>>

\* A failure ends a single fetch, is remembered by Refresh, logged by the sweep.
Fails(p) ==
    /\ IF job[p].op \in {"Refresh", "Sweep"}
       THEN /\ Goto(p, "loop")
            /\ reply' = [reply EXCEPT ![p] = IF p = Sweeper THEN @ ELSE "Error"]
       ELSE Reply(p, "Error")
    /\ UNCHANGED <<db, env, job, todo, today, snap>>

FetchFails(p) == pc[p] = "wait" /\ CanFail(job[p].ticker) /\ Fails(p)

\* upsert_price.
Store(p) ==
    /\ pc[p] = "store"
    /\ cache' = [cache EXCEPT ![job[p].ticker] = snap[p]]
    /\ Goto(p, CASE job[p].op = "History"       -> "answer"
                 [] job[p].op = "Buy"           -> "insert"
                 [] job[p].op = "RefreshTicker" -> "done"
                 [] OTHER                       -> "loop")
    /\ UNCHANGED <<ledger, net, env, locals>>

StoreFails(p) == pc[p] = "store" /\ provider \in {"unset", "flaky"} /\ Fails(p)

\* portfolio::history, on the row as it is now.
AnswerHistory(p) ==
    /\ pc[p] = "answer"
    /\ Reply(p, IF cache[job[p].ticker] = None THEN "Error" ELSE "Ok")
    /\ UNCHANGED <<db, env, job, todo, today, snap>>

-----------------------------------------------------------------------------
\* Slip for the mutants: an insert retried after it had gone through.
InsertTwice(t, shares, price) ==
    /\ Len(ledger) < MaxLedger
    /\ LET row == [ticker |-> t, shares |-> shares, price |-> price]
       IN  ledger' = ledger \o <<row, row>>
    /\ net' = [net EXCEPT ![t] = @ + 2 * shares]
    /\ UNCHANGED cache

\* insert_transaction.
Insert(t, shares, price) ==
    /\ Len(ledger) < MaxLedger
    /\ ledger' = Append(ledger, [ticker |-> t, shares |-> shares, price |-> price])
    /\ net' = [net EXCEPT ![t] = @ + shares]
    /\ UNCHANGED cache

\* The price of a buy comes from the snapshot in hand, read some awaits ago.
FillPrice(p) == IF job[p].price = None THEN snap[p].price ELSE job[p].price

InsertBuy(p) ==
    /\ pc[p] = "insert"
    /\ Insert(job[p].ticker, job[p].shares, FillPrice(p))
    /\ Reply(p, "Ok")
    /\ UNCHANGED <<env, job, todo, today, snap>>

InsertFails(p) ==
    /\ pc[p] \in {"insert", "sell"}
    /\ Reply(p, "Error")
    /\ UNCHANGED <<db, env, job, todo, today, snap>>

\* Slip for the mutants: the holding is not checked.
SellablePriced(p) == cache[job[p].ticker] # None

(* Sell: the oversell check, the price lookup and the insert under one     *)
(* acquisition of the lock.                                                *)
Sellable(p) == job[p].shares <= Held(job[p].ticker) + Eps /\ cache[job[p].ticker] # None

Sell(p) ==
    /\ pc[p] = "sell"
    /\ Sellable(p)
    /\ Insert(job[p].ticker, -job[p].shares, cache[job[p].ticker].price)
    /\ Reply(p, "Ok")
    /\ UNCHANGED <<env, job, todo, today, snap>>

\* Oversold, or no cached price.
SellRefused(p) ==
    /\ pc[p] = "sell"
    /\ ~Sellable(p)
    /\ Reply(p, "Error")
    /\ UNCHANGED <<db, env, job, todo, today, snap>>

-----------------------------------------------------------------------------
(* The hour between two sweeps has passed.                                 *)
Wake ==
    /\ pc[Sweeper] = "asleep"
    /\ Goto(Sweeper, "held")
    /\ job' = [job EXCEPT ![Sweeper] = SweepJob]
    /\ UNCHANGED <<db, env, todo, today, snap, reply>>

\* Midnight UTC.
NextDay ==
    /\ day < MaxDay
    /\ day' = day + 1
    /\ UNCHANGED <<db, provider, serving, pc, locals>>

(* The operator sets or clears the provider (ProviderConfig.tla), or the   *)
(* provider or the disk gets better or worse.                              *)
ConditionChanges ==
    /\ provider' \in Conditions \ {provider}
    /\ UNCHANGED <<db, day, serving, pc, locals>>

(* SIGTERM, SIGINT, a kill or a power failure, and the start of the next   *)
(* daemon: the tables survive, every task is lost, and the startup sweep   *)
(* runs before anything is served.                                         *)
Crash ==
    /\ MayCrash
    /\ serving' = FALSE
    /\ pc' = [p \in Tasks |-> IF p = Sweeper THEN "held" ELSE "idle"]
    /\ job' = [p \in Tasks |-> IF p = Sweeper THEN SweepJob ELSE NoJob]
    /\ todo' = [p \in Tasks |-> {}]
    /\ today' = [p \in Tasks |-> 0]
    /\ snap' = [p \in Tasks |-> None]
    /\ reply' = [p \in Tasks |-> "Ok"]
    /\ UNCHANGED <<db, day, provider>>

Fetch(p) == Send(p) \/ Answer(p) \/ FetchFails(p) \/ Store(p) \/ StoreFails(p)

Loop(p) == Resolve(p) \/ HeldTickers(p) \/ (\E t \in Tickers : Visit(p, t)) \/ LoopEnds(p)

Trade(p) == InsertBuy(p) \/ InsertFails(p) \/ Sell(p) \/ SellRefused(p)

\* What a task does once it has something to do.
Step(p) == Lookup(p) \/ Loop(p) \/ Fetch(p) \/ AnswerHistory(p) \/ Trade(p) \/ Deliver(p)

Arrive(p) == \E r \in Requests : Receive(p, r) \/ Refuse(p, r)

Next ==
    \/ \E p \in Handlers : Arrive(p)
    \/ \E p \in Tasks : Step(p)
    \/ Wake \/ NextDay \/ ConditionChanges \/ Crash

Spec == Init /\ [][Next]_vars

(* Tokio polls every ready task again, its mutex is FIFO, and the HTTP     *)
(* client gives up after 15 s (main.rs 43), so no task stays parked.  The  *)
(* hour passes.  Clients need not send anything.                           *)
FairSpec == Spec /\ (\A p \in Tasks : WF_vars(Step(p))) /\ WF_vars(Wake)

-----------------------------------------------------------------------------
\* Only canonical symbols, fillable prices and whole snapshots are ever stored or
\* in a task's hands: what dispatch lets through (server.rs 280-315, 368-380).
TypeOK ==
    /\ ledger \in Seq([ticker : Tickers, shares : Int, price : Prices])
    /\ Len(ledger) <= MaxLedger
    /\ net \in [Tickers -> Int]
    /\ cache \in [Tickers -> Snaps \cup {None}]
    /\ day \in Days
    /\ provider \in Conditions
    /\ serving \in BOOLEAN
    /\ pc \in [Tasks -> PcLabels]
    /\ job \in [Tasks -> Jobs]
    /\ todo \in [Tasks -> SUBSET Tickers]
    /\ today \in [Tasks -> Days]
    /\ snap \in [Tasks -> Snaps \cup {None}]
    /\ reply \in [Tasks -> {"Ok", "Error"}]

(* Whatever is on the ledger has a row in the price cache: the cache is    *)
(* filled, across awaits, crashes and failures, before the trade is, and   *)
(* rows are only replaced.  So Sell's "no cached price" refusal never hits *)
(* a holding and summary never shows one at 0 (server.rs 381-402, 426-438, *)
(* portfolio.rs 53-56).                                                    *)
LedgerPriced == \A i \in DOMAIN ledger : cache[ledger[i].ticker] # None

(* A History that got as far as answering never says "no data", and a Buy  *)
(* never inserts a ticker the cache does not have, whatever the other      *)
(* tasks did since this one looked (server.rs 348-351, 398-399).           *)
AnswersHaveData == \A p \in Tasks : pc[p] \in {"answer", "insert"} => cache[job[p].ticker] # None

\* The book the daemon keeps: its ledger, and the price column of its cache.
Quotes == [t \in Tickers |-> IF cache[t] = None THEN None ELSE cache[t].price]

PaperBook == INSTANCE Book WITH quote <- Quotes

(* Concurrent sells cannot sell the same shares twice: a ticker is short   *)
(* by no more than the tolerance of each sale on record (server.rs         *)
(* 412-442).                                                               *)
ShortBounded == PaperBook!ShortBounded

(* The daemon implements the book: every step of every handler is a trade, *)
(* a new quote, or invisible; the ledger is append-only; a sale fills at   *)
(* the price cached at that very moment.                                   *)
ImplementsBook == PaperBook!Spec
=============================================================================
