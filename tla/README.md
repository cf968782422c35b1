# paperticker in TLA+

TLA+ modules, TLC configurations and TLAPS proofs for paperticker: the daemon
`tickerd`, which owns a paper-trading ledger and a price cache, and the clients
`tickerc` (a terminal program) and `tickerctl` (a command line) that talk to it
over a Unix socket. Every definition is translated from the Rust source under
`src/crates`; `PROJECT.json` maps each to the lines it stands for. Where a
document or a comment says something else than the code does, the model follows
the code and a run shows the difference.

## 1. The system

### Components

| component | source | state it keeps | operations | modelled in |
|---|---|---|---|---|
| portfolio engine | `tickerd/portfolio.rs` | none (pure) | `positions`, `summary`, `history`, `bollinger_bands` (from `ticker-proto`) | `Portfolio`, `Accounts`, `AlphaVantage` |
| ledger and price cache | `tickerd/db.rs` | tables `transactions`, `price_cache` | insert, upsert, sums, look-ups | `Book`, `Daemon` |
| request dispatch | `tickerd/server.rs` | what an async handler keeps across awaits | the requests | `Daemon` |
| refresh sweep | `tickerd/main.rs` | the tickers left, the date compared with | sweep at startup and hourly | `Daemon` |
| socket ownership | `server.rs` `bind`/`serve`, `main.rs` | the socket file, who listens | bind, serve, stop, die | `Socket` |
| connection handling | `server.rs` `handle`, `ticker-client` | two byte streams, a line buffer | read a line, dispatch, answer; call | `Connection` |
| rate limiter, provider | `provider/mod.rs`, `provider/alphavantage.rs` | time of the last release, FIFO mutex | `acquire`, `fetch` | `Throttle`, `AlphaVantage`, `Daemon` |
| provider configuration | `config.rs`, `server.rs` | `credentials.json`, its temporary file, the copy in memory | set, clear, load | `ProviderConfig` |
| terminal client | `tickerc/app.rs`, `worker.rs`, `main.rs` | rows, cursor, chart, form, job slot; worker thread, two channels | keys, jobs, updates | `Tui` (partly) |
| command line | `tickerctl/main.rs`, `provider_cmd.rs` | none but how far it has come | a command, its call, its exit code | `Tickerctl` over `Connection` |
| wire protocol | `ticker-proto` | none | requests, responses | as records (partly) |
| drawing | `tickerc/ui.rs` | none | | not modelled |
| secrets, permissions, build | | | | not modelled (section 7) |

### How they interact

A connection is a tokio task of the daemon: `handle` reads a line, `dispatch`
carries the request out, the reply is written, the next line is read. All tasks
and the sweep share one SQLite connection behind one `Mutex`, held for single
reads and writes and, in `Sell`, for the check and the insert together; it is
never held while a price is fetched. All fetches go through one limiter. The
provider commands change a file and the shared `Config`, read at the start of
each fetch, refresh or sweep. `tickerc` keeps one connection for quick reads and
one in a worker thread for slow calls, joined to its event loop by two channels.
Several `tickerd` processes meet only at the socket file, and only if their
sessions name the same path for it; `tickerctl` opens a connection for one call
and tells what became of it by its exit code.

### What is hard, and what has to hold

* *Interleaved handlers.* Reads, fetches and writes of one request are separate
  critical sections. The ledger must stay one a sequence of whole trades leaves,
  traded tickers must have prices, sold shares must not be sold twice, and
  refreshers that compare with an old date or come back with an old answer must
  not keep the cache from becoming current.
* *Failure.* Fetches and writes fail at any point; the process dies at any
  point; the socket file, the temporary key file and half a trade are what could
  be left behind.
* *Time.* Pacing across callers; midnight during a refresh; a client's notion
  of "today's" against the daemon's.
* *Restarts.* The pacing is in memory while what it paces is not: requests of a
  daemon that has died are still on their way when the next one sends.
* *Files as protocol.* `credentials.json` is replaced through a temporary name
  that all tasks of a process share; the socket is claimed by probing, removing
  and binding, at a path that follows the session's environment.
* *Streams.* A size cap on request lines, detected one byte beyond it, must not
  make the stream lose its step; a lost reply leaves a trade in doubt, for a user
  and for a script that decides by an exit code whether to run its trade again.
* *The terminal client's slot.* One job at a time, claimed before the worker has
  seen it and freed only by an update.
* *Numbers.* Share comparisons with a tolerance of 1e-9, a running average cost,
  rates rounded and padded by 10%.

`PROJECT.json` lists these as hazards, each at the line where it bites, with the
properties that cover it.

## 2. The modules

`Portfolio` has the pure functions, with sums and products (`Sums`) as recursive
functions rather than folds, so that they can be proved about; `Book` is the
abstract specification, `Accounts` what the functions make of its ledger;
`Daemon` implements it (`PaperBook == INSTANCE Book WITH quote <- Quotes`).
`AlphaVantage` composes with `Throttle`, and `Tickerctl` with `Connection`: they
extend the module and conjoin its actions with their own. `Throttle`,
`ProviderConfig`, `Socket`, `Connection` and `Tui` are components of their own,
abstracted in the others: fetching waits in `Daemon` as long as it likes, a
provider command is `ConditionChanges`, a dead daemon is `Crash`, and all of the
daemon is the environment of `Tui`. Each `MC` module adds
what only the model checker needs, each `Proofs` module the theorems (those of
`Throttle` are in `AlphaVantageProofs`, those of `Tickerctl` in
`ConnectionProofs`), and `Induction` the lemmas about recursion and sums. An
operator introduced as a *slip* ("Slip for the mutants") is a plausible bug of
the definition after it; only the mutants use it, which show that the
property would notice.

### Book, Portfolio, Accounts

State: `ledger` (the transactions in order), `net` (shares per ticker), `quote`
(price per ticker or `None`). `Buy` and `Sell` are one step each, `Quote` sets a
price. Share counts are integers in units of 1e-9 share, so that `Eps = 1` is
the code's tolerance; binary rounding is not modelled. `Portfolio` replays a
ledger as `positions` does, the cost as an exact fraction `num/den`; `summary`
and `history` are the two places that turn a position into what a client shows.
`Accounts` states what a replay has to come to without replaying: `net`, the cost
carried over the sales (`CarriedNum/CarriedDen`), the prices paid.

### Daemon

A step is what a task does between two points at which another task can run. The
table `price_cache` is `cache` (a price and the date of the row), `day` the UTC
date. Per task: `pc` (where it is parked), `job`, `todo`, `today`, `snap`,
`reply`, that is, the locals its `async fn` keeps.

| action | code |
|---|---|
| `Receive`, `Refuse`, `Deliver` | a line parsed, the arm of `dispatch` entered or its validation refusing; the reply written |
| `Lookup` | the cached row read by `History` and `Buy` |
| `Resolve` | `Providers::current`, and its error when nothing is configured |
| `HeldTickers`, `Visit`, `LoopEnds` | the refresh loop of `Refresh` and of `refresh_stale` |
| `Send`, `Answer`, `FetchFails` | `fetch`: request out, row or error back |
| `Store`, `StoreFails` | `upsert_price` |
| `InsertBuy`, `InsertFails` | `insert_transaction` of a buy |
| `Sell`, `SellRefused` | check and insert under one lock |
| `Wake`, `NextDay`, `ConditionChanges`, `Crash` | the hour, the calendar, the provider or the disk, death and restart |

`provider` is `"unset"`, `"flaky"` (fetches and writes may fail), `"good"` (they
do not) or `"partial"` (fetching always fails for the `Delisted` tickers and
never for the others). The date and time of a trade, the 120 closes of a row and the
requests that only read are left out. Reads of SQLite are taken to succeed.

### Throttle

Time is discrete and kept as ages, so that the state is finite: `age` since the
last release (saturating at the interval), `left` of each sleep, `flight` of
each released request on its way to the provider, `gap` since one last arrived.
`queue` is tokio's FIFO mutex, its first element the owner; the owner sleeps
with it held, as the code does. A sleep may end late, never early. `Setting` is
`PAPERTICKER_ALPHAVANTAGE_RPM`, a typo included.

### AlphaVantage

`fetch` around the limiter: every way a request may fail (not sent, a status, a
body that is no JSON, an error or a notice beside a series, no usable close), and
what it makes of a series: the closes that parse, in order, and the last as the
price. `Restart` ends a daemon at any point: `pc`, `queue` and `age` begin anew,
and any of its requests that were out stay on the `wire`. `since` is the time
since anything reached the provider, from whichever daemon, and `early` counts
what reached it sooner than published. `bollinger_bands` is the chart made of
the result, in integers: a sum for the mean, and for the variance the sum of
squared distances from the mean, scaled by `Window^3`.

### ProviderConfig

`save` system call by system call: create the temporary file (`create_new`
fails if it exists), write and sync, rename; `clear`; then `Config::load()`,
evaluated *before* the lock is taken, and the assignment under it. Any number of
tasks do so at once. `tmp` is per process id; `Restart` may bring the same id
back. `file` may hold half a configuration (`Half`) and a slip (`CreateInPlace`)
shows that it would. A read of the file that fails loads the default
(`Misread`), whatever the file holds.

### Socket

One action for each call of `bind`, and for those that may fail `RemoveFails`,
`BindFails` and `ChmodFails`. `Serve` accepts clients, with no signal handler as
yet (`"deaf"`); `Install` is the task that `serve` has spawned installing it,
which may never happen (`server.rs:108-117`). A process ends by `Signal`,
`Cleanup` and `Exit` if the handler is there, and otherwise by `SignalEarly` (the
default action of a signal), `AcceptFails` (`accept().await?` makes `main` return
with the socket file in place, `server.rs:129`) or `Kill`. `Places` are the
paths that sessions name (`XDG_RUNTIME_DIR`, or the fallback under `/tmp`);
`path[p]` is whose socket is at `p`, and `at[d]` the place process `d` uses.
`serial`, chosen at the start of a behaviour, says whether processes go through
`bind` at a place one at a time.

### Connection

A request is a number of bytes marked with its number, then a newline. `up` and
`down` are the socket's two directions, `up` with a capacity. The client either
waits for each reply, as `Client::call` does, or writes on (`waits`, chosen at
the start), and one that writes on may shut down its writing side between two
lines and go on reading (`ShutDown`): the handler then meets the end of the stream
with the client still there. The handler takes a byte at a time up to one beyond the cap, like
`take(MAX + 1)`. Either side may go away at any point. A call fails when a write
finds the daemon gone or the reply's stream ends.

### Tickerctl

One command from `connect` through the prompt (`provider set` only), the call and
the reply to its exit code, on top of a `Connection`; `Again` is a script that
runs it once more, on a new connection, to a daemon that has died or not. The
kind of response is what `dispatch` has for the command, and the exit code what
`run` and `print_human` make of it. A number that JSON cannot write arrives as
null. With no command typed, the connection is a client's that writes what it
likes, as before.

### Tui

The loop is at `"boot"`, `"drain"`, `"fold"`, `"key"` or `"quit"`: drain the
updates, fold each in, take at most one key. The worker is at `"idle"`, `"next"`,
`"call"`, `"closing"` (it has announced `Disconnected` but still has its
receiver) or `"gone"`. `rows`, `old` and `sel` are what the user sees, `held`
and `stale` what is so in the daemon. `rows` and `held` are lists ordered by
value, like those of `summary` (`portfolio.rs:83`): a trade puts its ticker
anywhere, and a row refreshed may move (`Revalued`), here or by another client or
the sweep, so that the cursor of a reload finds another ticker under it. Each key
has an action. Texts, colours,
the Transactions list and the letters typed are left out.

## 3. The runs

| run | configuration | distinct states | properties |
|---|---|---|---|
| `book` | `MCBook` / `MCBook.cfg` | 497,000 | `TypeOK` `ShortBounded` `ReplayIsSum` `CostIsCarried` `AverageWithinPaid` `HoldingsAgree` |
| `trade` | `MCDaemon` / `Trade.cfg` | 371,000 | `TypeOK` `LedgerPriced` `AnswersHaveData` `ShortBounded` `ImplementsBook` |
| `refresh` | `MCDaemon` / `Refresh.cfg` | 264,000 | `Answered` `CacheConverges` `ClearedStops` |
| `throttle` | `MCThrottle` / `Throttle.cfg` | 149,000 | `TypeOK` `OneEarlyPerRestart` `ChartSound` `ReleasesSpaced` `ArrivalsSpaced` `Served` |
| `config` | `MCProviderConfig` / `Config.cfg` | 744,000 | `TypeOK` `StoredIsUsable` `RestartAgrees` `InstallsItsOwn` |
| `socket` | `MCSocket` / `Socket.cfg` | 1,129,000 | `OneDaemon` `TidyEndsLeaveNoDebris` `DaemonIsReachable` `KeepsServing` |
| `connection` | `MCConnection` / `Connection.cfg` | 91,000 | `RepliesInOrder` `ExecutedInOrder` `OneInDoubt` `HangsUpWithReason` `ExitTellsTrade` `CallsReturn` |
| `browse` | `MCTui` / `Browse.cfg` | 1,823,000 | `TypeOK` `SelectionShown` `DetailMatches` |
| `jobs` | `MCTui` / `Jobs.cfg` | 731,000 | `NoSecondJob` `JobLands` |
| `short_selling` | `MCDaemon` / `ShortSelling.cfg` | violated | `NoShortSelling` |
| `replace` | `MCSocket` / `Replace.cfg` | violated | `ReplacementServes` |
| `spent_again` | `MCTui` / `SpentAgain.cfg` | violated | `SkipsStamped` |

**book.** Every ledger of at most four trades, in two symbols, at two prices,
0 and 3 (a cost is linear in the prices, so two tell buys apart, and a price of
zero is one the provider may give, `alphavantage.rs:229`), with lots of 1 (dust, equal to the tolerance), 3 and 4: four trades are enough
for a buy, a second at another price, a partial sale and one more, and for
selling to a rest, to nothing, to dust and below zero. The replay of
`portfolio.rs` and SQL's `SUM` agree on every holding; the running-average cost
equals a reference that never computes an average but scales each buy by what
later sales left of it; averages stay between the prices paid. `HoldingsAgree`:
the Holdings table and the line under a chart, computed by separate code from
separate requests, show the same holdings and say the same of each, at a price
of zero too, where they differ in the percentage and only there: the property
says by how much. `ShortBounded`:
the tolerance of the oversell check accumulates, but only by `Eps` for each sale.

**trade.** Two connections and the sweep on one symbol, with ten requests (a
lower-case spelling, an invalid symbol, NaN and zero lots, good and bad price
overrides), failing fetches and writes, and crashes at every step. Two
connections are what an unguarded check and insert need; the two are
interchangeable and symmetric. That the concurrent daemon implements `Book`
says that each step is one trade, one new quote, or invisible.

**refresh.** One connection buying and refreshing two symbols, forced or not,
next to the sweep, over a midnight. Two symbols so that one can be skipped or
fail while the other is fetched; two days so that a date read before midnight
is compared with and an answer of yesterday stored after. `CacheConverges`
needs the hourly sweep: the row may well go back a day first. `ClearedStops`:
once the provider is cleared for good, requests to it stop, though a refresh
that has resolved it goes on with it to the end of its loop. `Answered` says
that requests end and sweeps too; `CacheConverges`, that a ticker the provider
fails for time after time does not keep the other from becoming current: the loop
logs the failure and goes on.

**throttle.** Three tasks that fetch for ever in a daemon that is restarted
twice; ticks of 100 ms, so that the published second is ten ticks and the
interval eleven; a delay of up to one tick (the headroom) between release and
arrival; an rpm setting that is a typo, which must pace like the default. Two
restarts, so that what the first leaves on the wire can meet the third daemon.
`OneEarlyPerRestart`: each restart costs one request that is too early and no
more. Responses are every series of up to three days over two prices and a text
that is no number, and every failure; the window is 2, so that a third close
shows a lag. `ChartSound`: what is left of a series is in order, its newest
usable close is the price, and each band is that of the window ending at its day:
its sum is theirs, and its variance is compared with half the squared distances
between any two of the closes, for which no mean is needed. And whatever is kept
comes from a response that is no failure in disguise (an error or a notice,
alone or beside a series), while a good response with a usable close is kept.

**config.** Two tasks, a provider and a misspelt one, two keys and an empty one,
a key in the environment, two process ids, any call failing (the read of `load`
included), restarts. `RestartAgrees` speaks of daemons whose commands did not
overlap since they started, and whose last read of the file did not fail
(`overlapped` and `misread` are history variables of `MCProviderConfig`); section
5 has what happens if they overlap.

**socket.** Three processes in sessions that name one of two places, and one
kill, signal or failing call, which is enough for one to leave debris, one to be
about to remove it, and a third to have bound meanwhile or elsewhere. Two, which
a removal that fails with the debris still there would need, do not end in five
minutes; the safety properties are theorems for any number.
`OneDaemon` and `DaemonIsReachable` are about starts that do not go through `bind`
at a place together. `TidyEndsLeaveNoDebris` is about all of them, whoever else is
about to remove or bind there: a process that is refused, that does not get the
socket or that a handled signal stops leaves no file of its own; those that do
were killed, were signalled with no handler in place, or met a chmod, an accept or
a removal that failed. `KeepsServing` says that debris of any such end never locks
the next process out. It needs `serial`: three that are restarted for ever
together may go on removing each other's sockets.

**connection.** Requests of 1, 2, 3 and 5 bytes against a cap of 3 with the
newline counted: below it, exactly it, one more, and enough more for the rest of
the line to pass as a request of its own. The socket holds two bytes, so writing
blocks. Either a client that makes three requests (one answered, one in doubt,
one behind), or any command of `tickerctl`, run twice by a script.
`ExitTellsTrade`: counted over both runs, whatever broke between, a trade is
inserted for each exit code 0, none for a 1, and at most one for a 2 or a death.
`HangsUpWithReason`: the daemon hangs up on a client that is still there only
if the last thing it wrote was why, or if the client had shut down its side and
every request it made has its reply. That the client gets to read why is not said,
and not so (`UntoldOversize`, section 5).

**browse.** Two symbols, interchangeable; all navigation keys and both refreshes;
other clients that buy and sell them, the daemon's sweep, a midnight. The user
trades in `jobs` only. Two rows are what a cursor needs to be left behind by a
sale, and to have the other ticker put under it by a refresh. `DetailMatches`:
the chart on the Detail tab is of the holding under the cursor, wherever a refresh
or a trade elsewhere has moved the rows.

**jobs.** One symbol; the keys of the trade form, `r`, and quitting; connections
that break, Error responses, a provider that comes and goes.

The violated runs are in section 5.

The bounds: `MaxLedger` (trades), `MaxDay` (midnights), `MaxStops`
(kills, signals and failing calls), `MaxRestarts` (of the daemon that paces), `MaxCalls` (requests on a
connection), `MaxRuns` (of a script's command), `Delay`. Each only stops the
action it bounds, and the proofs of section 4 hold for all values of them.

### Fairness

* `Daemon`: `WF(Step(p))` for every task and `WF(Wake)`. Tokio polls ready
  tasks, its mutex is first come first served, and the HTTP client times out
  after 15 s (`main.rs:43`), so a parked task goes on; the hour passes. Clients
  owe nothing, and neither does the provider: `CacheConverges` is conditional on
  its serving from some time on.
* `Throttle`, `AlphaVantage` (`FairAVSpec`): time passes, ready tasks are polled.
  Callers need not call, and a daemon may die.
* `Socket`: a process that can run does; `SF(Start(d))`: one that is off is
  started again whenever that keeps being possible. The code starts nothing
  itself; the assumption is that somebody keeps trying, and the property is that
  trying is enough.
* `Connection`, `Tickerctl` (`FairCliSpec`): a call once made goes on, a ready task
  is polled. Neither is assumed of a client between calls; a user at the prompt
  of `provider set` may sit there.
* `Tui`: the loop wakes every 120 ms, the worker thread is scheduled, and its
  calls return (the daemon's `Answered`, or a broken connection). The user owes
  nothing.

`CHECK_DEADLOCK FALSE` stands where the system may stop: a user who quits, a
client that has closed, processes that all run or are all stopped for good.

## 4. The proofs

All are checked by TLAPS for every value of the constants that satisfies the
named assumptions (`BookAssumption`, `DaemonAssumption`, `ThrottleAssumption`,
`AlphaVantageAssumption`, `ConfigAssumption`, `SocketAssumption`,
`ConnectionAssumption`, `TickerctlAssumption`, `TuiAssumption`), which ask for little but that ranges
are what they are and `None` is not a value.

* **BookProofs.** `TypeCorrect` and `ShortIsBounded`. The latter is inductive as it stands once one knows how an insert changes the set of
  a ticker's sales and its cardinality (`SalesOfInsert`): a sale takes at most
  what is held and `Eps`, and adds one to the count.
  Then the accounts, which are about recursive functions over the ledger. Each
  rests on what one more transaction does to the function in question
  (`SqlSumAppend`, `ReplayedAppend`, `CarriedDenStep`, `CarriedNumStep`), so
  that an invariant of the steps of `Book` does the induction.
  `ReplaySums`: the replay branches on the sign of row and position and clamps the
  cost, and still its shares are the sum (`AddsUp`). `AverageIsWithinPaid`: the
  invariant `Between` says of every position, shown or not, that its cost lies
  between shares times a lowest and shares times a highest price paid; a buy may
  replace one of the two (`BoughtBetween`), a sale scales all three alike
  (`SoldBetween`). `CostIsAlwaysCarried`: a purchase multiplies nothing and adds its
  own term to the reference; a sale from a long position multiplies every term of
  the numerator by what it leaves and the denominator by what was there, which is
  what `Sold` does to its fraction. `HoldingsAlwaysAgree`, for prices of
  zero too, if `None` is no reply: the two computations differ in guards, of which
  that on shares holds of whatever is held, that on a price being there holds by the
  lemma `TradedStaysQuoted`, and that on the price being above zero accounts for the
  one difference the property names (no cost is negative, by `Between`).
* **DaemonProofs.** `TradedIsPriced` and `DataAtAnswer` need each other and the
  locals of the tasks. The invariant is `TypeOK /\ TasksOK /\ LedgerPriced /\
  AnswersHaveData`; `TasksOK` says of each place a task can be parked what its
  `job` and `snap` are (a snapshot in hand where one is about to be stored, a
  ticker where one is used). That rows are never removed (`CacheKept`) carries a
  row from the fetch to the insert. `Implements` then maps initial states to
  initial states and each step to a `Quote` (`Store`), a `Buy` (`InsertBuy`), a
  `Sell`, or a stutter: the invariant is needed for the `Buy`, whose quote was
  looked up in an earlier critical section. `ShortIsBounded` and the accounts
  (`AccountsHold`) are inherited from the book through the refinement, crashes
  and races included.
* **AlphaVantageProofs.** For `Throttle`: `ReleasesAreSpaced` from the invariant that a sleeper owns
  the mutex and sleeps no less than what remains of the interval.
  `ArrivalsAreSpaced` under `Headroom` (`Delay + Published <= Interval`), from
  `InFlight`: at most one request is on its way, and the last arrived no later
  than `Delay` after the last release. For `AlphaVantage`: each step of the daemon
  that is restarted is one of the limiter's or begins its next life
  (`StepsOrRestarts`), so these theorems carry over to all lives (`AVReleasesSpaced`,
  `AVArrivalsSpaced`). `EarlyBounded` is `OneEarlyPerRestart` under `Headroom`. Its
  invariant is a budget: a life that has released nothing still owes an early
  request (`Fresh`); one that has (`Spent`) waits until whatever is on the wire
  from the lives before has arrived, so of all that flies at most one more than
  the restarts so far can be early. What makes it inductive is that a request of
  a dead daemon is at least as old as the live one's last release.
  `ChartIsSound`, for any responses and any window: `OldestFirst` lists the usable
  days once each and in order (`InOrder`, by induction on the days), and a band has
  the mean and variance of its window. The latter is algebra over sums: sums are
  linear (`SumCombined`) and do not depend on the order (`SumReversed`), so that
  both the squared distances from the mean (`BandIs`) and those between any two
  closes (`SpreadIs`) come to the same expression in the sum and the sum of squares.
  `ResultIs` is the case split over responses, and `NothingUsable` (no usable day,
  nothing left) what rules out that a good close is dropped.
* **ProviderConfigProofs.** `StoredStaysUsable` and `SavesAreOwn`, from the
  invariant `TmpIsLock`: the temporary file is a lock. Whoever is between create
  and rename holds it, nobody else does, and before the rename it is its
  holder's whole configuration; and what is being saved can fetch.
  `OneByOneRestartAgrees`, over the history variable of `MCProviderConfig`: unless
  commands have overlapped, at most one task is under way, the memory holds what
  the file does except between a change of the file and the assignment, and what a
  task is about to assign is what the file still holds (`AgreeInv`), unless a read has
  failed.
* **SocketProofs.** `NeverTwoDaemons` and `AlwaysReachable`, when `serial`: each
  path is its claimant's (`PathIsClaimed`), and what the probe has found out is
  still so at the removal (`RemovesDebris`), which is the step that is wrong
  without `serial`. `EndsAreTidy` needs no `serial`: a file is only ever put at
  a place by its own process (`OnlyItsOwn`), and whoever ends tidily has either
  not put one there or taken it away before (`LeavesTidily`).
* **ConnectionProofs.** `DoubtIsOneCall` follows from `WaitInv`.
  What is on its way to the handler (`Rest`, the bytes in the socket and those not
  yet written) is one line or the rest of one (`Lines`); a request not yet carried
  out or not yet answered is then counted once, by where the handler is and
  whether `Rest` is empty, and each step moves it from one term of `Counts` to the
  next. A byte read is the newline exactly when nothing of the line is left
  (`Shorter`), so that no request is begun with another's bytes.
  `RepliesAreInOrder` and `RequestsRunInOrder` are about clients that write on, with
  any number of lines in flight, of any sizes and against any cap. The stream as
  the handler has yet to see it (`Stream`: the line begun, the socket, what is not
  yet written) is `Laid` out after the requests taken: the numbers on its bytes go
  up (`Rising`), none is of a request already taken or never made (`Within`), and
  each request to come is there whole, its bytes together and its newline behind
  them (`There`). `Within` alone would let a rest of an oversized line be read as a
  request; `There` excludes it, and `Rising` makes the next line that of the next
  request. What is done and told follows by where the handler is (`DoneInv`,
  `ToldInv`, `StageInv`): request `i` is the `i`th carried out, its reply the `i`th
  written, and the first that does not fit is the last thing told.
  `EndsWithReason` rests on the same invariant: once nothing is left in the stream,
  every request was taken to its end (`NothingLeft`), so a handler that meets the end
  of a half-closed stream has replied to each.
  `ExitCodesTellTrades`: every step of a command is a step of its connection or
  begins a fresh one, so the invariants above hold in each run; `OneCall` and
  `FirstReply` make the only reply that of the only request. Trades are then
  counted over the runs (`CountInv`): past runs that exited 0, and the present one
  if its verdict is Ok, are no more than the trades inserted, which are no more than
  those and the past runs that exited 2 or died.
* **TuiProofs.** `TypeCorrect`, `AlwaysSelected`, `AlwaysMatches` and
  `OneJobAtATime`. That `rows` is a list which names each holding once, whatever
  order a refresh or a trade gives it (`ListTyped`, `RevaluedTyped`), is part of the
  type invariant; with it the cursor is always on a row (`Cursor`, `SelectedRow`). Whose chart is shown
  is inductive with what `detail_loading_for` remembers (`ChartInv`). The slot is
  counted: jobs queued, one if the worker runs one, and the updates not yet folded
  in that end one; `OverAppend` and `OverTail` say how that last number follows the
  two queues, and each action moves a job from one term to the next, so that it is
  freed only with the end of its job.

Induction over data is in `Induction`: the induction rules of the library take an
operator, which these provers cannot instantiate, so there induction is stated for
sets of naturals (`Least`: one that is not empty has a least member) and for a
function whose every value follows from the one before (`SameRecursion`), and what
a recursive function computes is first proved of an explicit function that takes
the same steps.

Every invariant and every action property that a run checks is a theorem here.
Model-checked only is what is temporal beyond safety, since liveness under fairness
is out of the prover's reach: `Answered`, `CacheConverges`, `ClearedStops`,
`Served`, `KeepsServing`, `CallsReturn`, `JobLands`. Conditions beyond the
assumptions on constants are in the theorems that need them: `Headroom` for
what is about arrivals, and that `None` is no reply for `HoldingsAgree`.

## 5. Where documents and code part

Listed runs, each of which TLC finds violated:

* `short_selling`. The oversell check compares with what `positions` retains,
  and a ticker already short reads as 0 held, so a sale of up to 1e-9 shares
  passes every time (`server.rs:417`). `docs/troubleshooting.md:179`: "there is
  no short selling". `ShortBounded` is the true bound.
* `replace`. A process that probes before the signalled one has exited takes it
  for a live daemon and quits; then the old one exits and nobody serves.
  `server.rs:73-76` and `docs/troubleshooting.md:42-45` prescribe just this:
  `pkill tickerd && tickerd &`.
* `spent_again`. `r` decides from the rows this client last read, so after the
  daemon's own sweep it asks for every holding again. `README.md:244-245`: `r`
  "skips anything already stamped with today's UTC date".

More of them can be run by hand (`tlc -config <name>.cfg <module>`); each is
violated as described, but for the first:

| configuration | module | property | what it shows |
|---|---|---|---|
| `AfterCrash` | `MCSocket` | `SomebodyServes` | passes: four processes that start at any moments after a crash, and may remove each other's sockets, still leave one that serves |
| `TwoDaemons` | `MCSocket` | `OneInstance` | two processes that both found the debris both become the daemon, the slower having removed the faster one's fresh socket (`server.rs:58`; `README.md:190-192`) |
| `TwoPlaces` | `MCSocket` | `OnePerUser` | two sessions of a user that differ in `XDG_RUNTIME_DIR` name two socket paths and one database, and each has its daemon (`ticker-proto/src/lib.rs:26`; `README.md:190-192`, `:374`) |
| `EarlyStop` | `MCSocket` | `StopRemovesSocket` | a daemon stopped during the startup sweep, before there is a handler, leaves its socket file (`main.rs:75`; `README.md:181-182`) |
| `StaleFill` | `MCDaemon` | `BuyAtLatestClose` | a buy fills at the close it read before a refresh stored a later one (`server.rs:398`; `ticker-proto/src/lib.rs:93`) |
| `WastedRequest` | `MCDaemon` | `NoWastedRequest` | a refresh and the sweep both look before either stores, and both fetch (`server.rs:464`; `README.md:216-217`) |
| `StaleTitle` | `MCDaemon` | `TitleTellsStale` | looking at an unheld symbol makes the title's date today's while holdings are older (`db.rs:134`; `docs/troubleshooting.md:195-196`) |
| `FreeFill` | `MCDaemon` | `NoFreeFill` | a close of 0 from the provider is filled at (`alphavantage.rs:229`; `server.rs:429-430`) |
| `ClearedSource` | `MCDaemon` | `ResolvedAtUse` | a refresh sends on with a provider that has been cleared (`server.rs:449`; `provider/mod.rs:88-90`) |
| `TodaysClose` | `MCThrottle` | `StampedHasTodaysClose` | a row fetched before the day's close is out is stamped today's and not refreshed again that day (`alphavantage.rs:243`; `ticker-proto/src/lib.rs:100`) |
| `ZeroPrice` | `MCBook` | `GainsAgree` | at a price of zero the table shows a change of 0%, the line under the chart one of -100% (`portfolio.rs:62`) |
| `PacedArrivals` | `MCThrottle` | `NeverFaster` | releases are spaced, arrivals need not be once delays exceed the 10% (`provider/mod.rs:176`; `docs/troubleshooting.md:155-156`) |
| `OverlappingSets` | `MCProviderConfig` | `MemoryReflectsRestart` | of two commands that overlap, the older reading of the file may be stored last (`server.rs:522`; comment at 520-521) |
| `LeftoverKey` | `MCProviderConfig` | `ClearErases` | a failed write leaves the temporary file and what was written of the key, and `clear` does not remove it (`config.rs:129`; `README.md:211`) |
| `UntoldOversize` | `MCConnection` | `OversizedIsTold` | the daemon hangs up with the line unread, the client's write fails and the reply is never read (`server.rs:169`; `SECURITY.md:111`) |
| `ExitTwo` | `MCConnection` | `TwoMeansNeverReached` | a call whose reply is lost exits 2 though it was carried out (`tickerctl/src/main.rs:150`; `README.md:223-226`) |
| `NanPrice` | `MCConnection` | `FilledAsAsked` | `--price nan` is written as null, which is no price, and the trade fills at the cached close (`tickerctl/src/main.rs:134`; comment at 58) |
| `DeadWorker` | `MCTui` | `SlotIsTheJob` | a job submitted between `Disconnected` and the end of the worker's thread is lost and its slot never freed (`worker.rs:110`; comment at 78) |
| `FormKept` | `MCTui` | `ClearedMeanwhile` | the form still holds the trade in flight (`app.rs:654`; comment at 101-102) |

## 6. The plan

Done, in this order: `Portfolio` and `Book`; `Daemon` with the refinement and
its proofs; `Throttle`, `ProviderConfig` and `Socket` with proofs; `Connection`;
`Tui`; then `Tickerctl` over `Connection`, `AlphaVantage` over `Throttle` with its
proofs, sessions with different socket paths in `Socket`, `TuiProofs`, and
`ConnectionProofs`; then `Induction` and with it what the accounts and the chart
come to, the order of requests and replies, and what an exit code tells.

Left, the most important first:

1. How old the chart is: versions of a price in `Tui`, for the reload that
   `on_job_finished` does only when the Detail tab is showing (`app.rs:642`).
2. How many requests overlapping refreshes may waste (`server.rs:464`): a bound by
   the number of tasks rather than `NoWastedRequest`, which does not hold.
3. A composition of `Socket` and `Book`: what two daemons over one database do
   to `ShortBounded`.
4. The Transactions tab's cursor in `Tui`, and the totals and weights of `summary`.

## 7. Not modelled

* Floating point: shares are integers in units of the tolerance, money is exact.
* SQLite's own transactions and files; a write happens or fails.
* The provider's JSON but for whether it parses and what it holds; the wording of
  notices and errors.
* Totals and weights in `summary`, which are sums and ratios of what is modelled;
  the values rows are ordered by (`Tui` has the order, and lets a change of value
  give it any).
* `ticker-proto/secret.rs` (a property of types and memory), file modes and
  directory checks (made once, by calls that interact with nothing), serde.
* What `tickerctl` prints, and the catalog it lists.
* `ui.rs`, which draws from the state and keeps none.
* Build files and workflows.
* A full listen backlog, and `SIGINT` apart from `SIGTERM`: the same path, but for a
  process in which the handler of only one of the two is installed.
* A client that shuts down its writing side in the middle of a line; one that stops
  there is modelled as hanging up.
