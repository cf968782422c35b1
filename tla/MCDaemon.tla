------------------------------- MODULE MCDaemon -------------------------------
(***************************************************************************)
(* Model checking of the daemon: request mixes, findings, liveness.        *)
(***************************************************************************)
EXTENDS Daemon, TLC

CONSTANTS h1, h2

OneHandler  == {h1}
TwoHandlers == {h1, h2}
Symmetric   == Permutations(TwoHandlers)

MCNames == {"A", "B", "a", "?"}
MCUpper == [n \in MCNames |-> IF n = "a" THEN "A" ELSE n]
OneTicker  == {"A"}
TwoTickers == {"A", "B"}
OnlyB      == {"B"}

Req(op, name, shares, price, force) ==
    [op |-> op, name |-> name, shares |-> shares, price |-> price, force |-> force]

\* Trading in one symbol: a spelling of it, a symbol that is refused, NaN and
\* zero shares, a price override and a bad one; lots 1 (dust) and 3.
TradeRequests ==
    {Req("Buy", "a", 3, None, FALSE), Req("Buy", "A", 1, 2, FALSE),
     Req("Buy", "A", 3, 0, FALSE), Req("Buy", "?", 3, None, FALSE),
     Req("Sell", "A", 3, None, FALSE), Req("Sell", "a", 1, None, FALSE),
     Req("Sell", "A", NaN, None, FALSE), Req("Sell", "A", 0, None, FALSE),
     Req("History", "A", 0, None, FALSE), Req("RefreshTicker", "A", 0, None, FALSE)}

\* Holding one symbol and looking at another.
LookupRequests == {Req("Buy", "A", 3, None, FALSE), Req("History", "B", 0, None, FALSE)}

\* Two holdings being refreshed.
RefreshRequests ==
    {Req("Buy", "A", 3, None, FALSE), Req("Buy", "B", 3, None, FALSE),
     Req("Refresh", "A", 0, None, FALSE), Req("Refresh", "A", 0, None, TRUE)}

-----------------------------------------------------------------------------
(* Every request gets its answer and every sweep ends: neither the refresh *)
(* loop, nor fetches that fail however often, nor the other tasks hold a   *)
(* handler or the sweep for ever (server.rs 140-186, 459-477, main.rs      *)
(* 138-161).                                                               *)
Answered ==
    /\ \A p \in Handlers : pc[p] # "idle" ~> pc[p] = "idle"
    /\ pc[Sweeper] # "asleep" ~> pc[Sweeper] = "asleep"

Converge(tickers) == <>[](\A t \in tickers : t \in held_tickers => Current(t, day))

(* Once the provider serves, every holding ends up with a row of the       *)
(* current date and keeps it, whatever stale dates, stale answers and late *)
(* writes the refreshers raced with (main.rs 163-173: "what matters is     *)
(* `do we have today's close'").  A provider that has no answer for some   *)
(* holdings, time after time, does not keep the others from it.            *)
CacheConverges ==
    /\ <>[](provider = "good") => Converge(Tickers)
    /\ <>[](provider = "partial") => Converge(Tickers \ Delisted)

(* Once the provider has been cleared for good, requests to it stop: what  *)
(* a refresh or sweep resolved before lasts to the end of its loop and no  *)
(* longer, and no later request, sweep or miss of the cache finds it again *)
(* (provider/mod.rs 88-93, 112-124, server.rs 449, main.rs 128).           *)
Fetching(p) == pc[p] \in {"send", "wait"}

ClearedStops == <>[](provider = "unset") => <>[](\A p \in Tasks : ~Fetching(p))

-----------------------------------------------------------------------------
(* What documents and comments say and the code does not do: each of these *)
(* is checked by a run of its own that finds it violated.                  *)

(* docs/troubleshooting.md 179: "The sell exceeds the shares the ledger    *)
(* holds -- there is no short selling", granting the 1e-9 tolerance of one *)
(* comparison.  Selling dust from nothing is accepted again and again.     *)
NoShortSelling == \A t \in Tickers : net[t] >= -Eps

(* ticker-proto/src/lib.rs 93: "If `None`, the daemon uses the latest      *)
(* cached close".  The buy fills at the close it read before its last      *)
(* await; a refresh may have stored a later one since.                     *)
BuyAtLatestClose ==
    [][\A p \in Handlers : InsertBuy(p) /\ job[p].price = None =>
           ledger'[Len(ledger')].price = cache[job[p].ticker].price]_vars

(* README.md 216: "The daemon only re-fetches a ticker whose snapshot      *)
(* isn't stamped with today's UTC date".  A refresh and the sweep that     *)
(* both looked before either stored each send the request.                 *)
NoWastedRequest ==
    [][\A p \in Tasks : Send(p) /\ job[p].op \in {"Refresh", "Sweep"} /\ ~job[p].force =>
           ~Current(job[p].ticker, day)]_vars

(* docs/troubleshooting.md 195: "The Holdings table title shows the        *)
(* last-refresh date with an `(N days ago)` suffix whenever the cache      *)
(* isn't from today".  The date is the maximum over all cached rows, so a  *)
(* look at one other symbol hides that the holdings are stale.             *)
LatestRefresh == {cache[t].date : t \in {k \in Tickers : cache[k] # None}}

TitleTellsStale ==
    day \in LatestRefresh => \A t \in held_tickers : Current(t, day)

(* server.rs 429: "Don't silently fill at $0 -- that permanently corrupts  *)
(* cost basis."  A close is only required to be finite, so a provider that *)
(* answers 0 has trades filled at 0.                                       *)
NoFreeFill == \A i \in DOMAIN ledger : ledger[i].price > 0

(* provider/mod.rs 88: "Resolves the configured provider at the moment of  *)
(* use.  Deliberately rebuilt per fetch rather than cached".  A refresh or *)
(* sweep keeps the source it resolved at its start, so it goes on sending  *)
(* requests with a key that has been cleared.                              *)
ResolvedAtUse == [][\A p \in Tasks : Send(p) => provider # "unset"]_vars
=============================================================================
