---------------------------------- MODULE Tui ----------------------------------
(***************************************************************************)
(* tickerc: the event loop and state machine of app.rs, the background     *)
(* thread of worker.rs, and the two channels between them.                 *)
(*                                                                         *)
(* The daemon is the environment: it answers calls, and its holdings, its  *)
(* prices and its provider change under the client's feet.  A pass of the  *)
(* loop drains the updates, folds them in one by one, then takes at most   *)
(* one key.  The calls the loop itself makes are quick reads and part of   *)
(* the step that makes them; the worker's are steps of their own.          *)
(*                                                                         *)
(* Holdings are listed by value, greatest first: a price or a trade may    *)
(* move a holding among the others, whose order it leaves as it is.        *)
(*                                                                         *)
(* Left out: values themselves, the transactions list, texts and drawing   *)
(* (but for which form fields there are), the letters of a field (blank,   *)
(* good or bad), and in which order a refresh asks (in any).               *)
(***************************************************************************)
EXTENDS Integers, Sequences, FiniteSets, Functions

CONSTANTS
    Tickers,        \* symbols
    Keys,           \* the keys the user presses
    Typed,          \* what shares and price fields may hold
    World,          \* what else happens: subset of Events
    None            \* an absent Option

\* "Quit" is Ctrl-Q, "Flip" Ctrl-Right, "Type" any letter the form takes.
AllKeys == {"Quit", "Esc", "Enter", "Up", "Down", "Tab", "BackTab", "1", "2", "3", "4",
            "r", "R", "b", "s", "Flip", "Type"}

Events == {"trade", "sweep", "provider", "midnight", "disconnect", "error"}

ASSUME TuiAssumption ==
    /\ IsFiniteSet(Tickers) /\ Tickers # {}
    /\ Keys \subseteq AllKeys /\ World \subseteq Events
    /\ "blank" \in Typed /\ Typed \subseteq {"blank", "good", "bad"}
    /\ None \notin Tickers \cup Nat \cup {"Refresh", "Trade"}

VARIABLES
    apc,       \* the loop: "boot", "drain", "fold", "key", "quit"
    tab,
    form,      \* TradeForm
    rows,      \* the tickers of summary.rows, in their order
    old,       \* those whose last_updated is not today's, as a set
    sel,       \* holdings_state: a row index from 0, or None
    detail,    \* the ticker of the chart, or None
    loaded,    \* detail_loading_for
    job,       \* the slot: kind of the job in flight, or None
    batch,     \* updates drained and not yet folded in
    jobs,      \* channel to the worker
    updates,   \* channel from the worker
    wpc,       \* the worker: "idle", "next", "call", "closing", "gone"
    work,      \* its job
    todo,      \* tickers of the job not yet asked for
    held,      \* in the daemon: tickers held, by their value now
    stale,     \*   tickers whose price is not of today
    ready      \*   whether a provider is configured

view    == <<rows, old, sel>>
chart   == <<detail, loaded>>
app     == <<tab, form, view, chart>>
channel == <<jobs, updates>>
worker  == <<wpc, work, todo>>
daemon  == <<held, stale, ready>>
vars    == <<apc, tab, form, rows, old, sel, detail, loaded, job, batch,
             jobs, updates, wpc, work, todo, held, stale, ready>>

Tabs == <<"Portfolio", "Detail", "Trade", "Transactions">>

Sides == {"Buy", "Sell"}

Fields == {"Ticker", "Shares", "Price"}

Forms == [side : Sides, field : Fields, mode : {"Nav", "Edit"},
          ticker : Tickers \cup {None}, shares : Typed, price : Typed]

NoWork == [kind |-> "none", tickers |-> {}, side |-> "Buy", force |-> FALSE]

Jobs == [kind : {"Refresh", "Trade"}, tickers : SUBSET Tickers, side : Sides, force : BOOLEAN]

Updates == {"Started", "Progress", "Refreshed", "Traded", "TradeFailed", "Disconnected"}

-----------------------------------------------------------------------------
(* Lists of holdings.                                                      *)

\* The orders the set S of holdings may be listed in.
Listings(S) == {s \in [1..Cardinality(S) -> S] : Range(s) = S}

Lists == UNION {Listings(S) : S \in SUBSET Tickers}

Before(s, u, v) == \E i, j \in DOMAIN s : i < j /\ s[i] = u /\ s[j] = v

\* How S may be listed now that the value of t is another: summary sorts by
\* value, and the values of the others are what they were.
Revalued(t, S) ==
    {s \in Listings(S) : \A u, v \in S \ {t} : Before(s, u, v) <=> Before(held, u, v)}

\* The ticker in row i, counted from 0.
RowAt(R, i) == R[i + 1]

\* App::selected_holding.
Selected(R, s) ==
    IF s # None /\ s < Len(R) THEN RowAt(R, s) ELSE None

\* Slip for the mutants: the cursor is left where it is.
SelectUnclamped(R, s) == IF R = <<>> THEN None ELSE IF s = None THEN 0 ELSE s

\* The cursor after reload_summary, which keeps its row, not its ticker.
SelectAfter(R, s) ==
    IF R = <<>> THEN None
    ELSE IF s = None THEN 0
    ELSE IF s >= Len(R) THEN Len(R) - 1 ELSE s

\* Slip for the mutants: the length taken for the last index.
MoveTableTooFar(R, s, delta) ==
    IF R = <<>> THEN None
    ELSE ((IF s = None THEN 0 ELSE s) + delta) % (Len(R) + 1)

\* move_table.
MoveTable(R, s, delta) ==
    IF R = <<>> THEN None
    ELSE ((IF s = None THEN 0 ELSE s) + delta) % Len(R)

\* reload_summary; an Error response leaves the rows that are there.
ReloadSummary ==
    \/ rows' = held /\ old' = Range(held) \cap stale /\ sel' = SelectAfter(held, sel)
    \/ "error" \in World /\ UNCHANGED view

\* maybe_load_detail, asked for the ticker in the selected row; the History
\* call may be answered with an error.
LoadDetail(t, shown, for) ==
    IF t = None
    THEN detail' = None /\ loaded' = for
    ELSE IF for = t /\ shown # None
    THEN detail' = shown /\ loaded' = for
    ELSE detail' \in {t, None} /\ loaded' = t

Go(label) == apc' = label

-----------------------------------------------------------------------------
(* Handing a job to the worker: submit, and the slot claimed at once.      *)

Alive == wpc # "gone"

\* Slip for the mutants: the slot is left to the Started update.
SubmitUnclaimed(j) ==
    /\ Alive
    /\ jobs' = Append(jobs, j)
    /\ UNCHANGED job

Submit(j) ==
    /\ Alive
    /\ jobs' = Append(jobs, j)
    /\ job' = j.kind

NoSubmit == UNCHANGED <<job, jobs>>

ToRefresh(force) == IF force THEN Range(rows) ELSE old

\* start_refresh of the holdings R.  Whether the provider is ready has been
\* asked for just before, by boot or the r or R key.
StartRefresh(isReady, R, force) ==
    IF job = None /\ isReady /\ R # {} /\ Alive
    THEN Submit([kind |-> "Refresh", tickers |-> R, side |-> "Buy", force |-> force])
    ELSE NoSubmit

-----------------------------------------------------------------------------
Init ==
    /\ apc = "boot"
    /\ tab = "Portfolio"
    /\ form = [side |-> "Buy", field |-> "Ticker", mode |-> "Nav",
               ticker |-> None, shares |-> "blank", price |-> "blank"]
    /\ rows = <<>> /\ old = {} /\ sel = 0
    /\ detail = None /\ loaded = None
    /\ job = None
    /\ batch = <<>> /\ jobs = <<>> /\ updates = <<>>
    /\ wpc = "idle" /\ work = NoWork /\ todo = {}
    /\ held \in Lists
    /\ stale \in SUBSET Tickers
    /\ ready \in BOOLEAN

\* App::boot, with its automatic catching up (compute_max_staleness_days is
\* 1 or more just when a row is old, no price being dated in the future).
Boot ==
    /\ apc = "boot"
    /\ ReloadSummary
    /\ StartRefresh(ready, old', FALSE)
    /\ Go("drain")
    /\ UNCHANGED <<tab, form, chart, batch, updates, worker, daemon>>

(* A pass of the event loop: pump_worker, then a key or the poll's timeout. *)
Drain ==
    /\ apc = "drain"
    /\ batch' = updates
    /\ updates' = <<>>
    /\ Go("fold")
    /\ UNCHANGED <<app, job, jobs, worker, daemon>>

Folded ==
    /\ apc = "fold" /\ batch = <<>>
    /\ Go("key")
    /\ UNCHANGED <<app, job, batch, channel, worker, daemon>>

Folding(kinds) ==
    /\ apc = "fold" /\ batch # <<>> /\ Head(batch) \in kinds
    /\ batch' = Tail(batch)
    /\ UNCHANGED <<apc, channel, worker, daemon>>

FoldProgress ==
    /\ Folding({"Started", "Progress"})
    /\ UNCHANGED <<tab, form, view, chart, job>>

\* Slip for the mutants: the chart is kept while the same tickers are held.
FoldRefreshedKeeping ==
    /\ Folding({"Refreshed"})
    /\ job' = None
    /\ ReloadSummary
    /\ IF tab = "Detail" /\ Range(rows') # Range(rows)
       THEN LoadDetail(Selected(rows', sel'), None, None) ELSE UNCHANGED chart
    /\ UNCHANGED <<tab, form>>

FoldRefreshed ==
    /\ Folding({"Refreshed"})
    /\ job' = None
    /\ ReloadSummary
    /\ IF tab = "Detail" THEN LoadDetail(Selected(rows', sel'), None, None) ELSE UNCHANGED chart
    /\ UNCHANGED <<tab, form>>

FoldTraded ==
    /\ Folding({"Traded"})
    /\ job' = None
    /\ form' = [form EXCEPT !.shares = "blank", !.price = "blank", !.mode = "Nav"]
    /\ ReloadSummary
    /\ tab' = "Portfolio"
    /\ UNCHANGED chart

\* Slip for the mutants: the slot is kept for a failed trade.
FoldTradeFailedClaimed ==
    /\ Folding({"TradeFailed"})
    /\ UNCHANGED <<tab, form, view, chart, job>>

FoldTradeFailed ==
    /\ Folding({"TradeFailed"})
    /\ job' = None
    /\ UNCHANGED <<tab, form, view, chart>>

FoldDisconnected ==
    /\ Folding({"Disconnected"})
    /\ job' = None
    /\ UNCHANGED <<tab, form, view, chart>>

-----------------------------------------------------------------------------
(* Keys.  on_key looks at Ctrl-Q first, then Esc, then the edit mode.      *)

Capturing == tab = "Trade" /\ form.mode = "Edit"

Press(k) ==
    /\ apc = "key" /\ k \in Keys
    /\ Go("drain")
    /\ UNCHANGED <<batch, updates, worker, daemon>>

\* The poll times out, or the key has no binding where the user is.
NoKey ==
    /\ apc = "key"
    /\ Go("drain")
    /\ UNCHANGED <<app, job, batch, channel, worker, daemon>>

Quit ==
    /\ apc = "key" /\ "Quit" \in Keys
    /\ Go("quit")
    /\ UNCHANGED <<app, job, batch, channel, worker, daemon>>

Esc ==
    /\ Press("Esc") /\ NoSubmit
    /\ form' = IF Capturing THEN [form EXCEPT !.mode = "Nav"] ELSE form
    /\ tab' = IF tab = "Trade" /\ ~Capturing THEN "Portfolio" ELSE tab
    /\ UNCHANGED <<view, chart>>

(* The form. *)
NextField(field, side) ==
    CASE field = "Ticker" -> "Shares"
      [] field = "Shares" -> IF side = "Buy" THEN "Price" ELSE "Ticker"
      [] field = "Price"  -> "Ticker"

PrevField(field, side) ==
    CASE field = "Ticker" -> IF side = "Buy" THEN "Price" ELSE "Shares"
      [] field = "Shares" -> "Ticker"
      [] field = "Price"  -> "Shares"

InForm(k, f) ==
    /\ Press(k) /\ NoSubmit
    /\ form' = f
    /\ UNCHANGED <<tab, view, chart>>

StepField ==
    /\ tab = "Trade"
    /\ \E k \in (IF Capturing THEN {"Tab"} ELSE {"Down"}) :
           InForm(k, [form EXCEPT !.field = NextField(@, form.side)])

StepFieldBack ==
    /\ tab = "Trade"
    /\ \E k \in (IF Capturing THEN {"BackTab"} ELSE {"Up"}) :
           InForm(k, [form EXCEPT !.field = PrevField(@, form.side)])

Flip ==
    /\ Capturing
    /\ InForm("Flip", [form EXCEPT !.side = IF @ = "Buy" THEN "Sell" ELSE "Buy"])

TypeInto ==
    /\ Capturing
    /\ CASE form.field = "Ticker" ->
              \E t \in Tickers \cup {None} : InForm("Type", [form EXCEPT !.ticker = t])
         [] form.field = "Shares" ->
              \E v \in Typed : InForm("Type", [form EXCEPT !.shares = v])
         [] form.field = "Price" ->
              \E v \in Typed : InForm("Type", [form EXCEPT !.price = v])

StartEditing ==
    /\ tab = "Trade" /\ ~Capturing
    /\ InForm("Enter", [form EXCEPT !.mode = "Edit"])

\* submit_trade; a form with a mistake, a job in the slot or a worker that
\* is gone only change the status line.
SubmitTrade ==
    /\ Capturing /\ Press("Enter")
    /\ IF /\ form.ticker # None
          /\ form.shares = "good"
          /\ form.side = "Buy" => form.price # "bad"
          /\ job = None
          /\ Alive
       THEN Submit([kind |-> "Trade", tickers |-> {form.ticker}, side |-> form.side,
                    force |-> FALSE])
       ELSE NoSubmit
    /\ UNCHANGED app

\* b and s: start_trade.
StartTrade(k, side) ==
    /\ ~Capturing /\ Press(k) /\ NoSubmit
    /\ tab' = "Trade"
    /\ LET t == Selected(rows, sel)
       IN  form' = [side |-> side, mode |-> "Edit",
                    field  |-> IF t # None THEN "Shares" ELSE "Ticker",
                    ticker |-> IF t # None THEN t ELSE form.ticker,
                    shares |-> "blank", price |-> "blank"]
    /\ UNCHANGED <<view, chart>>

(* Tabs and rows. *)
\* A key that shows another tab: Detail loads its chart, and Trade, reached
\* any way but by b or s, comes up in navigation mode.
GoTo(k, t) ==
    /\ ~Capturing /\ Press(k) /\ NoSubmit
    /\ tab' = t
    /\ form' = IF t = "Trade" THEN [form EXCEPT !.mode = "Nav"] ELSE form
    /\ IF t = "Detail" THEN LoadDetail(Selected(rows, sel), detail, loaded) ELSE UNCHANGED chart
    /\ UNCHANGED view

CycleTab ==
    LET here == CHOOSE i \in 1..4 : Tabs[i] = tab
    IN  \/ GoTo("Tab", Tabs[(here % 4) + 1])
        \/ GoTo("BackTab", Tabs[((here + 2) % 4) + 1])

Jump == \/ GoTo("1", "Portfolio") \/ GoTo("2", "Detail")
        \/ GoTo("3", "Trade")     \/ GoTo("4", "Transactions")

OpenDetail == tab = "Portfolio" /\ GoTo("Enter", "Detail")

MoveCursor(k, delta) ==
    /\ tab \in {"Portfolio", "Detail"}
    /\ Press(k) /\ NoSubmit
    /\ sel' = MoveTable(rows, sel, delta)
    /\ IF tab = "Detail" THEN LoadDetail(Selected(rows, sel'), None, None) ELSE UNCHANGED chart
    /\ UNCHANGED <<tab, form, rows, old>>

\* r and R: reload_provider, then start_refresh.
Refresh(k, force) ==
    /\ ~Capturing /\ Press(k)
    /\ StartRefresh(ready, ToRefresh(force), force)
    /\ UNCHANGED <<tab, form, view, chart>>

Key ==
    \/ NoKey \/ Quit \/ Esc
    \/ StepField \/ StepFieldBack \/ Flip \/ TypeInto \/ StartEditing \/ SubmitTrade
    \/ StartTrade("b", "Buy") \/ StartTrade("s", "Sell")
    \/ CycleTab \/ Jump \/ OpenDetail
    \/ MoveCursor("Up", -1) \/ MoveCursor("Down", 1)
    \/ Refresh("r", FALSE) \/ Refresh("R", TRUE)

\* A call of the loop's own fails: ? ends the program.
AppLost ==
    /\ "disconnect" \in World
    /\ \/ apc \in {"boot", "key"}
       \/ apc = "fold" /\ batch # <<>> /\ Head(batch) \in {"Refreshed", "Traded"}
    /\ Go("quit")
    /\ UNCHANGED <<app, job, batch, channel, worker, daemon>>

-----------------------------------------------------------------------------
(* The worker thread, which lives as long as the process.                  *)

Send(u) == updates' = Append(updates, u)

WorkerAt(here, there) ==
    /\ apc # "quit"
    /\ wpc = here /\ wpc' = there
    /\ UNCHANGED <<apc, app, job, batch, ready>>

Take ==
    /\ WorkerAt("idle", "next")
    /\ jobs # <<>>
    /\ work' = Head(jobs) /\ jobs' = Tail(jobs)
    /\ todo' = Head(jobs).tickers
    /\ Send("Started")
    /\ UNCHANGED <<held, stale>>

Announce ==
    /\ WorkerAt("next", "call")
    /\ todo # {}
    /\ Send("Progress")
    /\ UNCHANGED <<jobs, work, todo, held, stale>>

\* What the daemon does for a request about t.
Served(t) ==
    \/ /\ work.kind = "Refresh"
       /\ held' \in Revalued(t, Range(held))
       /\ stale' = stale \ {t}
    \/ /\ work.kind = "Trade" /\ work.side = "Buy"
       /\ held' \in Revalued(t, Range(held) \cup {t})
       /\ stale' \in {stale, stale \ {t}}
    \/ /\ work.kind = "Trade" /\ work.side = "Sell"
       /\ t \in Range(held)
       /\ held' \in Revalued(t, Range(held)) \cup Revalued(t, Range(held) \ {t})
       /\ stale' = stale

Refused == held' = held /\ stale' = stale

AnswerRefresh ==
    /\ work.kind = "Refresh"
    /\ WorkerAt("call", "next")
    /\ \E t \in todo : (Served(t) \/ Refused) /\ todo' = todo \ {t}
    /\ UNCHANGED <<channel, work>>

FinishRefresh ==
    /\ WorkerAt("next", "idle")
    /\ todo = {}
    /\ work' = NoWork
    /\ Send("Refreshed")
    /\ UNCHANGED <<jobs, todo, held, stale>>

AnswerTrade ==
    /\ work.kind = "Trade"
    /\ WorkerAt("call", "idle")
    /\ work' = NoWork /\ todo' = {}
    /\ \/ (\E t \in todo : Served(t)) /\ Send("Traded")
       \/ Refused /\ Send("TradeFailed")
    /\ UNCHANGED jobs

\* The connection breaks under the call, before or after it was carried out.
Lose ==
    /\ "disconnect" \in World
    /\ WorkerAt("call", "closing")
    /\ (\E t \in todo : Served(t)) \/ Refused
    /\ Send("Disconnected")
    /\ work' = NoWork /\ todo' = {}
    /\ UNCHANGED jobs

\* The closure returns and drops its receiver, with what is queued in it.
Die ==
    /\ WorkerAt("closing", "gone")
    /\ jobs' = <<>>
    /\ UNCHANGED <<updates, work, todo, held, stale>>

-----------------------------------------------------------------------------
(* Other clients, the daemon's own sweeps, and the calendar.               *)
Elsewhere(event) ==
    /\ event \in World /\ apc # "quit"
    /\ UNCHANGED <<apc, tab, form, rows, sel, chart, job, batch, channel, worker>>

OthersTrade(t) ==
    /\ Elsewhere("trade")
    /\ held' \in Revalued(t, Range(held) \cup {t}) \cup Revalued(t, Range(held) \ {t})
    /\ UNCHANGED <<old, stale, ready>>

Sweep(t) ==
    /\ Elsewhere("sweep")
    /\ ready /\ t \in Range(held) \cap stale
    /\ held' \in Revalued(t, Range(held))
    /\ stale' = stale \ {t}
    /\ UNCHANGED <<old, ready>>

ProviderChanges ==
    /\ Elsewhere("provider")
    /\ ready' = ~ready
    /\ UNCHANGED <<old, held, stale>>

Midnight ==
    /\ Elsewhere("midnight")
    /\ stale' = Tickers /\ old' = Range(rows)
    /\ UNCHANGED <<held, ready>>

-----------------------------------------------------------------------------
Fold == FoldProgress \/ FoldRefreshed \/ FoldTraded \/ FoldTradeFailed \/ FoldDisconnected

Loop == Boot \/ Drain \/ Fold \/ Folded \/ Key \/ AppLost

Work == Take \/ Announce \/ AnswerRefresh \/ FinishRefresh \/ AnswerTrade \/ Lose \/ Die

Outside == (\E t \in Tickers : OthersTrade(t) \/ Sweep(t)) \/ ProviderChanges \/ Midnight

Next == Loop \/ Work \/ Outside

Spec == Init /\ [][Next]_vars

(* The loop wakes at least every 120 ms; the worker thread is scheduled,   *)
(* and its calls are answered, since every request of the daemon ends.     *)
FairSpec == Spec /\ WF_vars(Loop) /\ WF_vars(Work)

-----------------------------------------------------------------------------
\* The cursor is on a row there could be, jobs and forms are well formed
\* (app.rs 690-716, 482-535).
TypeOK ==
    /\ apc \in {"boot", "drain", "fold", "key", "quit"}
    /\ tab \in {Tabs[i] : i \in 1..4} /\ form \in Forms
    /\ rows \in Lists /\ old \subseteq Range(rows)
    /\ sel \in 0..(Cardinality(Tickers) - 1) \cup {None}
    /\ detail \in Tickers \cup {None} /\ loaded \in Tickers \cup {None}
    /\ job \in {"Refresh", "Trade", None}
    /\ jobs \in Seq(Jobs) /\ updates \in Seq(Updates) /\ batch \in Seq(Updates)
    /\ wpc \in {"idle", "next", "call", "closing", "gone"}
    /\ work \in Jobs \cup {NoWork} /\ todo \subseteq Tickers
    /\ held \in Lists /\ stale \subseteq Tickers /\ ready \in BOOLEAN

Ends == {"Refreshed", "Traded", "TradeFailed", "Disconnected"}

\* Jobs queued, in the worker's hands, or over but for being folded in.
Outstanding ==
    LET heard == batch \o updates
    IN  Len(jobs) + (IF wpc \in {"next", "call"} THEN 1 ELSE 0)
          + Cardinality({i \in 1..Len(heard) : heard[i] \in Ends})

(* "The job in flight, if any [...] blocks a second job from being queued  *)
(* behind it" (app.rs 98-99): the slot is taken exactly while there is one *)
(* job that is queued, running, or finished and not yet folded in, so no   *)
(* two keypresses ever spend the allowance, or trade, twice.               *)
SlotIsTheJob == Outstanding = IF job = None THEN 0 ELSE 1

(* The half of it that survives a broken connection: no job is ever queued *)
(* or run beside another, or without the slot that shows it.               *)
NoSecondJob == Outstanding <= IF job = None THEN 0 ELSE 1

(* While there are rows one of them is selected, whatever other clients    *)
(* sold since: reload_summary clamps the cursor to the rows it brings.     *)
SelectionShown == rows # <<>> /\ apc # "boot" => Selected(rows, sel) # None

(* The chart on the Detail tab is of the selected holding, through keys    *)
(* and through refreshes that bring fewer, more or reordered rows: the     *)
(* cursor keeps its row, so a new price or a trade elsewhere may put       *)
(* another holding under it without a key being pressed.                   *)
DetailMatches == tab = "Detail" /\ detail # None => detail = Selected(rows, sel)

(* A job that was handed over lands, and frees the slot for the next one,  *)
(* unless the connection breaks (then DeadWorker.cfg shows what happens).  *)
JobLands == job # None ~> job = None \/ apc = "quit" \/ wpc \in {"closing", "gone"}
=============================================================================
