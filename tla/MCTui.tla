------------------------------- MODULE MCTui -------------------------------
(* One user at tickerc, with one or two holdings and a subset of the keys. *)
EXTENDS Tui, TLC

\* No action tells one symbol from another.
Symbols == Permutations(Tickers)

(* "r skips anything already stamped with today's UTC date, so pressing it *)
(* repeatedly costs nothing once the day's prices are in" (README 244):    *)
(* what a plain refresh hands over is not of today in the daemon.          *)
SkipsStamped ==
    [][\A i \in 1..Len(jobs') :
         i > Len(jobs) /\ jobs'[i].kind = "Refresh" /\ ~jobs'[i].force
           => jobs'[i].tickers \subseteq stale]_vars

(* "Held here because the form is cleared before the daemon answers"       *)
(* (app.rs 101-102): a trade in flight has left the form empty.            *)
ClearedMeanwhile == job = "Trade" => form.shares = "blank"
=============================================================================
