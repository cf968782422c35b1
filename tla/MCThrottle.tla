------------------------------ MODULE MCThrottle ------------------------------
(* Three tasks in a fetch, ticks of 100 ms: the free tier is a request per *)
(* ten ticks and the daemon's interval is eleven.  Responses of up to      *)
(* three days, one possibly missing, and every way a request may fail.     *)
EXTENDS AlphaVantage

CONSTANT Garbled  \* a close that is no number, or not a finite one

Texts == {1, 4, Garbled}

AllSeries == UNION {[days -> Texts] : days \in {{}, {1, 3}, 1 .. Today}}

Good(series) ==
    [sent |-> TRUE, success |-> TRUE, json |-> TRUE, error |-> FALSE, notice |-> FALSE,
     series |-> series]

Flat == [d \in 1 .. Today |-> 1]

AllResponses ==
    {Good(series) : series \in AllSeries \cup {None}}
        \cup {[Good(Flat) EXCEPT !.sent = FALSE], [Good(Flat) EXCEPT !.success = FALSE],
              [Good(Flat) EXCEPT !.json = FALSE], [Good(Flat) EXCEPT !.error = TRUE],
              [Good(Flat) EXCEPT !.notice = TRUE]}

\* What matters to the pacing: answered or never sent.
TwoResponses == {Good(Flat), [Good(Flat) EXCEPT !.sent = FALSE]}

-----------------------------------------------------------------------------
(* What documents and comments say and the code does not do, each by a     *)
(* configuration of its own.                                               *)

(* "the daemon paces itself and never sends faster than one request a      *)
(* second" (docs/troubleshooting.md 155-156): here with delays the 10% of  *)
(* headroom does not cover.                                                *)
NeverFaster ==
    [][\A c \in Callers : Arrive(c) => gap >= Published]_vars

(* "Refresh held tickers that don't already have today's close"            *)
(* (ticker-proto lib.rs 100): a row is taken to have it by the date on     *)
(* which it was fetched, whatever the date of its newest close.            *)
StampedHasTodaysClose ==
    answer # None /\ answer.result # Failed =>
        \E i \in DOMAIN answer.result.points :
            answer.result.points[i].date = answer.result.fetched_on
=============================================================================
