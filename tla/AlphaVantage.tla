----------------------------- MODULE AlphaVantage -----------------------------
(***************************************************************************)
(* AlphaVantage::fetch from the limiter to its result, in a daemon that    *)
(* may die and be started again, and the chart a History reply makes of    *)
(* the result.                                                             *)
(*                                                                         *)
(* The limiter is a static of the process (Throttle.tla): a new process    *)
(* knows nothing of what the one before sent, and what that one sent may   *)
(* still be on its way.  A close is an integer, or one of the texts that   *)
(* are no finite number.  Left out: the wording of errors, the key.        *)
(***************************************************************************)
EXTENDS Throttle, FiniteSets, Sums

CONSTANTS
    Responses,   \* what a request may come to
    Today,       \* the UTC date
    Window,      \* of the bands: 20 in portfolio.rs
    MaxRestarts, \* bound: daemons started after the first
    None         \* an absent Option; no result

Closes(r) == {r.series[d] : d \in DOMAIN r.series}

ASSUME AlphaVantageAssumption ==
    /\ \A r \in Responses :
           /\ {r.sent, r.success, r.json, r.error, r.notice} \subseteq BOOLEAN
           /\ r.series # None => DOMAIN r.series \subseteq 1 .. Today
    /\ Today \in Nat /\ Window \in Nat \ {0}
    /\ MaxRestarts \in Nat
    /\ None \notin Int

VARIABLES
    restarts, \* daemons started after the first
    wire,     \* requests on their way whose daemon has died, by its number and their age
    since,    \* time since any daemon's request reached the provider, up to Published
    early,    \* requests that reached it sooner than published
    answer    \* what the request that has just come to something came to, or None

provider == <<wire, since, early>>
avars    == <<vars, restarts, provider, answer>>

-----------------------------------------------------------------------------
(* What fetch makes of a response.                                         *)

Failed == [points |-> <<>>, price |-> None, fetched_on |-> None]

\* The days whose close parses and is finite.
UsableDays(series) == {d \in DOMAIN series : series[d] \in Int}

\* They come in the order of BTreeMap.
OldestFirst(series) ==
    LET upto[d \in 0 .. Today] ==
            IF d = 0 THEN <<>>
            ELSE IF d \in UsableDays(series) THEN Append(upto[d - 1], d) ELSE upto[d - 1]
    IN  upto[Today]

Points(series) ==
    LET days == OldestFirst(series)
    IN  [i \in 1 .. Len(days) |-> [date |-> days[i], close |-> series[days[i]]]]

\* Failures come with HTTP 200 too: a notice outweighs a series beside it.
Accepted(r) == r.sent /\ r.success /\ r.json /\ ~r.error /\ ~r.notice /\ r.series # None

Result(r) ==
    LET points == IF Accepted(r) THEN Points(r.series) ELSE <<>>
    IN  IF points = <<>> THEN Failed
        ELSE [points |-> points, price |-> points[Len(points)].close, fetched_on |-> Today]

(* What history makes of the stored result: a mean over the window is its  *)
(* sum over Window, a variance dev over Window^3.                          *)
NoBand == [sum |-> None, dev |-> None]

Square(x) == x * x

Band(w) ==
    LET sum == SumOf(w)
    IN  [sum |-> sum, dev |-> SumOf([j \in 1 .. Len(w) |-> Square(Window * w[j] - sum)])]

\* Slip for the mutants: the first full window is missed and the others lag.
LaggingBands(closes) ==
    [i \in 1 .. Len(closes) |->
        IF i <= Window THEN NoBand ELSE Band(SubSeq(closes, i - Window, i - 1))]

bollinger_bands(closes) ==
    [i \in 1 .. Len(closes) |->
        IF i < Window THEN NoBand ELSE Band(SubSeq(closes, i + 1 - Window, i))]

-----------------------------------------------------------------------------
AVInit ==
    /\ Init
    /\ restarts = 0
    /\ wire = {} /\ since = Published /\ early = 0
    /\ answer = None

Pace ==
    /\ \E c \in Callers : Call(c) \/ PassThrough(c) \/ Sleep(c) \/ Wake(c)
    /\ answer' = None
    /\ UNCHANGED <<restarts, provider>>

\* A request reaches the provider.
Reach ==
    /\ since' = 0
    /\ early' = IF since < Published THEN early + 1 ELSE early

Fetched(c) ==
    /\ Arrive(c)
    /\ \E r \in Responses :
           /\ answer' = [of |-> r, result |-> Result(r)]
           /\ IF r.sent THEN Reach ELSE UNCHANGED <<since, early>>
    /\ UNCHANGED <<restarts, wire>>

\* One whose sender has died.
Orphan ==
    /\ \E q \in wire : wire' = wire \ {q}
    /\ Reach
    /\ answer' = None
    /\ UNCHANGED <<vars, restarts>>

TimePasses ==
    /\ \A q \in wire : q.flight < Delay
    /\ Tick
    /\ wire' = {[q EXCEPT !.flight = @ + 1] : q \in wire}
    /\ since' = AtMost(Published, since + 1)
    /\ answer' = None
    /\ UNCHANGED <<restarts, early>>

\* The daemon dies, by whatever, and is started again.
Restart ==
    /\ restarts < MaxRestarts
    /\ restarts' = restarts + 1
    /\ \E kept \in SUBSET {c \in Callers : pc[c] = "released"} :
           wire' = wire \cup {[life |-> restarts, flight |-> flight[c]] : c \in kept}
    /\ pc' = [c \in Callers |-> "idle"]
    /\ queue' = <<>> /\ age' = Interval
    /\ left' = [c \in Callers |-> 0] /\ flight' = [c \in Callers |-> 0]
    /\ gap' = Published
    /\ answer' = None
    /\ UNCHANGED <<since, early>>

AVNext == Pace \/ (\E c \in Callers : Fetched(c)) \/ Orphan \/ TimePasses \/ Restart

AVSpec == AVInit /\ [][AVNext]_avars

(* As for the limiter alone: time passes, so the network delivers what is  *)
(* on it, and what a task is ready to do is done.                          *)
FairAVSpec == AVSpec /\ Fairness

-----------------------------------------------------------------------------
(* What a restart costs: the new daemon sends at once (the time of the     *)
(* last request is in memory, alphavantage.rs 54), while a request of the  *)
(* old one may still be on its way; that is one request too early for each *)
(* restart and no more, however many wait and whenever it died.            *)
OneEarlyPerRestart == early <= restarts

(* Nobody waits for ever: every caller gets its slot, whoever else asks    *)
(* meanwhile (the guard is handed over in order, and every sleep ends),    *)
(* unless the daemon dies.                                                 *)
Served ==
    \A c \in Callers, n \in 0 .. MaxRestarts :
        pc[c] = "queued" /\ restarts = n ~> pc[c] = "released" \/ restarts > n

\* The squared distances between any two of the first n numbers of v.
Spread(v, n) ==
    SumOf([k \in 1 .. n |-> SumOf([j \in 1 .. n |-> Square(v[j] - v[k])])])

\* The window that ends at i, its last day first.
Newest(close, i) == [j \in 1 .. Window |-> close[i + 1 - j]]

SoundChart(series, points, price) ==
    LET close == [i \in DOMAIN points |-> points[i].close]
        bands == bollinger_bands(close)
    IN  /\ \A i, j \in DOMAIN points : i < j => points[i].date < points[j].date
        /\ {points[i].date : i \in DOMAIN points} = UsableDays(series)
        /\ \E d \in UsableDays(series) : price = series[d] /\ \A e \in UsableDays(series) : e <= d
        /\ \A i \in DOMAIN points :
               IF i < Window THEN bands[i] = NoBand
               ELSE /\ bands[i].sum = SumOf(Newest(close, i))
                    /\ 2 * bands[i].dev = Window * Spread(Newest(close, i), Window)

(* What a response to a fetch is good for: it came, as JSON, under a       *)
(* status of success, and says neither that it is an error nor, beside     *)
(* whatever else it holds, that the limit was reached.                     *)
Trustworthy(r) == r.sent /\ r.success /\ r.json /\ ~(r.error \/ r.notice)

(* The chart a History reply draws is of a response that is no failure in  *)
(* disguise (alphavantage.rs 193-217): days in order, at its right edge    *)
(* the price trades fill at, which is the newest finite close of the       *)
(* reply; and "band values aligned 1:1 with points, None for indices       *)
(* < window-1" (ticker-proto lib.rs 181), each the mean of the window that *)
(* ends at its day and a spread equal to that of the distances between its *)
(* closes.  A response that is good and has a finite close is kept.        *)
ChartSound ==
    answer # None =>
        LET r == answer.of
        IN  IF answer.result = Failed
            THEN Trustworthy(r) /\ r.series # None => UsableDays(r.series) = {}
            ELSE Trustworthy(r) /\ SoundChart(r.series, answer.result.points, answer.result.price)
=============================================================================
