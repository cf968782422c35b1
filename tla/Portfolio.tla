------------------------------- MODULE Portfolio -------------------------------
(***************************************************************************)
(* The pure arithmetic of the ledger: crates/tickerd/src/portfolio.rs and  *)
(* the SQL aggregate of db.rs.  A ledger is a sequence of transactions     *)
(* [ticker, shares, price], oldest first; a sale has negative shares.      *)
(*                                                                         *)
(* Shares are counted in units of 1e-9 share, so the code's tolerance 1e-9 *)
(* is the constant Eps (1 in every run).  Money is exact: an amount is the *)
(* fraction num/den (den > 0) where the code has an f64, and f64 rounding  *)
(* is not modelled.  Percentages are left as ratios.                       *)
(***************************************************************************)
EXTENDS Sums, FiniteSetsExt

CONSTANT Eps

\* A position before its first transaction.
Flat == [shares |-> 0, num |-> 0, den |-> 1]

\* portfolio.rs, a row with shares >= 0.
Bought(pos, t) ==
    [pos EXCEPT !.shares = @ + t.shares, !.num = @ + t.shares * t.price * pos.den]

\* Slips for the mutants: the cost survives the sale; the .max(0.0) is gone;
\* a sale from nothing is skipped.
SoldKeepsCost(pos, t) == [pos EXCEPT !.shares = @ + t.shares]

SoldBelowZero(pos, t) ==
    IF pos.shares > 0
    THEN [shares |-> pos.shares + t.shares,
          num    |-> (pos.shares + t.shares) * pos.num,
          den    |-> pos.shares * pos.den]
    ELSE [pos EXCEPT !.shares = @ + t.shares]

SoldOnlyIfLong(pos, t) ==
    IF pos.shares > 0
    THEN [shares |-> pos.shares + t.shares,
          num    |-> Max({pos.shares + t.shares, 0}) * pos.num,
          den    |-> pos.shares * pos.den]
    ELSE pos

\* portfolio.rs, a row with shares < 0: a sale from a long position keeps the
\* average cost of what is left, never below zero; a sale from nothing moves
\* the share count only.
Sold(pos, t) ==
    IF pos.shares > 0
    THEN [shares |-> pos.shares + t.shares,
          num    |-> Max({pos.shares + t.shares, 0}) * pos.num,
          den    |-> pos.shares * pos.den]
    ELSE [pos EXCEPT !.shares = @ + t.shares]

Apply(pos, t) == IF t.shares >= 0 THEN Bought(pos, t) ELSE Sold(pos, t)

\* The position the replay of a ticker's rows reaches, before the final retain.
Replayed(txns, ticker) ==
    LET pos[n \in 0 .. Len(txns)] ==
            IF n = 0 THEN Flat
            ELSE IF txns[n].ticker = ticker THEN Apply(pos[n - 1], txns[n]) ELSE pos[n - 1]
    IN  pos[Len(txns)]

TickersOf(txns) == {txns[i].ticker : i \in DOMAIN txns}

\* The map portfolio::positions returns: dust and shorts are not positions.
positions(txns) ==
    [ticker \in {k \in TickersOf(txns) : Replayed(txns, k).shares > Eps}
        |-> Replayed(txns, ticker)]

\* SUM(shares) over the rows of a ticker, the aggregate SQLite computes.
SqlSum(txns, ticker) ==
    SumOf([i \in 1 .. Len(txns) |-> IF txns[i].ticker = ticker THEN txns[i].shares ELSE 0])

held_tickers(txns) == {k \in TickersOf(txns) : SqlSum(txns, k) > Eps}

-----------------------------------------------------------------------------
(* What the clients are shown, the money fields and gain_pct as fractions. *)
(* `quote' maps a ticker to its cached price, None when there is no row.   *)

Fractions == [num : Int, den : Int]

Holdings ==
    [shares : Int, avg : Fractions, price : Int, value : Int,
     cost : Fractions, gain : Fractions, gain_pct : Fractions]

Frac(n, d) == [num |-> n, den |-> d]

Same(f, g) == f.num * g.den = g.num * f.den

Minus(int, frac) == Frac(int * frac.den - frac.num, frac.den)

\* (price - avg) / avg.
Growth(avg, price) == Frac(price * avg.den - avg.num, avg.num)

Row(pos, price) ==
    LET cost == Frac(pos.num, pos.den)
        avg  == IF pos.shares > 0 THEN Frac(pos.num, pos.den * pos.shares) ELSE Frac(0, 1)
    IN  [shares   |-> pos.shares,
         avg      |-> avg,
         price    |-> price,
         value    |-> pos.shares * price,
         cost     |-> cost,
         gain     |-> Minus(pos.shares * price, cost),
         gain_pct |-> IF avg.num > 0 /\ price > 0 THEN Growth(avg, price) ELSE Frac(0, 1)]

\* portfolio::summary: a holding without a cached price is shown at 0.
summary(txns, quote, none) ==
    LET held == positions(txns)
        rows == [k \in DOMAIN held |-> Row(held[k], IF quote[k] = none THEN 0 ELSE quote[k])]
    IN  [rows |-> rows, total_value |-> MapThenSumSet(LAMBDA k : rows[k].value, DOMAIN rows)]

\* Slip for the mutants: the cost of the whole holding for that of a share.
HoldingAtCost(pos, price) ==
    LET cost == Frac(pos.num, pos.den)
    IN  [shares |-> pos.shares, avg |-> cost, price |-> price, value |-> pos.shares * price,
         cost |-> cost, gain |-> Minus(pos.shares * price, cost),
         gain_pct |-> IF cost.num > 0 THEN Growth(cost, price) ELSE Frac(0, 1)]

\* The holding portfolio::history shows beside a chart, computed anew.
Holding(pos, price) ==
    LET cost == Frac(pos.num, pos.den)
        avg  == Frac(pos.num, pos.den * pos.shares)
    IN  [shares |-> pos.shares, avg |-> avg, price |-> price, value |-> pos.shares * price,
         cost |-> cost, gain |-> Minus(pos.shares * price, cost),
         gain_pct |-> IF avg.num > 0 THEN Growth(avg, price) ELSE Frac(0, 1)]

\* portfolio::history: nothing without a cached price; no holding when none is held.
history(txns, ticker, quote, none) ==
    IF quote[ticker] = none THEN none
    ELSE LET held == positions(txns)
         IN  [current_price |-> quote[ticker],
              holding |-> IF ticker \in DOMAIN held THEN Holding(held[ticker], quote[ticker]) ELSE none]
=============================================================================
