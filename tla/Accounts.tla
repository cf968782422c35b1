------------------------------- MODULE Accounts -------------------------------
(***************************************************************************)
(* What the arithmetic of Portfolio.tla makes of the ledger of Book.tla:   *)
(* that its two ways of adding up agree, what the cost basis of a holding  *)
(* has to be, and what the clients are shown.                              *)
(***************************************************************************)
EXTENDS Book, Sums

P == INSTANCE Portfolio

\* An absent reply, or half of one, can be told from any that is present.
NoneIsAbsent ==
    None \notin P!Holdings \cup [current_price : Prices, holding : P!Holdings \cup {None}]

\* The ledger when it had n transactions.
Until(n) == SubSeq(ledger, 1, n)

Traded(t) == {i \in DOMAIN ledger : ledger[i].ticker = t}

-----------------------------------------------------------------------------
(* The two ways the code adds up a ledger agree with each other and with   *)
(* the running total the specifications keep: the replay of portfolio.rs   *)
(* (which branches on the sign of row and position) and the SQL SUM of     *)
(* db.rs list the same holdings, so that a refresh covers exactly the rows *)
(* summary shows.                                                          *)
ReplayIsSum ==
    /\ \A t \in Tickers : P!Replayed(ledger, t).shares = net[t]
    /\ P!held_tickers(ledger) = DOMAIN P!positions(ledger)

-----------------------------------------------------------------------------
(* Reference for the cost basis, without a running average: every buy is   *)
(* carried at its price, scaled by the fraction of the holding that each   *)
(* later sale left over.                                                   *)
Before(t, j) == P!SqlSum(Until(j - 1), t)

Left(t, j) == P!Max({P!SqlSum(Until(j), t), 0})

LongSales(t) == {j \in Traded(t) : ledger[j].shares < 0 /\ Before(t, j) > 0}

CarriedDen(t) ==
    LET sales == LongSales(t)
    IN  ProductOf([j \in 1 .. Len(ledger) |-> IF j \in sales THEN Before(t, j) ELSE 1])

Carried(t, i) ==
    LET sales == LongSales(t)
    IN  ledger[i].shares * ledger[i].price * ProductOf(
            [j \in 1 .. Len(ledger) |->
                IF j \in sales THEN IF j > i THEN Left(t, j) ELSE Before(t, j) ELSE 1])

CarriedNum(t) ==
    SumOf([i \in 1 .. Len(ledger) |->
        IF i \in Traded(t) /\ ledger[i].shares > 0 THEN Carried(t, i) ELSE 0])

(* The running-average replay computes the carried cost: no order of buys  *)
(* and sales, oversold dust included, loses or invents cost basis          *)
(* (portfolio.rs 26-40).                                                   *)
CostIsCarried ==
    \A t \in Tickers :
        LET pos == P!Replayed(ledger, t)
        IN  pos.num * CarriedDen(t) = CarriedNum(t) * pos.den

-----------------------------------------------------------------------------
Paid(t) == {ledger[i].price : i \in {j \in Traded(t) : ledger[j].shares > 0}}

NeverShort(t) == \A n \in 0 .. Len(ledger) : P!SqlSum(Until(n), t) >= 0

(* The average cost shown for a holding that was never oversold lies       *)
(* between the lowest and the highest price paid for it, after any         *)
(* sequence of partial sales (portfolio.rs 57, 67-78).                     *)
AverageWithinPaid ==
    LET shown == P!summary(ledger, quote, None).rows
    IN  \A t \in DOMAIN shown :
            NeverShort(t) => LET avg == shown[t].avg
                             IN  \E low, high \in Paid(t) :
                                     low * avg.den <= avg.num /\ avg.num <= high * avg.den

\* The table takes a price of zero or less for none and shows no change; the
\* chart shows that all is lost, or more, of whatever has cost anything.
LostUntold(row, shown) ==
    /\ row.gain_pct.num = 0
    /\ shown.gain_pct.num = 0 \/ shown.gain_pct.num <= -shown.gain_pct.den

Agrees(field, row, shown) ==
    CASE field \in {"shares", "price", "value"} -> row[field] = shown[field]
      [] field = "gain_pct" /\ row.price <= 0 -> LostUntold(row, shown)
      [] OTHER -> P!Same(row[field], shown[field])

(* The Holdings table and the line under a chart are computed by separate  *)
(* code from separate requests; of one ledger and one cache they say the   *)
(* same of every holding, and a chart shows a holding just when the table  *)
(* has it (portfolio.rs 51-79 and 101-118).  The only exception is the     *)
(* percentage at a price of zero or less (the guards at 62 and 114), which *)
(* is off by just the loss of everything.                                  *)
HoldingsAgree ==
    LET rows == P!summary(ledger, quote, None).rows
    IN  \A t \in Tickers :
            LET shown == P!history(ledger, t, quote, None)
            IN  /\ t \in DOMAIN rows => shown # None
                /\ shown # None =>
                       /\ t \in DOMAIN rows <=> shown.holding # None
                       /\ shown.holding # None =>
                              \A field \in DOMAIN rows[t] : Agrees(field, rows[t], shown.holding)
=============================================================================
