-------------------------------- MODULE MCBook --------------------------------
(***************************************************************************)
(* Model checking of the abstract book, and of the portfolio arithmetic on *)
(* every ledger the book can reach.                                        *)
(***************************************************************************)
EXTENDS Accounts

\* Two tickers; lots 1 (dust, = Eps), 3 and 4, so that sales leave a rest,
\* nothing, dust or a short.  A close of zero is a price too; and since a cost
\* is linear in the prices, prices of 0 and 3 tell whose cost is in it.
MCTickers == {"A", "B"}
MCPrices  == {0, 3}
MCLots    == {1, 3, 4}

ASSUME MCAssumption == NoneIsAbsent

(* The percentage in the table is that under the chart, two views of one   *)
(* holding (portfolio.rs 62 and 114).                                      *)
GainsAgree ==
    LET rows == P!summary(ledger, quote, None).rows
    IN  \A t \in DOMAIN rows :
            P!Same(rows[t].gain_pct, P!history(ledger, t, quote, None).holding.gain_pct)
=============================================================================
