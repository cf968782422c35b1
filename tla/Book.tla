--------------------------------- MODULE Book ---------------------------------
(***************************************************************************)
(* What tickerd promises its clients: a paper trading book.  A trade is    *)
(* one indivisible step that appends to an append-only ledger; a ticker is *)
(* traded only once it has a quote, a quote once known is only ever        *)
(* replaced, a sale fills at the quote of that instant and takes at most   *)
(* what is held (give or take Eps, the code's float tolerance).            *)
(*                                                                         *)
(* Daemon.tla, the concurrent handlers, implements this specification.     *)
(***************************************************************************)
EXTENDS Integers, Sequences, FiniteSets

CONSTANTS Tickers,    \* the ticker symbols
          Prices,     \* prices a trade can be filled at
          Lots,       \* share counts of a trade, in units of 1e-9 share
          Eps,        \* tolerance of the code's share comparisons
          MaxLedger,  \* bound: transactions explored
          None        \* no cached price

ASSUME BookAssumption ==
    /\ Prices \subseteq Int
    /\ Lots \subseteq Nat \ {0}
    /\ Eps \in Nat
    /\ MaxLedger \in Nat
    /\ None \notin Prices

VARIABLES ledger,  \* the transactions table, oldest first
          net,     \* shares bought minus shares sold, per ticker
          quote    \* cached price per ticker, or None

vars == <<ledger, net, quote>>

Txn == [ticker : Tickers, shares : Int, price : Prices]

\* Only more than Eps counts as a holding (the retain of portfolio::positions).
Held(t) == IF net[t] > Eps THEN net[t] ELSE 0

-----------------------------------------------------------------------------
Init ==
    /\ ledger = <<>>
    /\ net = [t \in Tickers |-> 0]
    /\ quote = [t \in Tickers |-> None]

\* Db::insert_transaction.
Insert(t, shares, price) ==
    /\ Len(ledger) < MaxLedger
    /\ ledger' = Append(ledger, [ticker |-> t, shares |-> shares, price |-> price])
    /\ net' = [net EXCEPT ![t] = @ + shares]

Quote(t, price) ==
    /\ quote' = [quote EXCEPT ![t] = price]
    /\ UNCHANGED <<ledger, net>>

Buy(t, lot, price) ==
    /\ quote[t] # None
    /\ Insert(t, lot, price)
    /\ UNCHANGED quote

\* Slips for the mutants: no oversell check; no refusal without a price.
SellUnchecked(t, lot) ==
    /\ quote[t] # None
    /\ Insert(t, -lot, quote[t])
    /\ UNCHANGED quote

SellUnpriced(t, lot) ==
    /\ lot <= Held(t) + Eps
    /\ Insert(t, -lot, quote[t])
    /\ UNCHANGED quote

Sell(t, lot) ==
    /\ quote[t] # None
    /\ lot <= Held(t) + Eps
    /\ Insert(t, -lot, quote[t])
    /\ UNCHANGED quote

Next ==
    \E t \in Tickers :
        \/ \E p \in Prices : Quote(t, p)
        \/ \E lot \in Lots, p \in Prices : Buy(t, lot, p)
        \/ \E lot \in Lots : Sell(t, lot)

Spec == Init /\ [][Next]_vars

-----------------------------------------------------------------------------
\* Every trade on record has a known symbol and a price (never None).
TypeOK ==
    /\ ledger \in Seq(Txn)
    /\ Len(ledger) <= MaxLedger
    /\ net \in [Tickers -> Int]
    /\ quote \in [Tickers -> Prices \cup {None}]

\* The sales of a ticker on record.
Sales(t) == {i \in DOMAIN ledger : ledger[i].ticker = t /\ ledger[i].shares < 0}

(* The tolerance of the oversell check is per sale and it accumulates: a   *)
(* ticker may be short, but never by more than Eps for every sale of it on *)
(* record.  (Several sales of several handlers are needed to tell this     *)
(* from "never short": server.rs 404-443.)                                 *)
ShortBounded == \A t \in Tickers : net[t] >= -Eps * Cardinality(Sales(t))
=============================================================================
