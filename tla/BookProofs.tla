------------------------------- MODULE BookProofs -------------------------------
(***************************************************************************)
(* Proofs about the abstract book and what the arithmetic of the code      *)
(* makes of its ledger: types, how far short a ticker can get, that        *)
(* whatever was traded has a quote, that both ways of adding up agree, and *)
(* the cost basis of every holding.                                        *)
(***************************************************************************)
EXTENDS Accounts, Induction, FiniteSetTheorems, TLAPS

(* Appending a transaction adds at most its own index to the sales on      *)
(* record of a ticker.                                                     *)
LEMMA SalesOfInsert ==
    ASSUME TypeOK,
           NEW t \in Tickers, NEW shares \in Int, NEW price \in Prices,
           Insert(t, shares, price),
           NEW k \in Tickers
    PROVE  /\ IsFiniteSet(Sales(k))
           /\ Sales(k)' = IF k = t /\ shares < 0
                          THEN Sales(k) \cup {Len(ledger) + 1}
                          ELSE Sales(k)
           /\ Len(ledger) + 1 \notin Sales(k)
<1>1. ledger \in Seq(Txn) /\ Len(ledger) \in Nat /\ DOMAIN ledger = 1 .. Len(ledger)
  BY DEF TypeOK
<1>2. IsFiniteSet(Sales(k))
  <2>1. IsFiniteSet(1 .. Len(ledger))
    BY <1>1, FS_Interval
  <2> QED BY <1>1, <2>1, FS_Subset DEF Sales
<1>3. Len(ledger) + 1 \notin Sales(k)
  BY <1>1 DEF Sales
<1> DEFINE row == [ticker |-> t, shares |-> shares, price |-> price]
<1>4. /\ DOMAIN ledger' = 1 .. (Len(ledger) + 1)
      /\ \A i \in 1 .. Len(ledger) : ledger'[i] = ledger[i]
      /\ ledger'[Len(ledger) + 1] = row
  BY <1>1 DEF Insert, Txn
<1>5. Sales(k)' = {i \in 1 .. (Len(ledger) + 1) : ledger'[i].ticker = k /\ ledger'[i].shares < 0}
  BY <1>4 DEF Sales
<1>6. row.ticker = t /\ row.shares = shares
  OBVIOUS
<1> HIDE DEF row
<1>7. \A i \in 1 .. (Len(ledger) + 1) : i \in 1 .. Len(ledger) \/ i = Len(ledger) + 1
  BY <1>1
<1>8. Len(ledger) + 1 \in 1 .. (Len(ledger) + 1) /\ 1 .. Len(ledger) \subseteq 1 .. (Len(ledger) + 1)
  BY <1>1
<1>9. Sales(k) = {i \in 1 .. Len(ledger) : ledger[i].ticker = k /\ ledger[i].shares < 0}
  BY <1>1 DEF Sales
<1>10. Sales(k)' = IF k = t /\ shares < 0 THEN Sales(k) \cup {Len(ledger) + 1} ELSE Sales(k)
  BY <1>4, <1>5, <1>6, <1>7, <1>8, <1>9, Zenon
<1> QED BY <1>2, <1>3, <1>10

-----------------------------------------------------------------------------
LEMMA InsertType ==
    ASSUME TypeOK,
           NEW t \in Tickers, NEW shares \in Int, NEW price \in Prices,
           Insert(t, shares, price)
    PROVE  /\ ledger' \in Seq(Txn)
           /\ Len(ledger') = Len(ledger) + 1
           /\ Len(ledger') <= MaxLedger
           /\ net' \in [Tickers -> Int]
<1>1. [ticker |-> t, shares |-> shares, price |-> price] \in Txn
  BY DEF Txn
<1>2. ledger' \in Seq(Txn) /\ Len(ledger') = Len(ledger) + 1 /\ Len(ledger') <= MaxLedger
  BY <1>1, BookAssumption DEF TypeOK, Insert
<1>3. net' \in [Tickers -> Int]
  BY DEF TypeOK, Insert
<1> QED BY <1>2, <1>3

(* Every reachable book is well typed; in particular every trade on record *)
(* was filled at a price, never at None.                                   *)
THEOREM TypeCorrect == Spec => []TypeOK
<1> USE BookAssumption
<1>1. Init => TypeOK
  BY DEF Init, TypeOK, Txn
<1>2. TypeOK /\ [Next]_vars => TypeOK'
  <2> SUFFICES ASSUME TypeOK, [Next]_vars
               PROVE  TypeOK'
    OBVIOUS
  <2>1. ASSUME NEW t \in Tickers, NEW p \in Prices, Quote(t, p)
        PROVE  TypeOK'
    BY <2>1 DEF TypeOK, Quote
  <2>2. ASSUME NEW t \in Tickers, NEW lot \in Lots, NEW p \in Prices, Buy(t, lot, p)
        PROVE  TypeOK'
    <3>1. lot \in Int
      OBVIOUS
    <3> QED BY <2>2, <3>1, InsertType DEF TypeOK, Buy
  <2>3. ASSUME NEW t \in Tickers, NEW lot \in Lots, Sell(t, lot)
        PROVE  TypeOK'
    <3>1. -lot \in Int
      OBVIOUS
    <3>2. quote[t] \in Prices
      BY <2>3 DEF TypeOK, Sell
    <3> QED BY <2>3, <3>1, <3>2, InsertType DEF TypeOK, Sell
  <2>4. CASE UNCHANGED vars
    BY <2>4 DEF TypeOK, vars
  <2> QED BY <2>1, <2>2, <2>3, <2>4 DEF Next
<1> QED BY <1>1, <1>2, PTL DEF Spec

-----------------------------------------------------------------------------
(* A ticker is never short by more than Eps per sale of it on record, for  *)
(* every number of sales: the bound the daemon's tolerant oversell check   *)
(* really gives.                                                           *)
THEOREM ShortIsBounded == Spec => []ShortBounded
<1> USE BookAssumption
<1>1. Init => ShortBounded
  <2> SUFFICES ASSUME Init, NEW t \in Tickers
               PROVE  net[t] >= -Eps * Cardinality(Sales(t))
    BY DEF ShortBounded
  <2>1. Sales(t) = {}
    BY DEF Init, Sales
  <2>2. Cardinality(Sales(t)) = 0
    BY <2>1, FS_EmptySet
  <2> QED BY <2>2 DEF Init
<1>2. TypeOK /\ TypeOK' /\ ShortBounded /\ [Next]_vars => ShortBounded'
  <2> SUFFICES ASSUME TypeOK, TypeOK', ShortBounded, [Next]_vars, NEW k \in Tickers
               PROVE  net'[k] >= -Eps * Cardinality(Sales(k)')
    BY DEF ShortBounded
  <2>1. net[k] >= -Eps * Cardinality(Sales(k)) /\ net[k] \in Int /\ net'[k] \in Int
    BY DEF ShortBounded, TypeOK
  <2>2. CASE UNCHANGED <<ledger, net>>
    BY <2>1, <2>2 DEF Sales
  <2>3. ASSUME NEW t \in Tickers, NEW lot \in Lots, NEW p \in Prices, Buy(t, lot, p)
        PROVE  net'[k] >= -Eps * Cardinality(Sales(k)')
    <3>1. Sales(k)' = Sales(k)
      BY <2>3, SalesOfInsert DEF Buy
    <3>2. net'[k] >= net[k]
      BY <2>1, <2>3 DEF Buy, Insert, TypeOK
    <3>3. IsFiniteSet(Sales(k))
      BY <2>3, SalesOfInsert DEF Buy
    <3>4. Cardinality(Sales(k)) \in Nat
      BY <3>3, FS_CardinalityType
    <3> QED BY <2>1, <3>1, <3>2, <3>4
  <2>4. ASSUME NEW t \in Tickers, NEW lot \in Lots, Sell(t, lot)
        PROVE  net'[k] >= -Eps * Cardinality(Sales(k)')
    <3>1. /\ -lot \in Int /\ -lot < 0
          /\ quote[t] \in Prices
          /\ Insert(t, -lot, quote[t])
          /\ lot <= Held(t) + Eps
      BY <2>4 DEF Sell, TypeOK
    <3>2. /\ IsFiniteSet(Sales(k))
          /\ Sales(k)' = IF k = t THEN Sales(k) \cup {Len(ledger) + 1} ELSE Sales(k)
          /\ Len(ledger) + 1 \notin Sales(k)
      BY <3>1, SalesOfInsert
    <3>3. Cardinality(Sales(k)) \in Nat
      BY <3>2, FS_CardinalityType
    <3>4. CASE k = t
      <4>1. Cardinality(Sales(k)') = Cardinality(Sales(k)) + 1
        BY <3>2, <3>4, FS_AddElement
      <4>2. net'[k] = net[k] - lot
        BY <3>1, <3>4 DEF Insert, TypeOK
      <4>3. lot <= (IF net[k] > Eps THEN net[k] ELSE 0) + Eps
        BY <3>1, <3>4 DEF Held
      <4> DEFINE n == Cardinality(Sales(k))
      <4>4. n \in Nat /\ -Eps * n <= 0 /\ -Eps * (n + 1) = -Eps * n - Eps
        BY <3>3
      <4> HIDE DEF n
      <4>5. net'[k] >= -Eps * (n + 1)
        <5>1. CASE net[k] > Eps
          BY <2>1, <4>2, <4>3, <4>4, <5>1
        <5>2. CASE ~(net[k] > Eps)
          BY <2>1, <4>2, <4>3, <4>4, <5>2 DEF n
        <5> QED BY <5>1, <5>2
      <4> QED BY <4>1, <4>5 DEF n
    <3>5. CASE k # t
      BY <2>1, <3>1, <3>2, <3>5 DEF Insert, TypeOK
    <3> QED BY <3>4, <3>5
  <2> QED BY <2>2, <2>3, <2>4 DEF Next, Quote, vars
<1> QED BY <1>1, <1>2, TypeCorrect, PTL DEF Spec

-----------------------------------------------------------------------------
\* A quote precedes the first trade of its ticker and is never taken back, so
\* that summary never shows a holding without a price.
TradedIsQuoted == \A i \in DOMAIN ledger : quote[ledger[i].ticker] # None

LEMMA TradedStaysQuoted == Spec => []TradedIsQuoted
<1> USE BookAssumption
<1>1. Init => TradedIsQuoted
  BY DEF Init, TradedIsQuoted
<1>2. TypeOK /\ TypeOK' /\ TradedIsQuoted /\ [Next]_vars => TradedIsQuoted'
  <2> SUFFICES ASSUME TypeOK, TypeOK', TradedIsQuoted, [Next]_vars
               PROVE  TradedIsQuoted'
    OBVIOUS
  <2>1. ASSUME NEW t \in Tickers, NEW p \in Prices, Quote(t, p)
        PROVE  TradedIsQuoted'
    BY <2>1 DEF TypeOK, Quote, TradedIsQuoted
  <2>2. ASSUME NEW t \in Tickers, NEW shares \in Int, NEW p \in Prices,
               quote[t] # None, Insert(t, shares, p), UNCHANGED quote
        PROVE  TradedIsQuoted'
    <3>1. \A i \in DOMAIN ledger' : ledger'[i].ticker = t \/ (i \in DOMAIN ledger /\ ledger'[i] = ledger[i])
      BY <2>2 DEF TypeOK, Insert, Txn
    <3> QED BY <2>2, <3>1 DEF TradedIsQuoted
  <2>3. ASSUME NEW t \in Tickers, NEW lot \in Lots, NEW p \in Prices, Buy(t, lot, p)
        PROVE  TradedIsQuoted'
    <3>1. lot \in Int
      OBVIOUS
    <3> QED BY <2>2, <2>3, <3>1 DEF Buy
  <2>4. ASSUME NEW t \in Tickers, NEW lot \in Lots, Sell(t, lot)
        PROVE  TradedIsQuoted'
    <3>1. -lot \in Int /\ quote[t] \in Prices
      BY <2>4 DEF Sell, TypeOK
    <3> QED BY <2>2, <2>4, <3>1 DEF Sell
  <2>5. CASE UNCHANGED vars
    BY <2>5 DEF TradedIsQuoted, vars
  <2> QED BY <2>1, <2>3, <2>4, <2>5 DEF Next
<1> QED BY <1>1, <1>2, TypeCorrect, PTL DEF Spec
-----------------------------------------------------------------------------
(* The operators of Portfolio.tla, on a ledger that has grown by a row.    *)

LEMMA MaxWithZero ==
    ASSUME NEW a \in Int
    PROVE  P!Max({a, 0}) = IF a > 0 THEN a ELSE 0
<1> DEFINE m == IF a > 0 THEN a ELSE 0
<1>1. m \in {a, 0} /\ \A y \in {a, 0} : m >= y
  OBVIOUS
<1>2. \A x \in {a, 0} : (\A y \in {a, 0} : x >= y) => x = m
  OBVIOUS
<1> HIDE DEF m
<1>3. (CHOOSE x \in {a, 0} : \A y \in {a, 0} : x >= y) = m
  BY <1>1, <1>2
<1> QED BY <1>3 DEF P!Max, m

LEMMA AppendIs ==
    ASSUME NEW S, NEW s \in Seq(S), NEW x \in S
    PROVE  /\ Len(s) \in Nat /\ DOMAIN s = 1 .. Len(s) /\ \A i \in 1 .. Len(s) : s[i] \in S
           /\ Append(s, x) \in Seq(S)
           /\ Len(Append(s, x)) = Len(s) + 1
           /\ DOMAIN Append(s, x) = 1 .. Len(s) + 1
           /\ \A i \in 1 .. Len(s) : Append(s, x)[i] = s[i]
           /\ Append(s, x)[Len(s) + 1] = x
OBVIOUS

LEMMA PrefixOfAppend ==
    ASSUME NEW S, NEW s \in Seq(S), NEW x \in S, NEW n \in 0 .. Len(s)
    PROVE  SubSeq(Append(s, x), 1, n) = SubSeq(s, 1, n)
<1>1. Len(s) \in Nat /\ Append(s, x) \in Seq(S) /\ Len(Append(s, x)) = Len(s) + 1
  BY AppendIs
<1>2. \A i \in 1 .. n : Append(s, x)[i] = s[i]
  BY AppendIs
<1> QED BY <1>1, <1>2

LEMMA WholePrefix ==
    ASSUME NEW S, NEW s \in Seq(S)
    PROVE  SubSeq(s, 1, Len(s)) = s
OBVIOUS

\* What a row adds to the shares of a ticker.
Moved(x, t) == IF x.ticker = t THEN x.shares ELSE 0

LEMMA SqlSumType ==
    ASSUME NEW s \in Seq(Txn), NEW t
    PROVE  P!SqlSum(s, t) \in Int
<1> DEFINE f == [i \in 1 .. Len(s) |-> Moved(s[i], t)]
<1>1. \A r \in Txn : Moved(r, t) \in Int
  BY DEF Moved, Txn
<1>2. Len(s) \in Nat /\ \A i \in 1 .. Len(s) : s[i] \in Txn
  OBVIOUS
<1>3. f \in [1 .. Len(s) -> Int]
  BY <1>1, <1>2
<1>4. P!SqlSum(s, t) = SumOf(f)
  BY DEF P!SqlSum, P!SumOf, SumOf, Moved
<1> HIDE DEF f
<1>5. SumOf(f) \in Int
  BY <1>2, <1>3, SumType
<1> QED BY <1>4, <1>5

LEMMA SqlSumAppend ==
    ASSUME NEW s \in Seq(Txn), NEW x \in Txn, NEW t
    PROVE  P!SqlSum(Append(s, x), t) = P!SqlSum(s, t) + Moved(x, t)
<1> DEFINE f == [i \in 1 .. Len(s) |-> Moved(s[i], t)]
           g == [i \in 1 .. Len(s) + 1 |-> Moved(Append(s, x)[i], t)]
<1>1. \A r \in Txn : Moved(r, t) \in Int
  BY DEF Moved, Txn
<1>2. Len(s) \in Nat /\ \A i \in 1 .. Len(s) : s[i] \in Txn
  OBVIOUS
<1>3. /\ Len(Append(s, x)) = Len(s) + 1
      /\ \A i \in 1 .. Len(s) : Append(s, x)[i] = s[i]
      /\ Append(s, x)[Len(s) + 1] = x
  BY AppendIs
<1>4. f \in [1 .. Len(s) -> Int]
  BY <1>1, <1>2
<1>5. \A i \in 1 .. Len(s) + 1 : Append(s, x)[i] \in Txn
  BY <1>2, <1>3
<1>6. g \in [1 .. Len(s) + 1 -> Int]
  BY <1>1, <1>5
<1>7. Alike(f, g, Len(s))
  BY <1>2, <1>3 DEF Alike
<1>8. g[Len(s) + 1] = Moved(x, t)
  BY <1>2, <1>3
<1>9. P!SqlSum(s, t) = SumOf(f)
  BY DEF P!SqlSum, P!SumOf, SumOf, Moved
<1>10. P!SqlSum(Append(s, x), t) = SumOf(g)
  BY <1>3 DEF P!SqlSum, P!SumOf, SumOf, Moved
<1> HIDE DEF f, g
<1>11. SumOf(g) = SumOf(f) + g[Len(s) + 1]
  BY <1>2, <1>4, <1>6, <1>7, SumExtend
<1> QED BY <1>8, <1>9, <1>10, <1>11

Positions == [shares : Int, num : Int, den : Int]

LEMMA BoughtIs ==
    ASSUME NEW pos \in Positions, NEW x \in Txn, x.shares >= 0
    PROVE  P!Apply(pos, x) = [shares |-> pos.shares + x.shares,
                              num |-> pos.num + x.shares * x.price * pos.den, den |-> pos.den]
<1> DEFINE paid == x.shares * x.price * pos.den
<1>1. pos = [shares |-> pos.shares, num |-> pos.num, den |-> pos.den]
  BY DEF Positions
<1>2. P!Apply(pos, x) = [pos EXCEPT !.shares = pos.shares + x.shares, !.num = pos.num + paid]
  BY DEF P!Apply, P!Bought, Txn
<1> HIDE DEF paid
<1>3. P!Apply(pos, x) = [shares |-> pos.shares + x.shares, num |-> pos.num + paid, den |-> pos.den]
  BY <1>1, <1>2 DEF Positions
<1> QED BY <1>3 DEF paid

LEMMA SoldIs ==
    ASSUME NEW pos \in Positions, NEW x \in Txn, x.shares < 0
    PROVE  LET rest == pos.shares + x.shares
           IN  P!Apply(pos, x) =
                   IF pos.shares > 0
                   THEN [shares |-> rest, num |-> P!Max({rest, 0}) * pos.num, den |-> pos.shares * pos.den]
                   ELSE [shares |-> rest, num |-> pos.num, den |-> pos.den]
<1>1. pos = [shares |-> pos.shares, num |-> pos.num, den |-> pos.den]
  BY DEF Positions
<1>2. P!Apply(pos, x) = P!Sold(pos, x)
  BY DEF P!Apply, Txn
<1> QED BY <1>1, <1>2 DEF P!Sold, Positions

LEMMA ApplyIs ==
    ASSUME NEW pos \in Positions, NEW x \in Txn
    PROVE  /\ P!Apply(pos, x) \in Positions
           /\ P!Apply(pos, x).shares = pos.shares + x.shares
<1>1. x.shares \in Int /\ x.price \in Int /\ pos.shares \in Int /\ pos.num \in Int /\ pos.den \in Int
  BY BookAssumption DEF Txn, Positions
<1> DEFINE new  == P!Apply(pos, x)
           rest == pos.shares + x.shares
           paid == x.shares * x.price * pos.den
           left == P!Max({rest, 0})
<1>2. rest \in Int /\ paid \in Int
  BY <1>1
<1>3. left \in Int
  BY <1>2, MaxWithZero
<1>4. left * pos.num \in Int /\ pos.shares * pos.den \in Int
  BY <1>1, <1>3
<1>5. CASE x.shares >= 0
  <2>1. new = [shares |-> rest, num |-> pos.num + paid, den |-> pos.den]
    BY <1>5, BoughtIs
  <2> HIDE DEF new, paid
  <2>2. new \in Positions /\ new.shares = rest
    BY <1>1, <1>2, <2>1 DEF Positions
  <2> QED BY <2>2 DEF new
<1>6. CASE x.shares < 0
  <2>1. new = IF pos.shares > 0
              THEN [shares |-> rest, num |-> left * pos.num, den |-> pos.shares * pos.den]
              ELSE [shares |-> rest, num |-> pos.num, den |-> pos.den]
    BY <1>6, SoldIs
  <2> HIDE DEF new, left
  <2>2. new \in Positions /\ new.shares = rest
    BY <1>1, <1>2, <1>4, <2>1 DEF Positions
  <2> QED BY <2>2 DEF new
<1> QED BY <1>1, <1>5, <1>6

\* pos[n] is the position after the first n rows.
Replays(pos, s, t) ==
    /\ pos \in [0 .. Len(s) -> Positions]
    /\ pos[0] = P!Flat
    /\ \A n \in 1 .. Len(s) :
           pos[n] = IF s[n].ticker = t THEN P!Apply(pos[n - 1], s[n]) ELSE pos[n - 1]

LEMMA ReplayedIs ==
    ASSUME NEW s \in Seq(Txn), NEW t
    PROVE  \E pos : Replays(pos, s, t) /\ P!Replayed(s, t) = pos[Len(s)]
<1> DEFINE m == Len(s)
           After(p, n) == IF s[n].ticker = t THEN P!Apply(p, s[n]) ELSE p
           step == [n \in 1 .. m |-> [p \in Positions |-> After(p, n)]]
           Total(h) == h = [n \in 0 .. m |-> IF n = 0 THEN P!Flat ELSE After(h[n - 1], n)]
<1>1. m \in Nat /\ \A n \in 1 .. m : s[n] \in Txn
  OBVIOUS
<1>2. \A n \in 1 .. m, p \in Positions : After(p, n) \in Positions
  BY <1>1, ApplyIs
<1>3. step \in [1 .. m -> [Positions -> Positions]]
  <2> HIDE DEF After
  <2> QED BY <1>2
<1>4. \A n \in 1 .. m, p \in Positions : step[n][p] = After(p, n)
  OBVIOUS
<1>5. P!Flat \in Positions
  BY DEF P!Flat, Positions
<1> HIDE DEF step, m
<1>6. PICK g : Follows(g, Positions, P!Flat, m, step)
  BY <1>1, <1>3, <1>5, Recursion, Zenon
<1>7. /\ g \in [0 .. m -> Positions] /\ g[0] = P!Flat
      /\ \A n \in 1 .. m : g[n] = step[n][g[n - 1]]
  BY <1>6 DEF Follows
<1>8. \A n \in 1 .. m : g[n] = After(g[n - 1], n)
  <2> SUFFICES ASSUME NEW n \in 1 .. m PROVE g[n] = After(g[n - 1], n)
    OBVIOUS
  <2>1. g[n - 1] \in Positions
    BY <1>1, <1>7
  <2> HIDE DEF After
  <2> QED BY <1>4, <1>7, <2>1
<1>9. Total(g)
  <2> HIDE DEF After
  <2> SUFFICES ASSUME NEW n \in 0 .. m
               PROVE  g[n] = IF n = 0 THEN P!Flat ELSE After(g[n - 1], n)
    BY <1>7
  <2> QED BY <1>1, <1>7, <1>8
<1> DEFINE pos == CHOOSE h : Total(h)
<1>10. Total(pos)
  <2> HIDE DEF Total
  <2> QED BY <1>9
<1>11. P!Replayed(s, t) = pos[m]
  BY DEF P!Replayed, m
<1>12. pos[0] = P!Flat /\ \A n \in 1 .. m : pos[n] = After(pos[n - 1], n)
  <2> HIDE DEF pos, After
  <2> QED BY <1>1, <1>10
<1> HIDE DEF pos, Total, After
<1>13. StepAlike(pos, g, m)
  BY <1>7, <1>8, <1>12 DEF StepAlike
<1>14. \A n \in 0 .. m : pos[n] = g[n]
  BY <1>1, <1>13, SameRecursion, ZenonT(60)
<1>15. pos \in [0 .. m -> Positions]
  <2>1. pos = [n \in 0 .. m |-> g[n]]
    BY <1>10, <1>14 DEF Total
  <2> QED BY <1>7, <2>1
<1>16. Replays(pos, s, t)
  BY <1>12, <1>15 DEF Replays, After, m
<1> QED BY <1>11, <1>16 DEF m

LEMMA ReplayedType ==
    ASSUME NEW s \in Seq(Txn), NEW t
    PROVE  P!Replayed(s, t) \in Positions
<1>1. PICK pos : Replays(pos, s, t) /\ P!Replayed(s, t) = pos[Len(s)]
  BY ReplayedIs
<1>2. Len(s) \in 0 .. Len(s)
  OBVIOUS
<1> QED BY <1>1, <1>2 DEF Replays

LEMMA ReplayedAppend ==
    ASSUME NEW s \in Seq(Txn), NEW x \in Txn, NEW t
    PROVE  /\ P!Replayed(s, t) \in Positions
           /\ P!Replayed(Append(s, x), t) =
                  IF x.ticker = t THEN P!Apply(P!Replayed(s, t), x) ELSE P!Replayed(s, t)
<1> DEFINE more == Append(s, x)
<1>1. /\ Len(s) \in Nat /\ more \in Seq(Txn) /\ Len(more) = Len(s) + 1
      /\ \A i \in 1 .. Len(s) : more[i] = s[i]
      /\ more[Len(s) + 1] = x
  BY AppendIs
<1> HIDE DEF more
<1>2. PICK pos : Replays(pos, s, t) /\ P!Replayed(s, t) = pos[Len(s)]
  BY ReplayedIs
<1>3. PICK new : Replays(new, more, t) /\ P!Replayed(more, t) = new[Len(s) + 1]
  BY <1>1, ReplayedIs
<1>4. StepAlike(new, pos, Len(s))
  <2>1. new[0] = pos[0]
    BY <1>2, <1>3 DEF Replays
  <2>2. ASSUME NEW n \in 1 .. Len(s), new[n - 1] = pos[n - 1] PROVE new[n] = pos[n]
    <3>1. n \in 1 .. Len(more) /\ more[n] = s[n]
      BY <1>1
    <3> QED BY <1>2, <1>3, <2>2, <3>1 DEF Replays
  <2> QED BY <2>1, <2>2 DEF StepAlike
<1>5. \A n \in 0 .. Len(s) : new[n] = pos[n]
  <2>1. Len(s) \in Nat
    BY <1>1
  <2> QED BY <1>4, <2>1, SameRecursion, ZenonT(60)
<1>6. new[Len(s)] = pos[Len(s)]
  BY <1>1, <1>5
<1>7. new[Len(s) + 1] = IF x.ticker = t THEN P!Apply(new[Len(s)], x) ELSE new[Len(s)]
  <2>1. Len(s) + 1 \in 1 .. Len(more) /\ (Len(s) + 1) - 1 = Len(s)
    BY <1>1
  <2> QED BY <1>1, <1>3, <2>1 DEF Replays
<1>8. pos[Len(s)] \in Positions
  BY <1>1, <1>2 DEF Replays
<1> QED BY <1>2, <1>3, <1>6, <1>7, <1>8 DEF more

-----------------------------------------------------------------------------
(* The ledger only grows, a row at a time, and the running total with it.  *)

LEMMA InitialFacts ==
    ASSUME ledger = <<>>, NEW t
    PROVE  P!SqlSum(ledger, t) = 0 /\ P!Replayed(ledger, t) = P!Flat
<1>1. ledger \in Seq(Txn) /\ Len(ledger) = 0
  OBVIOUS
<1>2. P!Replayed(ledger, t) = P!Flat
  <2>1. PICK pos : Replays(pos, ledger, t) /\ P!Replayed(ledger, t) = pos[Len(ledger)]
    BY <1>1, ReplayedIs
  <2> QED BY <1>1, <2>1 DEF Replays
<1>3. P!SqlSum(ledger, t) = 0
  <2> DEFINE f == [i \in 1 .. Len(ledger) |-> Moved(ledger[i], t)]
  <2>1. f \in [1 .. 0 -> Int] /\ 0 \in Nat
    BY <1>1
  <2>2. P!SqlSum(ledger, t) = SumOf(f)
    BY DEF P!SqlSum, P!SumOf, SumOf, Moved
  <2> HIDE DEF f
  <2>3. PICK sum : PartialSums(sum, f, 0) /\ SumOf(f) = sum[0]
    BY <2>1, SumIs
  <2> QED BY <2>2, <2>3 DEF PartialSums
<1> QED BY <1>2, <1>3

\* A transaction that a step records.
Records(x) ==
    /\ x.shares # 0
    /\ ledger' = Append(ledger, x)
    /\ net' = [net EXCEPT ![x.ticker] = @ + x.shares]

LEMMA StepRecords ==
    ASSUME TypeOK, [Next]_vars
    PROVE  UNCHANGED <<ledger, net>> \/ \E x \in Txn : Records(x)
<1> USE BookAssumption
<1>1. ASSUME NEW t \in Tickers, NEW shares \in Int, shares # 0, NEW p \in Prices, Insert(t, shares, p)
      PROVE  \E x \in Txn : Records(x)
  <2> DEFINE x == [ticker |-> t, shares |-> shares, price |-> p]
  <2>1. x \in Txn /\ x.shares = shares /\ x.ticker = t
    BY DEF Txn
  <2>2. ledger' = Append(ledger, x) /\ net' = [net EXCEPT ![t] = @ + shares]
    BY <1>1 DEF Insert
  <2> HIDE DEF x
  <2> QED BY <1>1, <2>1, <2>2 DEF Records
<1>2. ASSUME NEW t \in Tickers, NEW lot \in Lots, NEW p \in Prices, Buy(t, lot, p)
      PROVE  \E x \in Txn : Records(x)
  <2>1. lot \in Int /\ lot # 0 /\ Insert(t, lot, p)
    BY <1>2 DEF Buy
  <2> QED BY <1>1, <2>1
<1>3. ASSUME NEW t \in Tickers, NEW lot \in Lots, Sell(t, lot)
      PROVE  \E x \in Txn : Records(x)
  <2>1. -lot \in Int /\ -lot # 0 /\ quote[t] \in Prices /\ Insert(t, -lot, quote[t])
    BY <1>3 DEF Sell, TypeOK
  <2> QED BY <1>1, <2>1
<1>4. ASSUME NEW t \in Tickers, NEW p \in Prices, Quote(t, p) PROVE UNCHANGED <<ledger, net>>
  BY <1>4 DEF Quote
<1>5. CASE UNCHANGED vars
  BY <1>5 DEF vars
<1> QED BY <1>2, <1>3, <1>4, <1>5 DEF Next

-----------------------------------------------------------------------------
\* Both ways of adding up keep step with the running total.
AddsUp ==
    \A t \in Tickers : P!Replayed(ledger, t).shares = net[t] /\ P!SqlSum(ledger, t) = net[t]

LEMMA AddsUpAlways == Spec => [](TypeOK /\ AddsUp)
<1>1. Init => AddsUp
  BY InitialFacts DEF Init, AddsUp, P!Flat
<1>2. TypeOK /\ AddsUp /\ [Next]_vars => AddsUp'
  <2> SUFFICES ASSUME TypeOK, AddsUp, [Next]_vars, NEW t \in Tickers
               PROVE  P!Replayed(ledger', t).shares = net'[t] /\ P!SqlSum(ledger', t) = net'[t]
    BY DEF AddsUp
  <2>1. P!Replayed(ledger, t).shares = net[t] /\ P!SqlSum(ledger, t) = net[t] /\ net[t] \in Int
    BY DEF AddsUp, TypeOK
  <2>2. CASE UNCHANGED <<ledger, net>>
    BY <2>1, <2>2
  <2>3. ASSUME NEW x \in Txn, Records(x)
        PROVE  P!Replayed(ledger', t).shares = net'[t] /\ P!SqlSum(ledger', t) = net'[t]
    <3>1. ledger \in Seq(Txn) /\ ledger' = Append(ledger, x)
      BY <2>3 DEF TypeOK, Records
    <3>2. net'[t] = net[t] + Moved(x, t)
      BY <2>1, <2>3 DEF Records, Moved, TypeOK, Txn
    <3>3. P!SqlSum(ledger', t) = P!SqlSum(ledger, t) + Moved(x, t)
      BY <3>1, SqlSumAppend
    <3>4. /\ P!Replayed(ledger, t) \in Positions
          /\ P!Replayed(ledger', t) =
                 IF x.ticker = t THEN P!Apply(P!Replayed(ledger, t), x) ELSE P!Replayed(ledger, t)
      BY <3>1, ReplayedAppend
    <3>5. P!Apply(P!Replayed(ledger, t), x).shares = P!Replayed(ledger, t).shares + x.shares
      BY <3>4, ApplyIs
    <3>6. P!Replayed(ledger', t).shares = net'[t]
      BY <2>1, <3>2, <3>4, <3>5 DEF Moved
    <3> QED BY <2>1, <3>2, <3>3, <3>6
  <2> QED BY <2>2, <2>3, StepRecords
<1> QED BY <1>1, <1>2, TypeCorrect, PTL DEF Spec

(* The replay that summary shows and the SQL aggregate that a refresh      *)
(* covers both come to the running total of the specifications, for every  *)
(* ledger the book can reach.                                              *)
THEOREM ReplaySums == Spec => []ReplayIsSum
<1>1. TypeOK /\ AddsUp => ReplayIsSum
  <2> SUFFICES ASSUME TypeOK, AddsUp PROVE ReplayIsSum
    OBVIOUS
  <2>1. \A t \in Tickers : P!Replayed(ledger, t).shares = net[t] /\ P!SqlSum(ledger, t) = net[t]
    BY DEF AddsUp
  <2>2. P!TickersOf(ledger) \subseteq Tickers
    <3>1. \A i \in DOMAIN ledger : ledger[i] \in Txn
      BY DEF TypeOK
    <3> QED BY <3>1 DEF P!TickersOf, Txn
  <2>3. P!held_tickers(ledger) = {k \in P!TickersOf(ledger) : net[k] > Eps}
    BY <2>1, <2>2, Zenon DEF P!held_tickers
  <2>4. DOMAIN P!positions(ledger) = {k \in P!TickersOf(ledger) : P!Replayed(ledger, k).shares > Eps}
    BY DEF P!positions
  <2>5. DOMAIN P!positions(ledger) = {k \in P!TickersOf(ledger) : net[k] > Eps}
    BY <2>1, <2>2, <2>4
  <2> QED BY <2>1, <2>3, <2>5 DEF ReplayIsSum
<1> QED BY <1>1, AddsUpAlways, PTL

-----------------------------------------------------------------------------
(* The two displays of a holding.                                          *)

LEMMA HoldingType ==
    ASSUME NEW pos \in Positions, NEW price \in Int
    PROVE  P!Holding(pos, price) \in P!Holdings
<1>1. pos.shares \in Int /\ pos.num \in Int /\ pos.den \in Int
  BY DEF Positions
<1>2. \A n, d \in Int : P!Frac(n, d) \in P!Fractions /\ P!Frac(n, d).num = n /\ P!Frac(n, d).den = d
  BY DEF P!Frac, P!Fractions
<1> DEFINE cost == P!Frac(pos.num, pos.den)
           avg  == P!Frac(pos.num, pos.den * pos.shares)
           gain == P!Minus(pos.shares * price, cost)
           gain_pct == IF avg.num > 0 THEN P!Growth(avg, price) ELSE P!Frac(0, 1)
<1>3. pos.shares * price \in Int /\ pos.den * pos.shares \in Int
  BY <1>1
<1>4. cost \in P!Fractions /\ avg \in P!Fractions
  BY <1>1, <1>2, <1>3
<1>5. \A fr \in P!Fractions, i \in Int : P!Minus(i, fr) \in P!Fractions /\ P!Growth(fr, i) \in P!Fractions
  <2> SUFFICES ASSUME NEW fr \in P!Fractions, NEW i \in Int
               PROVE  P!Minus(i, fr) \in P!Fractions /\ P!Growth(fr, i) \in P!Fractions
    OBVIOUS
  <2>1. fr.num \in Int /\ fr.den \in Int
    BY DEF P!Fractions
  <2>2. i * fr.den - fr.num \in Int
    BY <2>1
  <2> QED BY <1>2, <2>1, <2>2, Zenon DEF P!Minus, P!Growth
<1>6. gain \in P!Fractions /\ gain_pct \in P!Fractions
  <2> HIDE DEF cost, avg
  <2>1. P!Frac(0, 1) \in P!Fractions
    BY <1>2
  <2> QED BY <1>3, <1>4, <1>5, <2>1
<1>7. P!Holding(pos, price) =
          [shares |-> pos.shares, avg |-> avg, price |-> price, value |-> pos.shares * price,
           cost |-> cost, gain |-> gain, gain_pct |-> gain_pct]
  BY Zenon DEF P!Holding
<1> HIDE DEF cost, avg, gain, gain_pct
<1> QED BY <1>1, <1>3, <1>4, <1>6, <1>7 DEF P!Holdings

-----------------------------------------------------------------------------
(* The average cost of a holding.                                          *)

LEMMA TimesKeepsOrder ==
    ASSUME NEW a \in Int, NEW b \in Int, NEW c \in Int, a <= b, c >= 0
    PROVE  a * c <= b * c
OBVIOUS

\* A purchase at p moves a total between two bounds per share to one between
\* wider bounds, or the same.
LEMMA BoughtBetween ==
    ASSUME NEW s \in Int, NEW q \in Int, NEW den \in Int, NEW num \in Int, NEW p \in Int,
           NEW low \in Int, NEW high \in Int, s > 0, q > 0, den > 0,
           low * s * den <= num, num <= high * s * den
    PROVE  \E lo \in {low, p}, hi \in {high, p} :
               /\ lo * (s + q) * den <= num + q * p * den
               /\ num + q * p * den <= hi * (s + q) * den
<1> DEFINE lo == IF p < low THEN p ELSE low
           hi == IF p > high THEN p ELSE high
           u == s * den
           v == q * den
<1>1. u \in Int /\ v \in Int /\ u >= 0 /\ v >= 0
  BY TimesKeepsOrder
<1>2. lo \in Int /\ hi \in Int /\ lo <= low /\ lo <= p /\ high <= hi /\ p <= hi
  OBVIOUS
<1>3. low * s * den = low * u /\ high * s * den = high * u /\ q * p * den = p * v
  OBVIOUS
<1>4. \A r \in Int : r * (s + q) * den = r * u + r * v
  OBVIOUS
<1>5. lo \in {low, p} /\ hi \in {high, p}
  OBVIOUS
<1> HIDE DEF u, v, lo, hi
<1>6. lo * u <= low * u /\ lo * v <= p * v /\ high * u <= hi * u /\ p * v <= hi * v
  BY <1>1, <1>2, TimesKeepsOrder
<1>7. low * u \in Int /\ high * u \in Int /\ p * v \in Int /\ lo * u \in Int /\ lo * v \in Int
      /\ hi * u \in Int /\ hi * v \in Int
  BY <1>1, <1>2
<1>8. lo * (s + q) * den = lo * u + lo * v /\ hi * (s + q) * den = hi * u + hi * v
  BY <1>2, <1>4
<1> DEFINE a == lo * (s + q) * den
           b == hi * (s + q) * den
           c == q * p * den
           d == low * s * den
           e == high * s * den
<1>9. a <= num + c /\ num + c <= b
  <2>1. a = lo * u + lo * v /\ b = hi * u + hi * v /\ c = p * v /\ d = low * u /\ e = high * u
    BY <1>3, <1>8
  <2>2. d <= num /\ num <= e
    OBVIOUS
  <2> HIDE DEF a, b, c, d, e
  <2> QED BY <1>6, <1>7, <2>1, <2>2
<1> QED BY <1>5, <1>9

\* A sale takes the same fraction off the total and off the bounds.
LEMMA SoldBetween ==
    ASSUME NEW s \in Int, NEW left \in Int, NEW den \in Int, NEW num \in Int,
           NEW low \in Int, NEW high \in Int, left >= 0,
           low * s * den <= num, num <= high * s * den
    PROVE  low * left * (s * den) <= left * num /\ left * num <= high * left * (s * den)
<1> DEFINE d == low * s * den
           e == high * s * den
<1>1. d \in Int /\ e \in Int /\ d <= num /\ num <= e
  OBVIOUS
<1>2. low * left * (s * den) = d * left /\ high * left * (s * den) = e * left /\ left * num = num * left
  OBVIOUS
<1> HIDE DEF d, e
<1>3. d * left <= num * left /\ num * left <= e * left
  BY <1>1, TimesKeepsOrder
<1> QED BY <1>2, <1>3

LEMMA PrefixesStay ==
    ASSUME TypeOK, NEW x \in Txn, Records(x), NEW t
    PROVE  /\ \A n \in 0 .. Len(ledger) : Until(n)' = Until(n)
           /\ NeverShort(t)' => NeverShort(t) /\ P!SqlSum(ledger', t) >= 0
<1>1. ledger \in Seq(Txn) /\ Len(ledger) \in Nat /\ ledger' = Append(ledger, x)
  BY DEF TypeOK, Records
<1>2. ledger' \in Seq(Txn) /\ Len(ledger') = Len(ledger) + 1
  BY <1>1, AppendIs
<1>3. \A n \in 0 .. Len(ledger) : Until(n)' = Until(n)
  BY <1>1, PrefixOfAppend DEF Until
<1>4. \A n : n = Len(ledger) + 1 => Until(n)' = ledger'
  BY <1>2, WholePrefix DEF Until
<1>5. ASSUME NeverShort(t)' PROVE NeverShort(t) /\ P!SqlSum(ledger', t) >= 0
  <2>1. \A n \in 0 .. Len(ledger) + 1 : P!SqlSum(Until(n)', t) >= 0
    BY <1>2, <1>5 DEF NeverShort
  <2>2. \A n \in 0 .. Len(ledger) : n \in 0 .. Len(ledger) + 1
    BY <1>1
  <2>3. NeverShort(t)
    BY <1>3, <2>1, <2>2 DEF NeverShort
  <2>4. Len(ledger) + 1 \in 0 .. Len(ledger) + 1
    BY <1>1
  <2>5. P!SqlSum(ledger', t) >= 0
    BY <1>4, <2>1, <2>4
  <2> QED BY <2>3, <2>5
<1> QED BY <1>3, <1>5

LEMMA PaidGrows ==
    ASSUME TypeOK, NEW x \in Txn, Records(x), NEW t
    PROVE  /\ Paid(t) \subseteq Paid(t)'
           /\ x.ticker = t /\ x.shares > 0 => x.price \in Paid(t)'
           /\ Paid(t) \subseteq Int
<1>1. ledger \in Seq(Txn) /\ ledger' = Append(ledger, x)
  BY DEF TypeOK, Records
<1>2. /\ Len(ledger) \in Nat /\ DOMAIN ledger = 1 .. Len(ledger)
      /\ DOMAIN ledger' = 1 .. Len(ledger) + 1
      /\ \A i \in 1 .. Len(ledger) : ledger'[i] = ledger[i] /\ ledger[i] \in Txn
      /\ ledger'[Len(ledger) + 1] = x
  BY <1>1, AppendIs
<1>3. \A i \in 1 .. Len(ledger) : i \in 1 .. Len(ledger) + 1
  BY <1>2
<1>4. Len(ledger) + 1 \in 1 .. Len(ledger) + 1
  BY <1>2
<1>5. Paid(t) \subseteq Paid(t)'
  BY <1>2, <1>3, Zenon DEF Paid, Traded
<1>6. x.ticker = t /\ x.shares > 0 => x.price \in Paid(t)'
  BY <1>2, <1>4, Zenon DEF Paid, Traded
<1>7. Paid(t) \subseteq Int
  BY <1>2, BookAssumption DEF Paid, Traded, Txn
<1> QED BY <1>5, <1>6, <1>7

\* The cost of a holding lies between its shares at the lowest price paid
\* and at the highest.
CostBetween(pos, low, high) ==
    low * pos.shares * pos.den <= pos.num /\ pos.num <= high * pos.shares * pos.den

Between(t) ==
    LET pos == P!Replayed(ledger, t)
    IN  /\ pos.den > 0
        /\ NeverShort(t) =>
               /\ pos.shares >= 0
               /\ pos.shares = 0 => pos.num = 0
               /\ pos.shares > 0 => \E low, high \in Paid(t) : CostBetween(pos, low, high)

LEMMA BetweenKept ==
    ASSUME TypeOK, AddsUp, AddsUp', NEW t \in Tickers, Between(t), NEW x \in Txn, Records(x)
    PROVE  Between(t)'
<1> DEFINE pos == P!Replayed(ledger, t)
           new == P!Replayed(ledger', t)
<1>1. ledger \in Seq(Txn) /\ ledger' = Append(ledger, x)
  BY DEF TypeOK, Records
<1>2. /\ pos \in Positions
      /\ new = IF x.ticker = t THEN P!Apply(pos, x) ELSE pos
  BY <1>1, ReplayedAppend
<1>3. /\ pos.den > 0
      /\ NeverShort(t) =>
             /\ pos.shares >= 0
             /\ pos.shares = 0 => pos.num = 0
             /\ pos.shares > 0 => \E low, high \in Paid(t) : CostBetween(pos, low, high)
  BY DEF Between
<1>4. NeverShort(t)' => NeverShort(t) /\ new.shares >= 0
  <2>1. P!SqlSum(ledger', t) = new.shares
    BY DEF AddsUp
  <2> QED BY <2>1, PrefixesStay
<1>5. /\ Paid(t) \subseteq Paid(t)' /\ Paid(t) \subseteq Int
      /\ x.ticker = t /\ x.shares > 0 => x.price \in Paid(t)'
  BY PaidGrows
<1>6. SUFFICES /\ new.den > 0
               /\ NeverShort(t)' =>
                      /\ new.shares >= 0
                      /\ new.shares = 0 => new.num = 0
                      /\ new.shares > 0 => \E low, high \in Paid(t)' : CostBetween(new, low, high)
  BY DEF Between
<1>7. /\ pos.shares \in Int /\ pos.num \in Int /\ pos.den \in Int
      /\ x.shares \in Int /\ x.price \in Int /\ x.shares # 0
  BY <1>2, BookAssumption DEF Positions, Txn, Records
<1> HIDE DEF pos, new
<1>8. CASE x.ticker # t
  BY <1>2, <1>3, <1>4, <1>5, <1>8
<1>9. CASE x.ticker = t /\ x.shares > 0
  <2> DEFINE paid == x.shares * x.price * pos.den
  <2>1. new = [shares |-> pos.shares + x.shares, num |-> pos.num + paid, den |-> pos.den]
    <3>1. x.shares >= 0
      BY <1>7, <1>9
    <3> QED BY <1>2, <1>9, <3>1, BoughtIs
  <2>2. new.shares = pos.shares + x.shares /\ new.num = pos.num + paid /\ new.den = pos.den
    BY <2>1
  <2>3. ASSUME NeverShort(t)'
        PROVE  new.shares > 0 /\ \E low, high \in Paid(t)' : CostBetween(new, low, high)
    <3>1. NeverShort(t) /\ pos.shares >= 0
      BY <1>3, <1>4, <2>3
    <3>2. new.shares > 0
      BY <1>7, <1>9, <2>2, <3>1
    <3>3. CASE pos.shares = 0
      <4>1. pos.num = 0
        BY <1>3, <3>1, <3>3
      <4>2. x.price * x.shares * pos.den = 0 + paid
        BY <1>7
      <4>3. paid \in Int
        BY <1>7
      <4>4. CostBetween(new, x.price, x.price)
        <5>1. new.shares = x.shares /\ new.num = 0 + paid /\ new.den = pos.den
          BY <1>7, <2>2, <3>3, <4>1
        <5> DEFINE c == x.price * x.shares * pos.den
        <5>2. c = 0 + paid /\ c <= 0 + paid /\ 0 + paid <= c
          BY <4>2, <4>3
        <5> QED BY <5>1, <5>2 DEF CostBetween
      <4> QED BY <1>5, <1>9, <3>2, <4>4
    <3>4. CASE pos.shares > 0
      <4>1. PICK low \in Paid(t), high \in Paid(t) : CostBetween(pos, low, high)
        BY <1>3, <3>1, <3>4
      <4>2. low \in Int /\ high \in Int
        BY <1>5
      <4>3. low * pos.shares * pos.den <= pos.num /\ pos.num <= high * pos.shares * pos.den
        BY <4>1 DEF CostBetween
      <4>4. \E lo \in {low, x.price}, hi \in {high, x.price} :
                /\ lo * (pos.shares + x.shares) * pos.den <= pos.num + x.shares * x.price * pos.den
                /\ pos.num + x.shares * x.price * pos.den <= hi * (pos.shares + x.shares) * pos.den
        BY <1>3, <1>7, <1>9, <3>4, <4>2, <4>3, BoughtBetween
      <4>5. PICK lo \in {low, x.price}, hi \in {high, x.price} : CostBetween(new, lo, hi)
        BY <2>2, <4>4 DEF CostBetween
      <4>6. lo \in Paid(t)' /\ hi \in Paid(t)'
        BY <1>5, <1>9, <4>1
      <4> QED BY <3>2, <4>5, <4>6
    <3> QED BY <1>7, <3>1, <3>3, <3>4
  <2>4. new.shares \in Int
    BY <1>7, <2>2
  <2> QED BY <1>3, <2>2, <2>3, <2>4
<1>10. CASE x.ticker = t /\ x.shares < 0
  <2> DEFINE rest == pos.shares + x.shares
             left == P!Max({rest, 0})
  <2>1. new = IF pos.shares > 0
              THEN [shares |-> rest, num |-> left * pos.num, den |-> pos.shares * pos.den]
              ELSE [shares |-> rest, num |-> pos.num, den |-> pos.den]
    BY <1>2, <1>10, SoldIs
  <2>2. left = IF rest > 0 THEN rest ELSE 0
    BY <1>7, MaxWithZero
  <2>3. rest \in Int /\ left \in Int /\ left >= 0
    BY <1>7, <2>2
  <2>4. CASE pos.shares > 0
    <3>1. new.shares = rest /\ new.num = left * pos.num /\ new.den = pos.shares * pos.den
      BY <2>1, <2>4
    <3>2. new.den > 0
      BY <1>3, <1>7, <2>4, <3>1
    <3> HIDE DEF left
    <3>3. ASSUME NeverShort(t)'
          PROVE  /\ new.shares >= 0
                 /\ new.shares = 0 => new.num = 0
                 /\ new.shares > 0 => \E low, high \in Paid(t)' : CostBetween(new, low, high)
      <4>1. NeverShort(t) /\ new.shares >= 0 /\ left = rest
        BY <1>4, <2>2, <2>3, <3>1, <3>3
      <4>2. new.shares = 0 => new.num = 0
        BY <1>7, <3>1, <4>1
      <4>3. PICK low \in Paid(t), high \in Paid(t) : CostBetween(pos, low, high)
        BY <1>3, <2>4, <4>1
      <4>4. low \in Int /\ high \in Int
        BY <1>5
      <4>5. low * pos.shares * pos.den <= pos.num /\ pos.num <= high * pos.shares * pos.den
        BY <4>3 DEF CostBetween
      <4>6. /\ low * left * (pos.shares * pos.den) <= left * pos.num
            /\ left * pos.num <= high * left * (pos.shares * pos.den)
        BY <1>7, <2>3, <4>4, <4>5, SoldBetween
      <4>7. CostBetween(new, low, high)
        BY <3>1, <4>1, <4>6 DEF CostBetween
      <4>8. low \in Paid(t)' /\ high \in Paid(t)'
        BY <1>5
      <4> QED BY <4>1, <4>2, <4>7, <4>8
    <3> QED BY <3>2, <3>3
  <2>5. CASE ~(pos.shares > 0)
    <3>1. new.shares = rest /\ new.den = pos.den
      BY <2>1, <2>5
    <3>2. ~NeverShort(t)'
      <4>1. rest < 0
        BY <1>7, <1>10, <2>5
      <4> QED BY <1>4, <2>3, <3>1, <4>1
    <3> QED BY <1>3, <3>1, <3>2
  <2> QED BY <2>4, <2>5
<1> QED BY <1>7, <1>8, <1>9, <1>10

LEMMA BetweenAlways == Spec => [](TypeOK /\ \A t \in Tickers : Between(t))
<1>1. Init => \A t \in Tickers : Between(t)
  <2> SUFFICES ASSUME Init, NEW t \in Tickers PROVE Between(t)
    OBVIOUS
  <2>1. P!Replayed(ledger, t) = P!Flat
    BY InitialFacts DEF Init
  <2> QED BY <2>1 DEF Between, P!Flat
<1>2. /\ TypeOK /\ AddsUp /\ AddsUp' /\ [Next]_vars
      /\ \A t \in Tickers : Between(t)
      => (\A t \in Tickers : Between(t))'
  <2> SUFFICES ASSUME TypeOK, AddsUp, AddsUp', [Next]_vars,
                      \A t \in Tickers : Between(t),
                      NEW t \in Tickers
               PROVE  Between(t)'
    OBVIOUS
  <2>1. CASE UNCHANGED <<ledger, net>>
    BY <2>1 DEF Between, NeverShort, Until, Paid, Traded
  <2>2. ASSUME NEW x \in Txn, Records(x) PROVE Between(t)'
    BY <2>2, BetweenKept
  <2> QED BY <2>1, <2>2, StepRecords
<1> QED BY <1>1, <1>2, AddsUpAlways, PTL DEF Spec

(* The average cost of a holding that was never oversold lies between two  *)
(* prices that were paid for it, after any number of trades.               *)
THEOREM AverageIsWithinPaid == Spec => []AverageWithinPaid
<1>1. TypeOK /\ (\A t \in Tickers : Between(t)) => AverageWithinPaid
  <2> SUFFICES ASSUME TypeOK, \A t \in Tickers : Between(t) PROVE AverageWithinPaid
    OBVIOUS
  <2> DEFINE shown == P!summary(ledger, quote, None).rows
  <2> SUFFICES ASSUME NEW t \in DOMAIN shown, NeverShort(t)
               PROVE  LET avg == shown[t].avg
                      IN  \E low, high \in Paid(t) :
                              low * avg.den <= avg.num /\ avg.num <= high * avg.den
    BY DEF AverageWithinPaid
  <2> DEFINE pos == P!Replayed(ledger, t)
             price == IF quote[t] = None THEN 0 ELSE quote[t]
  <2>1. t \in P!TickersOf(ledger) /\ pos.shares > Eps /\ shown[t] = P!Row(pos, price)
    BY DEF P!summary, P!positions
  <2>2. t \in Tickers
    <3>1. \A i \in DOMAIN ledger : ledger[i] \in Txn
      BY DEF TypeOK
    <3> QED BY <2>1, <3>1 DEF P!TickersOf, Txn
  <2>3. pos \in Positions
    BY ReplayedType DEF TypeOK
  <2> HIDE DEF shown, pos, price
  <2>4. pos.shares \in Int /\ pos.num \in Int /\ pos.den \in Int /\ pos.shares > 0
    BY <2>1, <2>3, BookAssumption DEF Positions
  <2>5. PICK low \in Paid(t), high \in Paid(t) : CostBetween(pos, low, high)
    BY <2>2, <2>4 DEF Between, pos
  <2>6. shown[t].avg = P!Frac(pos.num, pos.den * pos.shares)
    BY <2>1, <2>4 DEF P!Row
  <2>7. shown[t].avg.num = pos.num /\ shown[t].avg.den = pos.den * pos.shares
    BY <2>6 DEF P!Frac
  <2>8. low \in Int /\ high \in Int
    <3>1. \A i \in DOMAIN ledger : ledger[i] \in Txn
      BY DEF TypeOK
    <3> QED BY <3>1, BookAssumption DEF Paid, Traded, Txn
  <2>9. low * pos.shares * pos.den = low * (pos.den * pos.shares)
        /\ high * pos.shares * pos.den = high * (pos.den * pos.shares)
    BY <2>4, <2>8
  <2> QED BY <2>5, <2>7, <2>9 DEF CostBetween
<1> QED BY <1>1, BetweenAlways, PTL

-----------------------------------------------------------------------------
(* The two displays of a holding agree.                                    *)

\* The two are the same, field by field, but for what the percentage is at a
\* price of zero or less.
LEMMA RowIsHolding ==
    ASSUME NEW pos \in Positions, NEW price \in Int, pos.shares > 0, pos.den > 0
    PROVE  \A field \in DOMAIN P!Row(pos, price) :
               Agrees(field, P!Row(pos, price), P!Holding(pos, price))
<1> DEFINE cost == P!Frac(pos.num, pos.den)
           avg  == P!Frac(pos.num, pos.den * pos.shares)
           gain == P!Minus(pos.shares * price, cost)
           gain_pct == IF avg.num > 0 THEN P!Growth(avg, price) ELSE P!Frac(0, 1)
           shown == IF avg.num > 0 /\ price > 0 THEN P!Growth(avg, price) ELSE P!Frac(0, 1)
           Told(pct) == [shares |-> pos.shares, avg |-> avg, price |-> price,
                         value |-> pos.shares * price, cost |-> cost, gain |-> gain,
                         gain_pct |-> pct]
<1>1. P!Holding(pos, price) = Told(gain_pct)
  BY Zenon DEF P!Holding
<1>2. P!Row(pos, price) = Told(shown)
  BY DEF P!Row
<1>3. ASSUME price <= 0
      PROVE  /\ shown.num = 0
             /\ gain_pct.num = 0 \/ gain_pct.num <= -gain_pct.den
  <2>1. /\ avg.num = pos.num /\ avg.den = pos.den * pos.shares
        /\ P!Frac(0, 1).num = 0
    BY DEF P!Frac
  <2>2. /\ P!Growth(avg, price).num = price * avg.den - avg.num
        /\ P!Growth(avg, price).den = avg.num
    BY Zenon DEF P!Growth, P!Frac
  <2>3. pos.num \in Int /\ pos.den * pos.shares \in Int /\ pos.den * pos.shares > 0
    BY DEF Positions
  <2> HIDE DEF avg
  <2>4. price * avg.den <= 0
    BY <1>3, <2>1, <2>3
  <2>5. price * avg.den \in Int /\ avg.num \in Int
    BY <2>1, <2>3
  <2>6. shown = P!Frac(0, 1)
    BY <1>3
  <2>7. price * avg.den - avg.num <= -avg.num
    BY <2>4, <2>5
  <2> QED BY <2>1, <2>2, <2>6, <2>7
<1>4. price > 0 => shown = gain_pct
  OBVIOUS
<1> HIDE DEF cost, avg, gain, gain_pct, shown
<1>5. DOMAIN Told(shown) = {"shares", "avg", "price", "value", "cost", "gain", "gain_pct"}
  OBVIOUS
<1>6. \A fr : P!Same(fr, fr)
  BY Zenon DEF P!Same
<1>7. SUFFICES ASSUME NEW field \in DOMAIN Told(shown)
               PROVE  Agrees(field, Told(shown), Told(gain_pct))
  BY <1>1, <1>2
<1>8. CASE field = "gain_pct" /\ price <= 0
  BY <1>3, <1>8 DEF Agrees, LostUntold
<1>9. CASE ~(field = "gain_pct" /\ price <= 0)
  <2>1. Told(shown)[field] = Told(gain_pct)[field]
    <3>1. CASE field = "gain_pct"
      BY <1>4, <1>9, <3>1
    <3>2. CASE field # "gain_pct"
      BY <1>5, <1>7, <3>2
    <3> QED BY <3>1, <3>2
  <2>2. Told(shown).price = price
    OBVIOUS
  <2> HIDE DEF Told
  <2> QED BY <1>6, <1>9, <2>1, <2>2 DEF Agrees
<1> QED BY <1>8, <1>9

(* The table and the chart line always say the same of a holding, whatever *)
(* was traded at whatever prices, but for the percentage at a price of     *)
(* zero or less, where the table is off by the loss of everything.         *)
THEOREM HoldingsAlwaysAgree ==
    ASSUME NoneIsAbsent
    PROVE  Spec => []HoldingsAgree
<1>1. TypeOK /\ TradedIsQuoted /\ (\A t \in Tickers : Between(t)) => HoldingsAgree
  <2> SUFFICES ASSUME TypeOK, TradedIsQuoted, \A t \in Tickers : Between(t)
               PROVE  HoldingsAgree
    OBVIOUS
  <2> USE BookAssumption
  <2> DEFINE held == P!positions(ledger)
             rows == P!summary(ledger, quote, None).rows
  <2>1. rows = [k \in DOMAIN held |-> P!Row(held[k], IF quote[k] = None THEN 0 ELSE quote[k])]
    BY DEF P!summary
  <2>2. /\ DOMAIN held = {k \in P!TickersOf(ledger) : P!Replayed(ledger, k).shares > Eps}
        /\ \A k \in DOMAIN held : held[k] = P!Replayed(ledger, k)
    BY DEF P!positions
  <2> HIDE DEF held, rows
  <2> SUFFICES ASSUME NEW t \in Tickers
               PROVE  LET shown == P!history(ledger, t, quote, None)
                      IN  /\ t \in DOMAIN rows => shown # None
                          /\ shown # None =>
                                 /\ t \in DOMAIN rows <=> shown.holding # None
                                 /\ shown.holding # None =>
                                        \A field \in DOMAIN rows[t] :
                                            Agrees(field, rows[t], shown.holding)
    BY DEF HoldingsAgree, rows
  <2> DEFINE pos == P!Replayed(ledger, t)
             shown == P!history(ledger, t, quote, None)
             reply == [current_price |-> quote[t],
                       holding |-> IF t \in DOMAIN held THEN P!Holding(pos, quote[t]) ELSE None]
  <2>3. pos \in Positions /\ DOMAIN rows = DOMAIN held
    BY <2>1, ReplayedType DEF TypeOK
  <2>4. t \in DOMAIN held => quote[t] # None
    <3>1. t \in P!TickersOf(ledger) => \E i \in DOMAIN ledger : ledger[i].ticker = t
      BY DEF P!TickersOf
    <3> QED BY <2>2, <3>1 DEF TradedIsQuoted
  <2>5. shown = IF quote[t] = None THEN None ELSE reply
    BY <2>2 DEF P!history, held
  <2>6. ASSUME quote[t] # None
        PROVE  quote[t] \in Prices /\ quote[t] \in Int
    <3>1. quote[t] \in Prices
      BY <2>6 DEF TypeOK
    <3>2. \A p \in Prices : p \in Int
      OBVIOUS
    <3> QED BY <3>1, <3>2
  <2>7. ASSUME quote[t] # None
        PROVE  reply # None
    <3>1. P!Holding(pos, quote[t]) \in P!Holdings
      BY <2>3, <2>6, <2>7, HoldingType
    <3>2. reply \in [current_price : Prices, holding : P!Holdings \cup {None}]
      BY <2>6, <2>7, <3>1
    <3> QED BY <3>2 DEF NoneIsAbsent
  <2>8. CASE quote[t] = None
    BY <2>3, <2>4, <2>5, <2>8
  <2>9. CASE quote[t] # None
    <3>1. shown = reply /\ shown # None
      BY <2>5, <2>7, <2>9
    <3>2. t \in DOMAIN held <=> reply.holding # None
      <4>1. P!Holding(pos, quote[t]) \in P!Holdings
        BY <2>3, <2>6, <2>9, HoldingType
      <4>2. P!Holding(pos, quote[t]) # None
        BY <4>1 DEF NoneIsAbsent
      <4> QED BY <4>2
    <3>3. ASSUME t \in DOMAIN held
          PROVE  /\ rows[t] = P!Row(pos, quote[t]) /\ reply.holding = P!Holding(pos, quote[t])
                 /\ pos.shares > 0 /\ pos.den > 0
      <4>1. rows[t] = P!Row(held[t], quote[t])
        BY <2>1, <2>9, <3>3
      <4>2. held[t] = pos /\ pos.shares > Eps
        BY <2>2, <3>3
      <4>3. pos.shares \in Int
        BY <2>3 DEF Positions
      <4>4. pos.den > 0
        BY DEF Between
      <4> QED BY <3>3, <4>1, <4>2, <4>3, <4>4
    <3> HIDE DEF shown, reply, pos
    <3>4. ASSUME t \in DOMAIN held
          PROVE  \A field \in DOMAIN rows[t] :
                     Agrees(field, rows[t], reply.holding)
      BY <2>3, <2>6, <2>9, <3>3, <3>4, RowIsHolding
    <3> QED BY <2>3, <3>1, <3>2, <3>4 DEF shown
  <2> QED BY <2>8, <2>9
<1> QED BY <1>1, TradedStaysQuoted, BetweenAlways, PTL

-----------------------------------------------------------------------------
(* The cost carried from each purchase.                                    *)

\* The factors of CarriedDen(t) and of Carried(t, i).
Whole(t) == [j \in 1 .. Len(ledger) |-> IF j \in LongSales(t) THEN Before(t, j) ELSE 1]

Kept(t, i) ==
    [j \in 1 .. Len(ledger) |->
        IF j \in LongSales(t) THEN IF j > i THEN Left(t, j) ELSE Before(t, j) ELSE 1]

\* The recorded row is a sale from a long position.
SoldLong(x, t) == x.ticker = t /\ x.shares < 0 /\ net[t] > 0

LEMMA SumsOfPrefixes ==
    ASSUME TypeOK, NEW t, NEW j \in 1 .. Len(ledger)
    PROVE  Before(t, j) \in Int /\ Left(t, j) \in Int
<1>1. ledger \in Seq(Txn) /\ Len(ledger) \in Nat
  BY DEF TypeOK
<1>2. Until(j - 1) \in Seq(Txn) /\ Until(j) \in Seq(Txn)
  BY <1>1 DEF Until
<1>3. \A s \in Seq(Txn) : P!SqlSum(s, t) \in Int
  BY SqlSumType
<1> QED BY <1>2, <1>3, MaxWithZero DEF Before, Left

LEMMA SalesGrow ==
    ASSUME TypeOK, AddsUp, NEW t \in Tickers, NEW x \in Txn, Records(x)
    PROVE  /\ \A j \in 1 .. Len(ledger) : Before(t, j)' = Before(t, j) /\ Left(t, j)' = Left(t, j)
           /\ \A n : n = Len(ledger) + 1 =>
                  Before(t, n)' = net[t] /\ Left(t, n)' = P!Max({P!SqlSum(ledger', t), 0})
           /\ LongSales(t) \subseteq 1 .. Len(ledger)
           /\ LongSales(t)' = LongSales(t) \cup (IF SoldLong(x, t) THEN {Len(ledger) + 1} ELSE {})
<1>1. ledger \in Seq(Txn) /\ ledger' = Append(ledger, x)
  BY DEF TypeOK, Records
<1>2. /\ Len(ledger) \in Nat /\ DOMAIN ledger = 1 .. Len(ledger)
      /\ ledger' \in Seq(Txn) /\ Len(ledger') = Len(ledger) + 1
      /\ DOMAIN ledger' = 1 .. Len(ledger) + 1
      /\ \A i \in 1 .. Len(ledger) : ledger'[i] = ledger[i]
      /\ ledger'[Len(ledger) + 1] = x
  BY <1>1, AppendIs
<1>3. \A n \in 0 .. Len(ledger) : Until(n)' = Until(n)
  BY PrefixesStay
<1>4. \A j \in 1 .. Len(ledger) : Before(t, j)' = Before(t, j) /\ Left(t, j)' = Left(t, j)
  <2> SUFFICES ASSUME NEW j \in 1 .. Len(ledger)
               PROVE  Before(t, j)' = Before(t, j) /\ Left(t, j)' = Left(t, j)
    OBVIOUS
  <2>1. j \in 0 .. Len(ledger) /\ j - 1 \in 0 .. Len(ledger)
    BY <1>2
  <2> QED BY <1>3, <2>1 DEF Before, Left
<1>5. ASSUME NEW n, n = Len(ledger) + 1
      PROVE  Before(t, n)' = net[t] /\ Left(t, n)' = P!Max({P!SqlSum(ledger', t), 0})
  <2>1. n - 1 = Len(ledger) /\ Len(ledger) \in 0 .. Len(ledger) /\ n = Len(ledger')
    BY <1>2, <1>5
  <2>2. Until(n - 1)' = ledger
    BY <1>1, <1>2, <2>1, PrefixOfAppend, WholePrefix DEF Until
  <2>3. Until(n)' = ledger'
    BY <1>2, <2>1, WholePrefix DEF Until
  <2>4. P!SqlSum(ledger, t) = net[t]
    BY DEF AddsUp
  <2> QED BY <2>2, <2>3, <2>4 DEF Before, Left
<1>6. LongSales(t) = {j \in 1 .. Len(ledger) : ledger[j].ticker = t /\ ledger[j].shares < 0 /\ Before(t, j) > 0}
  BY <1>2 DEF LongSales, Traded
<1>7. LongSales(t)' = {j \in 1 .. Len(ledger) + 1 :
                           ledger'[j].ticker = t /\ ledger'[j].shares < 0 /\ Before(t, j)' > 0}
  BY <1>2 DEF LongSales, Traded
<1>8. \A j : j \in 1 .. Len(ledger) + 1 <=> j \in 1 .. Len(ledger) \/ j = Len(ledger) + 1
  BY <1>2
<1>9. Len(ledger) + 1 \notin 1 .. Len(ledger)
  BY <1>2
<1>10. ASSUME NEW j
       PROVE  j \in LongSales(t)' <=> j \in LongSales(t) \/ (SoldLong(x, t) /\ j = Len(ledger) + 1)
  <2>1. CASE j \in 1 .. Len(ledger)
    BY <1>2, <1>4, <1>6, <1>7, <1>8, <1>9, <2>1
  <2>2. CASE j = Len(ledger) + 1
    <3>1. Before(t, j)' = net[t] /\ ledger'[j] = x
      BY <1>2, <1>5, <2>2
    <3>2. j \notin LongSales(t) /\ j \in 1 .. Len(ledger) + 1
      BY <1>6, <1>8, <1>9, <2>2
    <3> QED BY <1>7, <2>2, <3>1, <3>2, Zenon DEF SoldLong
  <2>3. CASE j \notin 1 .. Len(ledger) + 1
    BY <1>6, <1>7, <1>8, <2>3, Zenon
  <2> QED BY <1>8, <2>1, <2>2, <2>3
<1>11. LongSales(t)' = LongSales(t) \cup (IF SoldLong(x, t) THEN {Len(ledger) + 1} ELSE {})
  BY <1>10
<1> QED BY <1>4, <1>5, <1>6, <1>11

LEMMA CarriedDenStep ==
    ASSUME TypeOK, AddsUp, NEW t \in Tickers, NEW x \in Txn, Records(x)
    PROVE  /\ CarriedDen(t) \in Int
           /\ CarriedDen(t)' = CarriedDen(t) * (IF SoldLong(x, t) THEN net[t] ELSE 1)
<1> DEFINE f == Whole(t)
           g == Whole(t)'
<1>0. PICK L : L = Len(ledger)
  OBVIOUS
<1>1. L \in Nat /\ Len(ledger') = L + 1 /\ L + 1 \notin 1 .. L /\ L + 1 \in 1 .. L + 1
      /\ \A j \in 1 .. L : j \in 1 .. L + 1 /\ j # L + 1
  BY <1>0, AppendIs DEF TypeOK, Records
<1>2. f = [j \in 1 .. L |-> IF j \in LongSales(t) THEN Before(t, j) ELSE 1]
  BY <1>0 DEF Whole
<1>3. g = [j \in 1 .. L + 1 |-> IF j \in LongSales(t)' THEN Before(t, j)' ELSE 1]
  BY <1>1 DEF Whole
<1>4. CarriedDen(t) = ProductOf(f) /\ CarriedDen(t)' = ProductOf(g)
  BY DEF CarriedDen, Whole
<1>5. net[t] \in Int
  BY DEF TypeOK
<1> HIDE DEF f, g
<1>6. /\ \A j \in 1 .. L : Before(t, j)' = Before(t, j)
      /\ Before(t, L + 1)' = net[t]
      /\ \A j \in 1 .. L : j \in LongSales(t)' <=> j \in LongSales(t)
      /\ L + 1 \in LongSales(t)' <=> SoldLong(x, t)
  <2>1. Before(t, L + 1)' = net[t]
    BY <1>0, SalesGrow
  <2> QED BY <1>0, <1>1, <2>1, SalesGrow
<1>7. f \in [1 .. L -> Int]
  BY <1>0, <1>2, SumsOfPrefixes
<1>8. Alike(f, g, L)
  BY <1>1, <1>2, <1>3, <1>6 DEF Alike
<1>9. g[L + 1] = IF SoldLong(x, t) THEN net[t] ELSE 1
  BY <1>1, <1>3, <1>6
<1>10. g \in [1 .. L + 1 -> Int]
  <2>1. \A j \in 1 .. L + 1 : g[j] \in Int
    <3>1. \A j \in 1 .. L : g[j] \in Int
      BY <1>7, <1>8 DEF Alike
    <3>2. g[L + 1] \in Int
      BY <1>5, <1>9
    <3> QED BY <1>1, <3>1, <3>2
  <2> QED BY <1>3, <2>1
<1>11. ProductOf(g) = ProductOf(f) * g[L + 1]
  BY <1>1, <1>7, <1>8, <1>10, ProductExtend
<1>12. ProductOf(f) \in Int
  BY <1>1, <1>7, ProductType
<1> QED BY <1>4, <1>9, <1>11, <1>12

\* What is left of every lot bought so far, as a factor.
LeftOver(x, t) == IF SoldLong(x, t) THEN P!Max({P!SqlSum(ledger', t), 0}) ELSE 1

LEMMA CarriedStep ==
    ASSUME TypeOK, TypeOK', AddsUp, NEW t \in Tickers, NEW x \in Txn, Records(x),
           NEW i \in 1 .. Len(ledger)
    PROVE  Carried(t, i) \in Int /\ LeftOver(x, t) \in Int /\ Carried(t, i)' = LeftOver(x, t) * Carried(t, i)
<1> DEFINE f == Kept(t, i)
           g == Kept(t, i)'
<1>0. PICK L : L = Len(ledger)
  OBVIOUS
<1>1. /\ L \in Nat /\ Len(ledger') = L + 1 /\ L + 1 \notin 1 .. L /\ L + 1 \in 1 .. L + 1 /\ L + 1 > i
      /\ \A j \in 1 .. L : j \in 1 .. L + 1 /\ j # L + 1
      /\ ledger'[i] = ledger[i] /\ ledger[i] \in Txn
  BY <1>0, AppendIs DEF TypeOK, Records
<1>2. f = [j \in 1 .. L |-> IF j \in LongSales(t) THEN IF j > i THEN Left(t, j) ELSE Before(t, j) ELSE 1]
  BY <1>0 DEF Kept
<1>3. g = [j \in 1 .. L + 1 |->
              IF j \in LongSales(t)' THEN IF j > i THEN Left(t, j)' ELSE Before(t, j)' ELSE 1]
  BY <1>1 DEF Kept
<1>4. /\ Carried(t, i) = ledger[i].shares * ledger[i].price * ProductOf(f)
      /\ Carried(t, i)' = ledger'[i].shares * ledger'[i].price * ProductOf(g)
  BY DEF Carried, Kept
<1> HIDE DEF f, g
<1>5. P!Max({P!SqlSum(ledger', t), 0}) \in Int
  <2>1. ledger' \in Seq(Txn)
    BY DEF TypeOK
  <2>2. P!SqlSum(ledger', t) \in Int
    BY <2>1, SqlSumType
  <2> QED BY <2>2, MaxWithZero
<1>6. /\ \A j \in 1 .. L : Before(t, j)' = Before(t, j) /\ Left(t, j)' = Left(t, j)
      /\ Left(t, L + 1)' = P!Max({P!SqlSum(ledger', t), 0})
      /\ \A j \in 1 .. L : j \in LongSales(t)' <=> j \in LongSales(t)
      /\ L + 1 \in LongSales(t)' <=> SoldLong(x, t)
  <2>1. Left(t, L + 1)' = P!Max({P!SqlSum(ledger', t), 0})
    BY <1>0, SalesGrow
  <2> QED BY <1>0, <1>1, <2>1, SalesGrow
<1>7. f \in [1 .. L -> Int]
  BY <1>0, <1>2, SumsOfPrefixes
<1>8. Alike(f, g, L)
  <2> SUFFICES ASSUME NEW j \in 1 .. L PROVE g[j] = f[j]
    BY DEF Alike
  <2>1. /\ j \in 1 .. L + 1 /\ (j \in LongSales(t)' <=> j \in LongSales(t))
        /\ Before(t, j)' = Before(t, j) /\ Left(t, j)' = Left(t, j)
    BY <1>1, <1>6
  <2>2. g[j] = IF j \in LongSales(t)' THEN IF j > i THEN Left(t, j)' ELSE Before(t, j)' ELSE 1
    BY <1>3, <2>1
  <2>3. f[j] = IF j \in LongSales(t) THEN IF j > i THEN Left(t, j) ELSE Before(t, j) ELSE 1
    BY <1>2
  <2> QED BY <2>1, <2>2, <2>3
<1>9. g[L + 1] = LeftOver(x, t)
  <2>1. g[L + 1] = IF L + 1 \in LongSales(t)' THEN Left(t, L + 1)' ELSE 1
    BY <1>1, <1>3
  <2> QED BY <1>6, <2>1 DEF LeftOver
<1>10. LeftOver(x, t) \in Int
  BY <1>5 DEF LeftOver
<1>11. g \in [1 .. L + 1 -> Int]
  <2>1. \A j \in 1 .. L + 1 : g[j] \in Int
    <3>1. \A j \in 1 .. L : g[j] \in Int
      BY <1>7, <1>8 DEF Alike
    <3>2. g[L + 1] \in Int
      BY <1>9, <1>10
    <3> QED BY <1>1, <3>1, <3>2
  <2> QED BY <1>3, <2>1
<1>12. ProductOf(g) = ProductOf(f) * g[L + 1]
  BY <1>1, <1>7, <1>8, <1>11, ProductExtend
<1>13. ProductOf(f) \in Int
  BY <1>1, <1>7, ProductType
<1>14. ledger[i].shares \in Int /\ ledger[i].price \in Int
  BY <1>1, BookAssumption DEF Txn
<1> DEFINE a == ledger[i].shares
           b == ledger[i].price
           c == ProductOf(f)
           d == LeftOver(x, t)
<1>15. a \in Int /\ b \in Int /\ c \in Int /\ d \in Int
  BY <1>10, <1>13, <1>14
<1>16. Carried(t, i) = a * b * c /\ Carried(t, i)' = a * b * (c * d)
  BY <1>1, <1>4, <1>9, <1>12
<1> HIDE DEF a, b, c, d
<1>17. a * b * c \in Int /\ a * b * (c * d) = d * (a * b * c)
  BY <1>15
<1> QED BY <1>10, <1>16, <1>17 DEF d

\* A new row is carried whole.
LEMMA CarriedNew ==
    ASSUME TypeOK, TypeOK', AddsUp, NEW t \in Tickers, NEW x \in Txn, Records(x),
           NEW n, n = Len(ledger) + 1
    PROVE  Carried(t, n)' = x.shares * x.price * CarriedDen(t)'
<1>1. Len(ledger) \in Nat /\ Len(ledger') = n /\ n \in Nat /\ ledger'[n] = x
  BY AppendIs DEF TypeOK, Records
<1>2. Kept(t, n)' = [j \in 1 .. n |->
              IF j \in LongSales(t)' THEN IF j > n THEN Left(t, j)' ELSE Before(t, j)' ELSE 1]
  BY <1>1 DEF Kept
<1>3. Whole(t)' = [j \in 1 .. n |-> IF j \in LongSales(t)' THEN Before(t, j)' ELSE 1]
  BY <1>1 DEF Whole
<1>4. \A j \in 1 .. n : ~(j > n)
  BY <1>1
<1>5. Kept(t, n)' = Whole(t)'
  BY <1>2, <1>3, <1>4
<1>6. CarriedDen(t)' = ProductOf(Whole(t)')
  BY DEF CarriedDen, Whole
<1>7. Carried(t, n)' = ledger'[n].shares * ledger'[n].price * ProductOf(Kept(t, n)')
  BY DEF Carried, Kept
<1> QED BY <1>1, <1>5, <1>6, <1>7

\* The terms of CarriedNum(t).
Terms(t) == [i \in 1 .. Len(ledger) |-> IF i \in Traded(t) /\ ledger[i].shares > 0 THEN Carried(t, i) ELSE 0]

LEMMA CarriedNumStep ==
    ASSUME TypeOK, TypeOK', AddsUp, NEW t \in Tickers, NEW x \in Txn, Records(x)
    PROVE  /\ CarriedNum(t) \in Int /\ LeftOver(x, t) \in Int
           /\ CarriedNum(t)' = LeftOver(x, t) * CarriedNum(t)
                  + (IF x.ticker = t /\ x.shares > 0 THEN x.shares * x.price * CarriedDen(t)' ELSE 0)
<1> DEFINE f == Terms(t)
           g == Terms(t)'
           d == LeftOver(x, t)
           new == IF x.ticker = t /\ x.shares > 0 THEN x.shares * x.price * CarriedDen(t)' ELSE 0
<1>0. PICK L : L = Len(ledger)
  OBVIOUS
<1>1. /\ L \in Nat /\ Len(ledger') = L + 1 /\ L + 1 \in 1 .. L + 1
      /\ \A j \in 1 .. L : j \in 1 .. L + 1 /\ ledger'[j] = ledger[j]
      /\ ledger'[L + 1] = x
      /\ DOMAIN ledger = 1 .. L /\ DOMAIN ledger' = 1 .. L + 1
  BY <1>0, AppendIs DEF TypeOK, Records
<1>2. f = [i \in 1 .. L |-> IF i \in Traded(t) /\ ledger[i].shares > 0 THEN Carried(t, i) ELSE 0]
  BY <1>0 DEF Terms
<1>3. g = [i \in 1 .. L + 1 |-> IF i \in Traded(t)' /\ ledger'[i].shares > 0 THEN Carried(t, i)' ELSE 0]
  BY <1>1 DEF Terms
<1>4. CarriedNum(t) = SumOf(f) /\ CarriedNum(t)' = SumOf(g)
  BY DEF CarriedNum, Terms
<1>5. /\ \A j \in 1 .. L : j \in Traded(t)' <=> j \in Traded(t)
      /\ L + 1 \in Traded(t)' <=> x.ticker = t
  BY <1>1 DEF Traded
<1>6. CarriedDen(t) \in Int /\ CarriedDen(t)' \in Int /\ d \in Int
  <2>1. CarriedDen(t) \in Int /\ CarriedDen(t)' = CarriedDen(t) * (IF SoldLong(x, t) THEN net[t] ELSE 1)
    BY CarriedDenStep
  <2>2. net[t] \in Int
    BY DEF TypeOK
  <2>3. P!Max({P!SqlSum(ledger', t), 0}) \in Int
    <3>1. ledger' \in Seq(Txn)
      BY DEF TypeOK
    <3>2. P!SqlSum(ledger', t) \in Int
      BY <3>1, SqlSumType
    <3> QED BY <3>2, MaxWithZero
  <2> QED BY <2>1, <2>2, <2>3 DEF LeftOver
<1> HIDE DEF f, g, d
<1>7. \A i \in 1 .. L : Carried(t, i) \in Int /\ Carried(t, i)' = d * Carried(t, i)
  BY <1>0, CarriedStep DEF d
<1>8. new \in Int
  <2>1. x.shares \in Int /\ x.price \in Int
    BY BookAssumption DEF Txn
  <2> QED BY <1>6, <2>1
<1>9. g[L + 1] = new
  <2>1. Carried(t, L + 1)' = x.shares * x.price * CarriedDen(t)'
    BY <1>0, CarriedNew
  <2>2. g[L + 1] = IF L + 1 \in Traded(t)' /\ ledger'[L + 1].shares > 0 THEN Carried(t, L + 1)' ELSE 0
    BY <1>1, <1>3
  <2> QED BY <1>1, <1>5, <2>1, <2>2
<1> HIDE DEF new
<1>10. f \in [1 .. L -> Int]
  BY <1>2, <1>7
<1> DEFINE h == [i \in 1 .. L |-> d * f[i]]
<1>11. h \in [1 .. L -> Int] /\ \A i \in 1 .. L : h[i] = d * f[i]
  <2>1. \A i \in 1 .. L : d * f[i] \in Int
    BY <1>6, <1>10
  <2> QED BY <2>1
<1> HIDE DEF h
<1>12. SumOf(h) = d * SumOf(f)
  BY <1>1, <1>6, <1>10, <1>11, SumScaled
<1>13. Alike(h, g, L)
  <2> SUFFICES ASSUME NEW i \in 1 .. L PROVE g[i] = h[i]
    BY DEF Alike
  <2>1. i \in 1 .. L + 1 /\ (i \in Traded(t)' <=> i \in Traded(t)) /\ ledger'[i] = ledger[i]
    BY <1>1, <1>5
  <2>2. g[i] = IF i \in Traded(t) /\ ledger[i].shares > 0 THEN d * Carried(t, i) ELSE 0
    BY <1>3, <1>7, <2>1
  <2>3. f[i] = IF i \in Traded(t) /\ ledger[i].shares > 0 THEN Carried(t, i) ELSE 0
    BY <1>2
  <2> QED BY <1>6, <1>11, <2>2, <2>3
<1>14. g \in [1 .. L + 1 -> Int]
  <2>1. \A j \in 1 .. L + 1 : g[j] \in Int
    <3>1. \A j \in 1 .. L : g[j] \in Int
      BY <1>11, <1>13 DEF Alike
    <3>2. g[L + 1] \in Int /\ \A j \in 1 .. L + 1 : j \in 1 .. L \/ j = L + 1
      BY <1>1, <1>8, <1>9
    <3> QED BY <3>1, <3>2
  <2> QED BY <1>3, <2>1
<1>15. SumOf(g) = SumOf(h) + g[L + 1]
  BY <1>1, <1>11, <1>13, <1>14, SumExtend
<1>16. SumOf(f) \in Int
  BY <1>1, <1>10, SumType
<1> QED BY <1>4, <1>6, <1>9, <1>12, <1>15, <1>16 DEF d, new

LEMMA CarriedKept ==
    ASSUME TypeOK, TypeOK', AddsUp, AddsUp', CostIsCarried, NEW t \in Tickers, NEW x \in Txn, Records(x)
    PROVE  LET pos == P!Replayed(ledger', t)
           IN  pos.num * CarriedDen(t)' = CarriedNum(t)' * pos.den
<1> DEFINE pos == P!Replayed(ledger, t)
           new == P!Replayed(ledger', t)
           cd == CarriedDen(t)
           cn == CarriedNum(t)
           left == P!Max({P!SqlSum(ledger', t), 0})
<1>1. ledger \in Seq(Txn) /\ ledger' = Append(ledger, x)
  BY DEF TypeOK, Records
<1>2. pos \in Positions /\ new = IF x.ticker = t THEN P!Apply(pos, x) ELSE pos
  BY <1>1, ReplayedAppend
<1>3. pos.shares = net[t] /\ P!SqlSum(ledger', t) = new.shares
  BY DEF AddsUp
<1>4. cd \in Int /\ CarriedDen(t)' = cd * (IF SoldLong(x, t) THEN net[t] ELSE 1)
  BY CarriedDenStep
<1>5. /\ cn \in Int
      /\ CarriedNum(t)' = LeftOver(x, t) * cn
             + (IF x.ticker = t /\ x.shares > 0 THEN x.shares * x.price * CarriedDen(t)' ELSE 0)
  BY CarriedNumStep
<1>6. pos.num * cd = cn * pos.den
  BY DEF CostIsCarried
<1>7. /\ pos.shares \in Int /\ pos.num \in Int /\ pos.den \in Int
      /\ x.shares \in Int /\ x.price \in Int /\ x.shares # 0
  BY <1>2, BookAssumption DEF Positions, Txn, Records
<1>8. SUFFICES new.num * CarriedDen(t)' = CarriedNum(t)' * new.den
  OBVIOUS
<1>9. LeftOver(x, t) = IF SoldLong(x, t) THEN left ELSE 1
  BY DEF LeftOver
<1> HIDE DEF pos, new, cd, cn, left
<1>10. CASE x.ticker # t
  <2>1. ~SoldLong(x, t) /\ new = pos
    BY <1>2, <1>10 DEF SoldLong
  <2>2. CarriedDen(t)' = cd /\ CarriedNum(t)' = cn
    BY <1>4, <1>5, <1>9, <1>10, <2>1
  <2> QED BY <1>6, <2>1, <2>2
<1>11. CASE x.ticker = t /\ x.shares > 0
  <2> DEFINE q == x.shares
             p == x.price
             num == pos.num
             den == pos.den
  <2>1. ~SoldLong(x, t) /\ x.shares >= 0
    BY <1>7, <1>11 DEF SoldLong
  <2>2. CarriedDen(t)' = cd
    BY <1>4, <2>1
  <2>3. CarriedNum(t)' = cn + q * p * cd
    BY <1>5, <1>9, <1>11, <2>1, <2>2
  <2>4. new.num = num + q * p * den /\ new.den = den
    <3>1. new = [shares |-> pos.shares + q, num |-> num + q * p * den, den |-> den]
      BY <1>2, <1>11, <2>1, BoughtIs
    <3> QED BY <3>1
  <2>5. q \in Int /\ p \in Int /\ num \in Int /\ den \in Int /\ num * cd = cn * den
    BY <1>6, <1>7
  <2> HIDE DEF q, p, num, den
  <2>6. (num + q * p * den) * cd = num * cd + q * p * den * cd
        /\ (cn + q * p * cd) * den = cn * den + q * p * den * cd
    BY <1>4, <1>5, <2>5
  <2> QED BY <2>2, <2>3, <2>4, <2>5, <2>6
<1>12. CASE x.ticker = t /\ x.shares < 0
  <2> DEFINE rest == pos.shares + x.shares
  <2>1. new = IF pos.shares > 0
              THEN [shares |-> rest, num |-> P!Max({rest, 0}) * pos.num, den |-> pos.shares * pos.den]
              ELSE [shares |-> rest, num |-> pos.num, den |-> pos.den]
    BY <1>2, <1>12, SoldIs
  <2>2. new.shares = rest
    BY <2>1
  <2>3. P!Max({rest, 0}) = left /\ left \in Int
    BY <1>3, <1>7, <2>2, MaxWithZero DEF left
  <2>4. SoldLong(x, t) <=> pos.shares > 0
    BY <1>3, <1>12 DEF SoldLong
  <2>5. CASE pos.shares > 0
    <3> DEFINE s == pos.shares
               num == pos.num
               den == pos.den
    <3>1. new.num = left * num /\ new.den = s * den
      BY <2>1, <2>3, <2>5
    <3>2. CarriedDen(t)' = cd * s /\ CarriedNum(t)' = left * cn
      <4>1. ~(x.shares > 0) /\ left * cn + 0 = left * cn
        BY <1>5, <1>7, <1>12, <2>3
      <4> QED BY <1>3, <1>4, <1>5, <1>9, <2>4, <2>5, <4>1
    <3>3. s \in Int /\ num \in Int /\ den \in Int /\ num * cd = cn * den
      BY <1>6, <1>7
    <3> HIDE DEF s, num, den
    <3>4. (left * num) * (cd * s) = (left * s) * (num * cd)
          /\ (left * cn) * (s * den) = (left * s) * (cn * den)
      BY <1>4, <1>5, <2>3, <3>3
    <3> QED BY <3>1, <3>2, <3>3, <3>4
  <2>6. CASE ~(pos.shares > 0)
    <3>1. new.num = pos.num /\ new.den = pos.den
      BY <2>1, <2>6
    <3>2. CarriedDen(t)' = cd /\ CarriedNum(t)' = cn
      <4>1. ~(x.shares > 0)
        BY <1>7, <1>12
      <4> QED BY <1>4, <1>5, <1>9, <2>4, <2>6, <4>1
    <3> QED BY <1>6, <3>1, <3>2
  <2> QED BY <2>5, <2>6
<1> QED BY <1>7, <1>10, <1>11, <1>12

(* The running average never loses or invents cost basis: it is what the   *)
(* purchases carry over the sales, after any number of trades in any order.*)
THEOREM CostIsAlwaysCarried == Spec => []CostIsCarried
<1>1. Init => CostIsCarried
  <2> SUFFICES ASSUME Init, NEW t \in Tickers
               PROVE  LET pos == P!Replayed(ledger, t)
                      IN  pos.num * CarriedDen(t) = CarriedNum(t) * pos.den
    BY DEF CostIsCarried
  <2>1. ledger = <<>> /\ Len(ledger) = 0 /\ 0 \in Nat
    BY DEF Init
  <2>2. P!Replayed(ledger, t) = P!Flat
    BY <2>1, InitialFacts
  <2>3. CarriedNum(t) = 0
    <3>1. CarriedNum(t) = SumOf(Terms(t))
      BY DEF CarriedNum, Terms
    <3>2. Terms(t) \in [1 .. 0 -> Int]
      BY <2>1 DEF Terms
    <3>3. PICK sum : PartialSums(sum, Terms(t), 0) /\ SumOf(Terms(t)) = sum[0]
      BY <2>1, <3>2, SumIs
    <3> QED BY <3>1, <3>3 DEF PartialSums
  <2>4. CarriedDen(t) = 1
    <3>1. CarriedDen(t) = ProductOf(Whole(t))
      BY DEF CarriedDen, Whole
    <3>2. Whole(t) \in [1 .. 0 -> Int]
      BY <2>1 DEF Whole
    <3>3. PICK product : PartialProducts(product, Whole(t), 0) /\ ProductOf(Whole(t)) = product[0]
      BY <2>1, <3>2, ProductIs
    <3> QED BY <3>1, <3>3 DEF PartialProducts
  <2> QED BY <2>2, <2>3, <2>4 DEF P!Flat
<1>2. TypeOK /\ TypeOK' /\ AddsUp /\ AddsUp' /\ CostIsCarried /\ [Next]_vars => CostIsCarried'
  <2> SUFFICES ASSUME TypeOK, TypeOK', AddsUp, AddsUp', CostIsCarried, [Next]_vars, NEW t \in Tickers
               PROVE  LET pos == P!Replayed(ledger', t)
                      IN  pos.num * CarriedDen(t)' = CarriedNum(t)' * pos.den
    BY DEF CostIsCarried
  <2>1. CASE UNCHANGED <<ledger, net>>
    <3>1. ledger' = ledger
      BY <2>1
    <3>2. \A n : Until(n)' = Until(n)
      BY <3>1 DEF Until
    <3>3. \A j : Before(t, j)' = Before(t, j) /\ Left(t, j)' = Left(t, j)
      BY <3>2 DEF Before, Left
    <3>4. LongSales(t)' = LongSales(t) /\ Traded(t)' = Traded(t)
      BY <3>1, <3>3 DEF LongSales, Traded
    <3>5. CarriedDen(t)' = CarriedDen(t) /\ \A i : Carried(t, i)' = Carried(t, i)
      BY <3>1, <3>3, <3>4 DEF CarriedDen, Carried
    <3>6. CarriedNum(t)' = CarriedNum(t)
      BY <3>1, <3>4, <3>5 DEF CarriedNum
    <3> QED BY <3>1, <3>5, <3>6 DEF CostIsCarried
  <2>2. ASSUME NEW x \in Txn, Records(x)
        PROVE  LET pos == P!Replayed(ledger', t)
               IN  pos.num * CarriedDen(t)' = CarriedNum(t)' * pos.den
    BY <2>2, CarriedKept
  <2> QED BY <2>1, <2>2, StepRecords
<1> QED BY <1>1, <1>2, AddsUpAlways, PTL DEF Spec
=============================================================================
