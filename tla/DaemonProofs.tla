------------------------------ MODULE DaemonProofs ------------------------------
(***************************************************************************)
(* Proofs about the daemon: types, that whatever is traded has a cached    *)
(* price, and that the concurrent handlers implement the sequential book   *)
(* of Book.tla, from which the bound on short positions is inherited.      *)
(***************************************************************************)
EXTENDS Daemon, TLAPS

(* What a task is entitled to assume at each of its awaits: the strength-  *)
(* ening that makes the invariants inductive.                              *)
JobOK(p) ==
    /\ job[p].op \in {"History", "Buy", "Sell", "RefreshTicker"} => job[p].ticker \in Tickers
    /\ job[p].op \in {"Buy", "Sell"} => job[p].shares \in Lots
    /\ pc[p] = "lookup" => job[p].op \in {"History", "Buy"}
    /\ pc[p] = "resolve" => job[p].op \in {"History", "Buy", "RefreshTicker", "Refresh", "Sweep"}
    /\ pc[p] = "held" => job[p].op \in {"Refresh", "Sweep"}
    /\ pc[p] \in {"send", "wait", "store"} => job[p].ticker \in Tickers
    /\ pc[p] = "answer" => job[p].op = "History"
    /\ pc[p] = "insert" => job[p].op = "Buy"
    /\ pc[p] = "sell" => job[p].op = "Sell"
    /\ pc[p] \in {"store", "insert"} => snap[p] # None

TasksOK == \A p \in Tasks : JobOK(p)

IInv == TypeOK /\ TasksOK /\ LedgerPriced /\ AnswersHaveData

-----------------------------------------------------------------------------
LEMMA ConstantTypes ==
    /\ Lots \subseteq Nat \ {0}
    /\ Lots \subseteq Int
    /\ Prices \subseteq Int
    /\ Closes \subseteq Prices
    /\ None \notin Prices
    /\ None \notin Tickers
    /\ None \notin Snaps
    /\ 0 \in Days
<1>1. Lots \subseteq Nat \ {0}
  <2> SUFFICES ASSUME NEW r \in Requests, validate_shares(r.shares)
               PROVE  r.shares \in Nat \ {0}
    BY DEF Lots
  <2>1. r.shares \in Int \cup {NaN}
    BY DaemonAssumption
  <2> QED BY <2>1 DEF validate_shares
<1>2. Prices \subseteq Int
  <2> SUFFICES ASSUME NEW r \in Requests, r.price # None, validate_price_override(r.price)
               PROVE  r.price \in Int
    BY DaemonAssumption DEF Prices
  <2>1. r.price \in Int \cup {NaN, None}
    BY DaemonAssumption
  <2> QED BY <2>1 DEF validate_price_override
<1>3. None \notin Snaps
  BY DaemonAssumption DEF Snaps
<1> QED BY <1>1, <1>2, <1>3, DaemonAssumption DEF Prices, Days

LEMMA JobTypes ==
    /\ NoJob \in Jobs
    /\ SweepJob \in Jobs
    /\ \A r \in Requests : Valid(r) => 
          [op     |-> r.op,
           ticker |-> IF r.op = "Refresh" THEN None ELSE Upper[r.name],
           shares |-> IF r.op \in {"Buy", "Sell"} THEN r.shares ELSE 0,
           price  |-> IF r.op = "Buy" THEN r.price ELSE None,
           force  |-> r.op = "Refresh" /\ r.force] \in Jobs
<1>1. NoJob \in Jobs /\ SweepJob \in Jobs
  BY DEF NoJob, SweepJob, Jobs
<1>2. ASSUME NEW r \in Requests, Valid(r)
      PROVE  /\ r.op \in Ops
             /\ (IF r.op = "Refresh" THEN None ELSE Upper[r.name]) \in Tickers \cup {None}
             /\ (IF r.op \in {"Buy", "Sell"} THEN r.shares ELSE 0) \in Lots \cup {0}
             /\ (IF r.op = "Buy" THEN r.price ELSE None) \in Prices \cup {None}
             /\ (r.op = "Refresh" /\ r.force) \in BOOLEAN
  <2>1. r.op \in Ops /\ r.force \in BOOLEAN
    BY DaemonAssumption
  <2>2. r.op # "Refresh" => Upper[r.name] \in Tickers
    BY <1>2 DEF Valid, validate_ticker
  <2>3. r.op \in {"Buy", "Sell"} => r.shares \in Lots
    BY <1>2 DEF Valid, Lots
  <2>4. r.op = "Buy" => r.price \in Prices \cup {None}
    BY <1>2 DEF Valid, Prices
  <2> QED BY <2>1, <2>2, <2>3, <2>4
<1> QED BY <1>1, <1>2 DEF Jobs

LEMMA LocalsType ==
    ASSUME TypeOK, NEW p \in Tasks, NEW idle \in Jobs, NEW label \in PcLabels,
           Forget(p, idle, label)
    PROVE  /\ pc' \in [Tasks -> PcLabels]
           /\ job' \in [Tasks -> Jobs]
           /\ todo' \in [Tasks -> SUBSET Tickers]
           /\ today' \in [Tasks -> Days]
           /\ snap' \in [Tasks -> Snaps \cup {None}]
           /\ reply' \in [Tasks -> {"Ok", "Error"}]
  BY ConstantTypes DEF TypeOK, Forget, Goto

LEMMA InsertType ==
    ASSUME TypeOK,
           NEW t \in Tickers, NEW shares \in Int, NEW price \in Prices,
           Insert(t, shares, price)
    PROVE  /\ ledger' \in Seq([ticker : Tickers, shares : Int, price : Prices])
           /\ Len(ledger') <= MaxLedger
           /\ net' \in [Tickers -> Int]
<1>1. [ticker |-> t, shares |-> shares, price |-> price]
        \in [ticker : Tickers, shares : Int, price : Prices]
  OBVIOUS
<1>2. ledger' \in Seq([ticker : Tickers, shares : Int, price : Prices])
  BY <1>1 DEF TypeOK, Insert
<1>3. Len(ledger') <= MaxLedger
  BY <1>1, DaemonAssumption DEF TypeOK, Insert
<1>4. net' \in [Tickers -> Int]
  BY DEF TypeOK, Insert
<1> QED BY <1>2, <1>3, <1>4

-----------------------------------------------------------------------------
LEMMA InitType == Init => TypeOK
<1> SUFFICES ASSUME Init
             PROVE  TypeOK
  OBVIOUS
<1>1. /\ ledger \in Seq([ticker : Tickers, shares : Int, price : Prices])
      /\ Len(ledger) <= MaxLedger
  BY DaemonAssumption DEF Init
<1>2. net \in [Tickers -> Int] /\ cache \in [Tickers -> Snaps \cup {None}]
  BY DEF Init
<1>3. day \in Days /\ provider \in Conditions /\ serving \in BOOLEAN
  BY ConstantTypes DEF Init
<1>4. pc \in [Tasks -> PcLabels]
  BY DEF Init, PcLabels
<1>5. job \in [Tasks -> Jobs]
  BY JobTypes DEF Init
<1>6. /\ todo \in [Tasks -> SUBSET Tickers]
      /\ today \in [Tasks -> Days]
      /\ snap \in [Tasks -> Snaps \cup {None}]
      /\ reply \in [Tasks -> {"Ok", "Error"}]
  BY ConstantTypes DEF Init
<1> QED BY <1>1, <1>2, <1>3, <1>4, <1>5, <1>6 DEF TypeOK

LEMMA NextType == IInv /\ [Next]_vars => TypeOK'
<1> SUFFICES ASSUME TypeOK, TasksOK, [Next]_vars
             PROVE  TypeOK'
  BY DEF IInv
<1> USE ConstantTypes
<1>1. ASSUME NEW p \in Handlers, NEW r \in Requests, Receive(p, r)
      PROVE  TypeOK'
  <2>1. Entry[r.op] \in PcLabels
    BY DaemonAssumption DEF Entry, PcLabels, Ops
  <2>2. p \in Tasks
    BY DEF Tasks
  <2> QED BY <1>1, <2>1, <2>2, JobTypes DEF TypeOK, Receive, Symbol, Goto, db, env
<1>2. ASSUME NEW p \in Handlers, NEW r \in Requests, Refuse(p, r)
      PROVE  TypeOK'
  BY <1>2 DEF TypeOK, Refuse, Reply, Goto, db, env, PcLabels, Tasks
<1>3. ASSUME NEW p \in Tasks, Lookup(p)
      PROVE  TypeOK'
  <2>1. cache[job[p].ticker] # None => cache[job[p].ticker] \in Snaps
    BY <1>3 DEF TypeOK, Lookup, TasksOK, JobOK
  <2> QED BY <1>3, <2>1 DEF TypeOK, Lookup, Goto, db, env, PcLabels
<1>4. ASSUME NEW p \in Tasks, Resolve(p)
      PROVE  TypeOK'
  <2>1. CASE provider # "unset"
    <3>1. today' = [today EXCEPT ![p] = IF p = Sweeper THEN day ELSE @]
      BY <1>4, <2>1 DEF Resolve
    <3>2. today' \in [Tasks -> Days]
      BY <3>1 DEF TypeOK
    <3>3. \E label \in PcLabels : pc' = [pc EXCEPT ![p] = label]
      <4>1. CASE job[p].op = "Refresh"
        BY <1>4, <2>1, <4>1 DEF Resolve, Goto, PcLabels
      <4>2. CASE job[p].op = "Sweep"
        BY <1>4, <2>1, <4>2 DEF Resolve, Goto, PcLabels
      <4>3. CASE job[p].op \notin {"Refresh", "Sweep"}
        BY <1>4, <2>1, <4>3 DEF Resolve, Goto, PcLabels
      <4> QED BY <4>1, <4>2, <4>3
    <3>4. pc' \in [Tasks -> PcLabels]
      BY <3>3 DEF TypeOK
    <3> QED BY <1>4, <2>1, <3>2, <3>4 DEF TypeOK, Resolve, db
  <2>2. CASE provider = "unset" /\ p = Sweeper
    <3>1. Forget(p, NoJob, "asleep") /\ serving' = TRUE
      BY <1>4, <2>2 DEF Resolve
    <3>2. "asleep" \in PcLabels
      BY DEF PcLabels
    <3> QED BY <1>4, <3>1, <3>2, LocalsType, JobTypes DEF TypeOK, Resolve, db
  <2>3. CASE provider = "unset" /\ p # Sweeper
    BY <1>4, <2>3 DEF TypeOK, Resolve, Reply, Goto, db, PcLabels
  <2> QED BY <2>1, <2>2, <2>3
<1>5. ASSUME NEW p \in Tasks, HeldTickers(p)
      PROVE  TypeOK'
  <2>1. held_tickers \in SUBSET Tickers
    BY DEF held_tickers
  <2> QED BY <1>5, <2>1 DEF TypeOK, HeldTickers, Goto, db, env, PcLabels
<1>6. ASSUME NEW p \in Tasks, NEW t \in Tickers, Visit(p, t)
      PROVE  TypeOK'
  <2>1. [job[p] EXCEPT !.ticker = t] \in Jobs
    <3>1. job[p] \in Jobs
      BY DEF TypeOK
    <3> QED BY <3>1 DEF Jobs
  <2>2. job' \in [Tasks -> Jobs]
    <3>1. job' = [job EXCEPT ![p] = [job[p] EXCEPT !.ticker = t]] \/ job' = job
      BY <1>6 DEF Visit
    <3> QED BY <2>1, <3>1 DEF TypeOK
  <2>3. pc' \in [Tasks -> PcLabels] /\ todo' \in [Tasks -> SUBSET Tickers]
    BY <1>6 DEF TypeOK, Visit, Goto, PcLabels
  <2> QED BY <1>6, <2>2, <2>3 DEF TypeOK, Visit, db, env
<1>7. ASSUME NEW p \in Tasks, LoopEnds(p)
      PROVE  TypeOK'
  <2>1. CASE p = Sweeper
    <3>1. Forget(p, NoJob, "asleep") /\ serving' = TRUE
      BY <1>7, <2>1 DEF LoopEnds
    <3>2. "asleep" \in PcLabels
      BY DEF PcLabels
    <3> QED BY <1>7, <3>1, <3>2, LocalsType, JobTypes DEF TypeOK, LoopEnds, db
  <2>2. CASE p # Sweeper
    BY <1>7, <2>2 DEF TypeOK, LoopEnds, Reply, Goto, db, PcLabels
  <2> QED BY <2>1, <2>2
<1>8. ASSUME NEW p \in Tasks, Send(p)
      PROVE  TypeOK'
  BY <1>8 DEF TypeOK, Send, Goto, db, env, locals, PcLabels
<1>9. ASSUME NEW p \in Tasks, Answer(p)
      PROVE  TypeOK'
  BY <1>9 DEF TypeOK, Answer, Goto, db, env, PcLabels, Snaps
<1>10. ASSUME NEW p \in Tasks, Fails(p)
       PROVE  TypeOK'
  BY <1>10 DEF TypeOK, Fails, Reply, Goto, db, env, PcLabels
<1>11. ASSUME NEW p \in Tasks, Store(p)
       PROVE  TypeOK'
  <2>1. snap[p] \in Snaps
    BY <1>11 DEF Store, TypeOK, TasksOK, JobOK
  <2> QED BY <1>11, <2>1 DEF TypeOK, Store, Goto, env, locals, PcLabels
<1>12. ASSUME NEW p \in Tasks, AnswerHistory(p)
       PROVE  TypeOK'
  BY <1>12 DEF TypeOK, AnswerHistory, Reply, Goto, db, env, PcLabels
<1>13. ASSUME NEW p \in Tasks, InsertBuy(p)
       PROVE  TypeOK'
  <2>1. job[p].ticker \in Tickers /\ job[p].shares \in Int
    <3>1. job[p].ticker \in Tickers /\ job[p].shares \in Lots
      BY <1>13 DEF InsertBuy, TasksOK, JobOK
    <3>2. job[p].shares \in Int
      BY <3>1, ConstantTypes, Zenon
    <3> QED BY <3>1, <3>2
  <2>2. FillPrice(p) \in Prices
    BY <1>13 DEF InsertBuy, FillPrice, TasksOK, JobOK, TypeOK, Jobs, Snaps
  <2>3. Insert(job[p].ticker, job[p].shares, FillPrice(p)) /\ UNCHANGED cache
    BY <1>13 DEF InsertBuy, Insert
  <2> QED BY <1>13, <2>1, <2>2, <2>3, InsertType
          DEF TypeOK, InsertBuy, Reply, Goto, env, PcLabels
<1>14. ASSUME NEW p \in Tasks, InsertFails(p)
       PROVE  TypeOK'
  BY <1>14 DEF TypeOK, InsertFails, Reply, Goto, db, env, PcLabels
<1>15. ASSUME NEW p \in Tasks, Sell(p)
       PROVE  TypeOK'
  <2>1. job[p].ticker \in Tickers /\ -job[p].shares \in Int
    <3>1. job[p].ticker \in Tickers /\ job[p].shares \in Lots
      BY <1>15 DEF Sell, TasksOK, JobOK
    <3>2. job[p].shares \in Int
      BY <3>1, ConstantTypes, Zenon
    <3> QED BY <3>1, <3>2
  <2>2. cache[job[p].ticker].price \in Prices
    BY <1>15, <2>1 DEF Sell, Sellable, TypeOK, Snaps
  <2>3. Insert(job[p].ticker, -job[p].shares, cache[job[p].ticker].price) /\ UNCHANGED cache
    BY <1>15 DEF Sell, Insert
  <2> QED BY <1>15, <2>1, <2>2, <2>3, InsertType
          DEF TypeOK, Sell, Reply, Goto, env, PcLabels
<1>16. ASSUME NEW p \in Tasks, SellRefused(p)
       PROVE  TypeOK'
  BY <1>16 DEF TypeOK, SellRefused, Reply, Goto, db, env, PcLabels
<1>17. ASSUME NEW p \in Tasks, Deliver(p)
       PROVE  TypeOK'
  <2>1. "idle" \in PcLabels
    BY DEF PcLabels
  <2> QED BY <1>17, <2>1, LocalsType, JobTypes DEF TypeOK, Deliver, db, env
<1>18. CASE Wake
  BY <1>18, JobTypes DEF TypeOK, Wake, Goto, db, env, PcLabels, Tasks
<1>19. CASE NextDay
  BY <1>19, DaemonAssumption DEF TypeOK, NextDay, db, locals, Days
<1>20. CASE ConditionChanges
  BY <1>20 DEF TypeOK, ConditionChanges, db, locals
<1>21. CASE Crash
  BY <1>21, JobTypes DEF TypeOK, Crash, db, PcLabels
<1>22. CASE UNCHANGED vars
  BY <1>22 DEF TypeOK, vars
<1> QED BY <1>1, <1>2, <1>3, <1>4, <1>5, <1>6, <1>7, <1>8, <1>9, <1>10, <1>11, <1>12,
           <1>13, <1>14, <1>15, <1>16, <1>17, <1>18, <1>19, <1>20, <1>21, <1>22
        DEF Next, Arrive, Step, Loop, Fetch, FetchFails, StoreFails, Trade

-----------------------------------------------------------------------------
LEMMA NextTasks == IInv /\ [Next]_vars => TasksOK'
<1> SUFFICES ASSUME TypeOK, TasksOK, [Next]_vars, NEW q \in Tasks
             PROVE  JobOK(q)'
  BY DEF IInv, TasksOK
<1> USE ConstantTypes
<1>0. JobOK(q) /\ job[q] \in Jobs
  BY DEF TasksOK, TypeOK
<1>1. ASSUME NEW p \in Handlers, NEW r \in Requests, Receive(p, r)
      PROVE  JobOK(q)'
  <2>1. p \in Tasks /\ r.op \in Ops
    BY DaemonAssumption DEF Tasks
  <2>2. CASE q = p
    <3>1. /\ job'[q].op = r.op
          /\ job'[q].ticker = IF r.op = "Refresh" THEN None ELSE Upper[r.name]
          /\ job'[q].shares = IF r.op \in {"Buy", "Sell"} THEN r.shares ELSE 0
          /\ pc'[q] = Entry[r.op]
      BY <1>1, <2>1, <2>2 DEF Receive, Symbol, Goto, TypeOK
    <3>2. r.op # "Refresh" => Upper[r.name] \in Tickers
      BY <1>1 DEF Receive, Valid, validate_ticker
    <3>3. r.op \in {"Buy", "Sell"} => r.shares \in Lots
      BY <1>1 DEF Receive, Valid, Lots
    <3> QED BY <2>1, <3>1, <3>2, <3>3 DEF JobOK, Entry, Ops
  <2>3. CASE q # p
    BY <1>0, <1>1, <2>1, <2>3 DEF Receive, Goto, TypeOK, JobOK
  <2> QED BY <2>2, <2>3
<1>2. ASSUME NEW p \in Handlers, NEW r \in Requests, Refuse(p, r)
      PROVE  JobOK(q)'
  BY <1>0, <1>2 DEF TypeOK, JobOK, Refuse, Reply, Goto, Tasks
<1>3. ASSUME NEW p \in Tasks, Lookup(p)
      PROVE  JobOK(q)'
  BY <1>0, <1>3 DEF TypeOK, JobOK, Lookup, Goto
<1>4. ASSUME NEW p \in Tasks, Resolve(p)
      PROVE  JobOK(q)'
  BY <1>0, <1>4 DEF TypeOK, JobOK, Resolve, Forget, Reply, Goto, NoJob
<1>5. ASSUME NEW p \in Tasks, HeldTickers(p)
      PROVE  JobOK(q)'
  BY <1>0, <1>5 DEF TypeOK, JobOK, HeldTickers, Goto
<1>6. ASSUME NEW p \in Tasks, NEW t \in Tickers, Visit(p, t)
      PROVE  JobOK(q)'
  <2>1. CASE q # p
    BY <1>0, <1>6, <2>1 DEF TypeOK, JobOK, Visit, Goto
  <2>2. CASE q = p /\ UNCHANGED <<pc, job>>
    BY <1>0, <1>6, <2>2 DEF TypeOK, JobOK, Visit
  <2>3. CASE q = p /\ job' = [job EXCEPT ![p].ticker = t] /\ Goto(p, "send")
    <3>1. job'[q] = [job[q] EXCEPT !.ticker = t] /\ pc'[q] = "send"
      BY <2>3 DEF TypeOK, Goto
    <3>2. job'[q].ticker = t /\ job'[q].shares = job[q].shares /\ job'[q].op = job[q].op
      BY <1>0, <3>1 DEF Jobs
    <3> QED BY <1>0, <3>1, <3>2 DEF JobOK
  <2> QED BY <1>6, <2>1, <2>2, <2>3 DEF Visit
<1>7. ASSUME NEW p \in Tasks, LoopEnds(p)
      PROVE  JobOK(q)'
  BY <1>0, <1>7 DEF TypeOK, JobOK, LoopEnds, Forget, Reply, Goto, NoJob
<1>8. ASSUME NEW p \in Tasks, Send(p)
      PROVE  JobOK(q)'
  BY <1>0, <1>8 DEF TypeOK, JobOK, Send, Goto, locals
<1>9. ASSUME NEW p \in Tasks, Answer(p)
      PROVE  JobOK(q)'
  <2>1. PICK close \in Closes :
            snap' = [snap EXCEPT ![p] = [price |-> close, date |-> day]]
    BY <1>9 DEF Answer
  <2>2. [price |-> close, date |-> day] \in Snaps
    BY DEF Snaps, TypeOK
  <2>3. CASE q = p
    <3>1. snap'[q] # None
      BY <2>1, <2>2, <2>3 DEF TypeOK
    <3> QED BY <1>0, <1>9, <2>3, <3>1 DEF TypeOK, JobOK, Answer, Goto
  <2>4. CASE q # p
    BY <1>0, <1>9, <2>1, <2>4 DEF TypeOK, JobOK, Answer, Goto
  <2> QED BY <2>3, <2>4
<1>10. ASSUME NEW p \in Tasks, Fails(p)
      PROVE  JobOK(q)'
  BY <1>0, <1>10 DEF TypeOK, JobOK, Fails, Reply, Goto
<1>11. ASSUME NEW p \in Tasks, Store(p)
      PROVE  JobOK(q)'
  BY <1>0, <1>11 DEF TypeOK, JobOK, Store, Goto, locals
<1>12. ASSUME NEW p \in Tasks, AnswerHistory(p)
      PROVE  JobOK(q)'
  BY <1>0, <1>12 DEF TypeOK, JobOK, AnswerHistory, Reply, Goto
<1>13. ASSUME NEW p \in Tasks, InsertBuy(p)
      PROVE  JobOK(q)'
  BY <1>0, <1>13 DEF TypeOK, JobOK, InsertBuy, Reply, Goto
<1>14. ASSUME NEW p \in Tasks, InsertFails(p)
      PROVE  JobOK(q)'
  BY <1>0, <1>14 DEF TypeOK, JobOK, InsertFails, Reply, Goto
<1>15. ASSUME NEW p \in Tasks, Sell(p)
      PROVE  JobOK(q)'
  BY <1>0, <1>15 DEF TypeOK, JobOK, Sell, Reply, Goto
<1>16. ASSUME NEW p \in Tasks, SellRefused(p)
      PROVE  JobOK(q)'
  BY <1>0, <1>16 DEF TypeOK, JobOK, SellRefused, Reply, Goto
<1>17. ASSUME NEW p \in Tasks, Deliver(p)
      PROVE  JobOK(q)'
  BY <1>0, <1>17 DEF TypeOK, JobOK, Deliver, Forget, Goto, NoJob
<1>18. CASE Wake
  BY <1>0, <1>18 DEF TypeOK, JobOK, Wake, Goto, SweepJob, NoJob, Tasks
<1>19. CASE NextDay
  BY <1>0, <1>19 DEF TypeOK, JobOK, NextDay, locals
<1>20. CASE ConditionChanges
  BY <1>0, <1>20 DEF TypeOK, JobOK, ConditionChanges, locals
<1>21. CASE Crash
  BY <1>0, <1>21 DEF TypeOK, JobOK, Crash, SweepJob, NoJob
<1>22. CASE UNCHANGED vars
  BY <1>0, <1>22 DEF TypeOK, JobOK, vars
<1> QED BY <1>1, <1>2, <1>3, <1>4, <1>5, <1>6, <1>7, <1>8, <1>9, <1>10, <1>11, <1>12, <1>13, <1>14, <1>15, <1>16, <1>17, <1>18, <1>19, <1>20, <1>21, <1>22
        DEF Next, Arrive, Step, Loop, Fetch, FetchFails, StoreFails, Trade

-----------------------------------------------------------------------------
(* Rows of the price cache are replaced, never removed.                    *)
LEMMA CacheKept ==
    ASSUME IInv, [Next]_vars, NEW t \in Tickers, cache[t] # None
    PROVE  cache'[t] # None
<1>1. ASSUME NEW p \in Tasks, Store(p)
      PROVE  cache'[t] # None
  BY <1>1 DEF IInv, TypeOK, TasksOK, JobOK, Store
<1>2. CASE UNCHANGED cache
  BY <1>2
<1> QED BY <1>1, <1>2
        DEF Next, Arrive, Step, Loop, Fetch, FetchFails, StoreFails, Trade, vars, db,
            Receive, Refuse, Lookup, Resolve, HeldTickers, Visit, LoopEnds, Send, Answer,
            Fails, AnswerHistory, InsertBuy, InsertFails, Insert, Sell, SellRefused,
            Deliver, Wake, NextDay, ConditionChanges, Crash

LEMMA NextAnswers == IInv /\ [Next]_vars => AnswersHaveData'
<1> SUFFICES ASSUME IInv, [Next]_vars, NEW q \in Tasks, pc'[q] \in {"answer", "insert"}
             PROVE  cache'[job'[q].ticker] # None
  BY DEF AnswersHaveData
<1> USE ConstantTypes
<1>1. CASE /\ pc[q] \in {"answer", "insert"} /\ job'[q] = job[q]
  <2>1. job[q].ticker \in Tickers /\ cache[job[q].ticker] # None
    BY <1>1 DEF IInv, TasksOK, JobOK, AnswersHaveData
  <2> QED BY <1>1, <2>1, CacheKept
<1>2. CASE Lookup(q)
  BY <1>2 DEF IInv, TypeOK, Lookup, Goto, db
<1>3. CASE Store(q)
  <2>1. job[q].ticker \in Tickers /\ snap[q] # None
    BY <1>3 DEF IInv, TasksOK, JobOK, Store
  <2> QED BY <1>3, <2>1 DEF IInv, TypeOK, Store, locals
<1>4. ASSUME NEW p \in Tasks, Lookup(p) \/ Store(p), p # q
      PROVE  pc[q] \in {"answer", "insert"} /\ job'[q] = job[q]
  BY <1>4 DEF IInv, TypeOK, Lookup, Store, Goto, locals
<1>5. ASSUME NEW p \in Handlers, NEW r \in Requests, Receive(p, r) \/ Refuse(p, r)
      PROVE  pc[q] \in {"answer", "insert"} /\ job'[q] = job[q]
  <2>1. p \in Tasks /\ r.op \in Ops
    BY DaemonAssumption DEF Tasks
  <2> QED BY <1>5, <2>1 DEF IInv, TypeOK, Receive, Refuse, Reply, Goto, Entry, Ops
<1>6. ASSUME NEW p \in Tasks, Resolve(p) \/ HeldTickers(p) \/ LoopEnds(p) \/ Deliver(p)
      PROVE  pc[q] \in {"answer", "insert"} /\ job'[q] = job[q]
  BY <1>6 DEF IInv, TypeOK, Resolve, HeldTickers, LoopEnds, Deliver, Forget, Reply, Goto
<1>7. ASSUME NEW p \in Tasks, NEW t \in Tickers, Visit(p, t)
      PROVE  pc[q] \in {"answer", "insert"} /\ job'[q] = job[q]
  BY <1>7 DEF IInv, TypeOK, Visit, Goto
<1>8. ASSUME NEW p \in Tasks,
             Send(p) \/ Answer(p) \/ Fails(p) \/ AnswerHistory(p) \/ InsertBuy(p)
               \/ InsertFails(p) \/ Sell(p) \/ SellRefused(p)
      PROVE  pc[q] \in {"answer", "insert"} /\ job'[q] = job[q]
  BY <1>8 DEF IInv, TypeOK, Send, Answer, Fails, AnswerHistory, InsertBuy, InsertFails,
              Sell, SellRefused, Reply, Goto, locals
<1>9. CASE Wake \/ NextDay \/ ConditionChanges \/ Crash \/ UNCHANGED vars
  <2>1. pc[q] \in {"answer", "insert"} /\ job'[q] = job[q]
    BY <1>9 DEF IInv, TypeOK, Wake, NextDay, ConditionChanges, Crash, Goto, locals, vars, Tasks
  <2> QED BY <1>1, <2>1
<1> QED BY <1>1, <1>2, <1>3, <1>4, <1>5, <1>6, <1>7, <1>8, <1>9
        DEF Next, Arrive, Step, Loop, Fetch, FetchFails, StoreFails, Trade

LEMMA NextPriced == IInv /\ [Next]_vars => LedgerPriced'
<1> SUFFICES ASSUME IInv, [Next]_vars, NEW i \in DOMAIN ledger'
             PROVE  cache'[ledger'[i].ticker] # None
  BY DEF LedgerPriced
<1>0. /\ ledger \in Seq([ticker : Tickers, shares : Int, price : Prices])
      /\ \A k \in DOMAIN ledger : ledger[k].ticker \in Tickers /\ cache[ledger[k].ticker] # None
  <2> DEFINE Txn == [ticker : Tickers, shares : Int, price : Prices]
  <2>1. ledger \in Seq(Txn)
    BY DEF IInv, TypeOK
  <2>2. \A k \in DOMAIN ledger : ledger[k] \in Txn
    <3> HIDE DEF Txn
    <3> QED BY <2>1
  <2>3. \A k \in DOMAIN ledger : ledger[k].ticker \in Tickers
    BY <2>2
  <2> QED BY <2>1, <2>3 DEF IInv, LedgerPriced
<1>1. CASE UNCHANGED ledger
  BY <1>0, <1>1, CacheKept
<1>2. ASSUME NEW t \in Tickers, cache[t] # None, NEW shares, NEW price, Insert(t, shares, price)
      PROVE  cache'[ledger'[i].ticker] # None
  <2> DEFINE row == [ticker |-> t, shares |-> shares, price |-> price]
  <2>1. ledger' = Append(ledger, row) /\ cache' = cache
    BY <1>2 DEF Insert
  <2>2. row.ticker = t
    OBVIOUS
  <2> HIDE DEF row
  <2>3. i \in 1 .. Len(ledger) + 1 /\ Len(ledger) \in Nat /\ DOMAIN ledger = 1 .. Len(ledger)
    BY <1>0, <2>1
  <2>4. CASE i \in 1 .. Len(ledger)
    <3>1. ledger'[i] = ledger[i]
      BY <1>0, <2>1, <2>3, <2>4
    <3> QED BY <1>0, <2>1, <2>3, <2>4, <3>1
  <2>5. CASE i = Len(ledger) + 1
    <3>1. ledger'[i] = row
      BY <1>0, <2>1, <2>5
    <3> QED BY <1>2, <2>1, <2>2, <3>1
  <2> QED BY <2>3, <2>4, <2>5
<1>3. ASSUME NEW p \in Tasks, InsertBuy(p)
      PROVE  cache'[ledger'[i].ticker] # None
  <2>1. job[p].ticker \in Tickers /\ cache[job[p].ticker] # None
    BY <1>3 DEF IInv, TasksOK, JobOK, AnswersHaveData, InsertBuy
  <2> QED BY <1>2, <1>3, <2>1 DEF InsertBuy
<1>4. ASSUME NEW p \in Tasks, Sell(p)
      PROVE  cache'[ledger'[i].ticker] # None
  <2>1. job[p].ticker \in Tickers /\ cache[job[p].ticker] # None
    BY <1>4 DEF IInv, TasksOK, JobOK, Sell, Sellable
  <2> QED BY <1>2, <1>4, <2>1 DEF Sell
<1> QED BY <1>1, <1>3, <1>4
        DEF Next, Arrive, Step, Loop, Fetch, FetchFails, StoreFails, Trade, vars, db,
            Receive, Refuse, Lookup, Resolve, HeldTickers, Visit, LoopEnds, Send, Answer,
            Fails, Store, AnswerHistory, InsertFails, SellRefused, Deliver, Wake,
            NextDay, ConditionChanges, Crash

THEOREM Invariance == Spec => []IInv
<1>1. Init => IInv
  <2>1. ASSUME Init
        PROVE  TasksOK /\ LedgerPriced /\ AnswersHaveData
    BY <2>1 DEF Init, TasksOK, JobOK, LedgerPriced, AnswersHaveData, NoJob, SweepJob
  <2> QED BY <2>1, InitType DEF IInv
<1>2. IInv /\ [Next]_vars => IInv'
  BY NextType, NextTasks, NextPriced, NextAnswers DEF IInv
<1> QED BY <1>1, <1>2, PTL DEF Spec

(* The variables of the daemon keep their types: in particular no trade is *)
(* recorded without a price and every symbol in the tables is canonical.   *)
THEOREM TypeCorrect == Spec => []TypeOK
<1>1. IInv => TypeOK
  BY DEF IInv
<1> QED BY <1>1, Invariance, PTL

(* Whatever the interleaving of handlers, sweeps, failures and crashes, a  *)
(* ticker on the ledger has a row in the price cache.                      *)
THEOREM TradedIsPriced == Spec => []LedgerPriced
<1>1. IInv => LedgerPriced
  BY DEF IInv
<1> QED BY <1>1, Invariance, PTL

(* A handler past its fetch finds the row it needs: History never answers  *)
(* "no data" once its own fetch went well.                                 *)
THEOREM DataAtAnswer == Spec => []AnswersHaveData
<1>1. IInv => AnswersHaveData
  BY DEF IInv
<1> QED BY <1>1, Invariance, PTL

-----------------------------------------------------------------------------
(* The constants of the daemon meet the assumption of the book.            *)
LEMMA BookAssumptionHolds == PaperBook!BookAssumption
  BY ConstantTypes, DaemonAssumption DEF PaperBook!BookAssumption

LEMMA QuotesUnchanged == ASSUME UNCHANGED cache PROVE UNCHANGED Quotes
  BY DEF Quotes

(* The concurrent daemon implements the sequential book: every step is one *)
(* trade, one new quote, or a stutter.                                     *)
THEOREM Implements == Spec => ImplementsBook
<1> USE ConstantTypes
<1>1. Init => PaperBook!Init
  BY DEF Init, PaperBook!Init, Quotes
<1>2. IInv /\ [Next]_vars => [PaperBook!Next]_PaperBook!vars
  <2> SUFFICES ASSUME IInv, [Next]_vars
               PROVE  PaperBook!Next \/ UNCHANGED PaperBook!vars
    OBVIOUS
  <2>1. ASSUME NEW p \in Tasks, InsertBuy(p)
        PROVE  PaperBook!Next
    <3>1. job[p].ticker \in Tickers /\ job[p].shares \in Lots /\ cache[job[p].ticker] # None
      BY <2>1 DEF IInv, TasksOK, JobOK, AnswersHaveData, InsertBuy
    <3>2. FillPrice(p) \in Prices
      BY <2>1 DEF InsertBuy, FillPrice, IInv, TasksOK, JobOK, TypeOK, Jobs, Snaps
    <3>3. Quotes[job[p].ticker] # None
      BY <3>1 DEF Quotes, IInv, TypeOK, Snaps
    <3>4. PaperBook!Insert(job[p].ticker, job[p].shares, FillPrice(p)) /\ UNCHANGED Quotes
      BY <2>1, QuotesUnchanged DEF InsertBuy, Insert, PaperBook!Insert
    <3> QED BY <3>1, <3>2, <3>3, <3>4 DEF PaperBook!Next, PaperBook!Buy
  <2>2. ASSUME NEW p \in Tasks, Sell(p)
        PROVE  PaperBook!Next
    <3>1. /\ job[p].ticker \in Tickers /\ job[p].shares \in Lots
          /\ cache[job[p].ticker] # None
          /\ job[p].shares <= Held(job[p].ticker) + Eps
      BY <2>2 DEF IInv, TasksOK, JobOK, Sell, Sellable
    <3>2. Quotes[job[p].ticker] = cache[job[p].ticker].price /\ Quotes[job[p].ticker] # None
      BY <3>1 DEF Quotes, IInv, TypeOK, Snaps
    <3>3. PaperBook!Insert(job[p].ticker, -job[p].shares, Quotes[job[p].ticker])
            /\ UNCHANGED Quotes
      BY <2>2, <3>2, QuotesUnchanged DEF Sell, Insert, PaperBook!Insert
    <3> QED BY <3>1, <3>2, <3>3 DEF PaperBook!Next, PaperBook!Sell, PaperBook!Held, Held
  <2>3. ASSUME NEW p \in Tasks, Store(p)
        PROVE  PaperBook!Next
    <3> DEFINE t == job[p].ticker
    <3>1. t \in Tickers /\ snap[p] \in Snaps
      BY <2>3 DEF IInv, TypeOK, TasksOK, JobOK, Store
    <3>2. cache' = [cache EXCEPT ![t] = snap[p]] /\ UNCHANGED <<ledger, net>>
      BY <2>3 DEF Store
    <3>3. snap[p].price \in Prices /\ snap[p] # None
      BY <3>1 DEF Snaps
    <3> HIDE DEF t
    <3>4. Quotes' = [Quotes EXCEPT ![t] = snap[p].price]
      BY <3>1, <3>2, <3>3 DEF Quotes, IInv, TypeOK
    <3> QED BY <3>1, <3>2, <3>3, <3>4 DEF PaperBook!Next, PaperBook!Quote
  <2>4. CASE UNCHANGED <<ledger, net, cache>>
    BY <2>4, QuotesUnchanged DEF PaperBook!vars
  <2> QED BY <2>1, <2>2, <2>3, <2>4
        DEF Next, Arrive, Step, Loop, Fetch, FetchFails, StoreFails, Trade, vars, db,
            Receive, Refuse, Lookup, Resolve, HeldTickers, Visit, LoopEnds, Send, Answer,
            Fails, AnswerHistory, InsertFails, SellRefused, Deliver, Wake,
            NextDay, ConditionChanges, Crash
<1> QED BY <1>1, <1>2, Invariance, PTL DEF Spec, ImplementsBook, PaperBook!Spec

-----------------------------------------------------------------------------
BookFacts == INSTANCE BookProofs WITH quote <- Quotes

\* Every behaviour of the daemon is one of the book.
LEMMA IsBook == Spec => BookFacts!Spec
<1>1. PaperBook!Init => BookFacts!Init
  BY DEF PaperBook!Init, BookFacts!Init
<1>2. [PaperBook!Next]_PaperBook!vars => [BookFacts!Next]_BookFacts!vars
  BY DEF PaperBook!Next, PaperBook!vars, PaperBook!Quote, PaperBook!Buy, PaperBook!Sell,
         PaperBook!Insert, PaperBook!Held, BookFacts!Next, BookFacts!vars, BookFacts!Quote,
         BookFacts!Buy, BookFacts!Sell, BookFacts!Insert, BookFacts!Held
<1> QED BY <1>1, <1>2, Implements, PTL DEF ImplementsBook, PaperBook!Spec, BookFacts!Spec

(* Concurrent sells cannot sell the same shares twice: the bound proved of *)
(* the sequential book holds of the daemon.                                *)
THEOREM ShortIsBounded == Spec => []ShortBounded
<1>1. BookFacts!Spec => []BookFacts!ShortBounded
  BY BookAssumptionHolds, BookFacts!ShortIsBounded, PTL
<1>2. BookFacts!ShortBounded => ShortBounded
  BY DEF ShortBounded, PaperBook!ShortBounded, BookFacts!ShortBounded, PaperBook!Sales,
         BookFacts!Sales, PaperBook!Cardinality, BookFacts!Cardinality
<1> QED BY <1>1, <1>2, IsBook, PTL

(* Whatever the handlers and the sweep race with and wherever the daemon   *)
(* crashes, the accounts it makes of its ledger are those of the book: the *)
(* replay and the SQL aggregate agree, no cost basis is lost or invented,  *)
(* and an average cost lies between two prices paid.                       *)
THEOREM AccountsHold ==
    Spec => [](/\ BookFacts!ReplayIsSum
               /\ BookFacts!CostIsCarried
               /\ BookFacts!AverageWithinPaid)
<1>1. BookFacts!Spec => []BookFacts!ReplayIsSum
  BY BookAssumptionHolds, BookFacts!ReplaySums, PTL
<1>2. BookFacts!Spec => []BookFacts!CostIsCarried
  BY BookAssumptionHolds, BookFacts!CostIsAlwaysCarried, PTL
<1>3. BookFacts!Spec => []BookFacts!AverageWithinPaid
  BY BookAssumptionHolds, BookFacts!AverageIsWithinPaid, PTL
<1> QED BY <1>1, <1>2, <1>3, IsBook, PTL
=============================================================================
