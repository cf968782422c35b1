------------------------------- MODULE TuiProofs -------------------------------
(***************************************************************************)
(* Proofs about tickerc: its types, the row cursor, whose chart is shown,  *)
(* and the slot that keeps a second job from being queued, for any number  *)
(* of holdings in any order, and any mix of keys and outside events.       *)
(***************************************************************************)
EXTENDS Tui, FiniteSetTheorems, SequenceTheorems, TLAPS

LEMMA Constants ==
    /\ IsFiniteSet(Tickers) /\ Tickers # {}
    /\ "blank" \in Typed
    /\ None \notin Tickers /\ None \notin Nat /\ None \notin {"Refresh", "Trade"}
BY TuiAssumption

-----------------------------------------------------------------------------
(* Rows.                                                                   *)

LEMMA Rows ==
    ASSUME NEW S, S \subseteq Tickers
    PROVE  /\ IsFiniteSet(S)
           /\ Cardinality(S) \in Nat
           /\ Cardinality(S) <= Cardinality(Tickers)
           /\ S # {} => Cardinality(S) > 0
<1>1. IsFiniteSet(S) /\ Cardinality(S) <= Cardinality(Tickers)
  BY Constants, FS_Subset
<1>2. Cardinality(S) \in Nat
  BY <1>1, FS_CardinalityType
<1>3. S # {} => Cardinality(S) # 0
  BY <1>1, FS_EmptySet
<1> QED BY <1>1, <1>2, <1>3

\* A list has no more rows than there are symbols, and a symbol in each.
LEMMA ListTyped ==
    ASSUME NEW R \in Lists
    PROVE  /\ Len(R) \in Nat /\ Len(R) <= Cardinality(Tickers)
           /\ Range(R) \subseteq Tickers
           /\ R # <<>> => Len(R) > 0
           /\ \A i \in 0..(Len(R) - 1) : RowAt(R, i) \in Tickers
<1>1. PICK S \in SUBSET Tickers : R \in Listings(S)
  BY DEF Lists
<1>2. Cardinality(S) \in Nat /\ Cardinality(S) <= Cardinality(Tickers)
  BY Rows
<1>3. R \in [1..Cardinality(S) -> S] /\ Range(R) = S
  BY <1>1 DEF Listings
<1>4. R \in Seq(S) /\ Len(R) = Cardinality(S)
  BY <1>2, <1>3, LenProperties
<1>5. R # <<>> => Len(R) > 0
  BY <1>4, EmptySeq
<1>6. ASSUME NEW i \in 0..(Len(R) - 1) PROVE RowAt(R, i) \in Tickers
  <2>1. i + 1 \in 1..Cardinality(S)
    BY <1>2, <1>4
  <2> QED BY <1>3, <2>1 DEF RowAt
<1> QED BY <1>2, <1>3, <1>4, <1>5, <1>6

LEMMA RevaluedTyped ==
    ASSUME NEW S, S \subseteq Tickers, NEW t, NEW R \in Revalued(t, S)
    PROVE  R \in Lists
BY DEF Revalued, Lists

\* selected_holding finds a holding exactly when the cursor is within them.
LEMMA SelectedRow ==
    ASSUME NEW R \in Lists, NEW s \in Nat \cup {None}
    PROVE  /\ Selected(R, s) \in Tickers \cup {None}
           /\ s \in 0..(Len(R) - 1) => Selected(R, s) \in Tickers
<1>1. Len(R) \in Nat /\ \A i \in 0..(Len(R) - 1) : RowAt(R, i) \in Tickers
  BY ListTyped
<1>2. s \in Nat /\ s < Len(R) => s \in 0..(Len(R) - 1)
  BY <1>1
<1>3. s \in 0..(Len(R) - 1) => s # None /\ s < Len(R)
  BY <1>1, Constants
<1> QED BY <1>1, <1>2, <1>3 DEF Selected

LEMMA CursorAfter ==
    ASSUME NEW R \in Lists, R # <<>>, NEW s \in Nat \cup {None}
    PROVE  /\ SelectAfter(R, s) \in 0..(Len(R) - 1)
           /\ \A delta \in {-1, 1} : MoveTable(R, s, delta) \in 0..(Len(R) - 1)
<1>1. Len(R) \in Nat /\ Len(R) > 0
  BY ListTyped
<1>2. SelectAfter(R, s) \in 0..(Len(R) - 1)
  BY <1>1 DEF SelectAfter
<1>3. ASSUME NEW delta \in {-1, 1} PROVE MoveTable(R, s, delta) \in 0..(Len(R) - 1)
  <2> DEFINE k == (IF s = None THEN 0 ELSE s) + delta
  <2>1. k \in Int
    OBVIOUS
  <2>2. k % Len(R) \in 0..(Len(R) - 1)
    <3> HIDE DEF k
    <3> QED BY <1>1, <2>1
  <2> QED BY <2>2 DEF MoveTable
<1> QED BY <1>2, <1>3

-----------------------------------------------------------------------------
(* Types, with where the cursor may be while there are rows.               *)

Cursor == rows # <<>> => sel \in 0..(Len(rows) - 1)

\* A call is about a ticker.
Calls == wpc = "call" => todo # {}

TypeInv == TypeOK /\ Cursor /\ Calls

SelType == 0..(Cardinality(Tickers) - 1) \cup {None}

LEMMA CursorTyped ==
    ASSUME NEW R \in Lists, NEW s \in 0..(Len(R) - 1)
    PROVE  s \in SelType /\ s \in Nat
<1>1. /\ Len(R) \in Nat /\ Cardinality(Tickers) \in Nat
      /\ Len(R) <= Cardinality(Tickers)
  BY Rows, ListTyped
<1> QED BY <1>1 DEF SelType

LEMMA SelIsNat == ASSUME NEW s \in SelType PROVE s \in Nat \cup {None}
BY Rows, Constants DEF SelType

LEMMA ReloadTyped ==
    ASSUME TypeInv, ReloadSummary
    PROVE  rows' \in Lists /\ old' \subseteq Range(rows') /\ sel' \in SelType /\ Cursor'
<1>1. CASE UNCHANGED view
  BY <1>1 DEF TypeInv, TypeOK, view, Cursor, SelType
<1>2. CASE rows' = held /\ old' = Range(held) \cap stale /\ sel' = SelectAfter(held, sel)
  <2>1. held \in Lists /\ sel \in Nat \cup {None}
    BY SelIsNat DEF TypeInv, TypeOK, SelType
  <2>2. CASE held = <<>>
    BY <1>2, <2>1, <2>2 DEF SelectAfter, Cursor, SelType
  <2>3. CASE held # <<>>
    <3>1. sel' \in 0..(Len(held) - 1)
      BY <1>2, <2>1, <2>3, CursorAfter
    <3> QED BY <1>2, <2>1, <3>1, CursorTyped DEF Cursor
  <2> QED BY <2>2, <2>3
<1> QED BY <1>1, <1>2 DEF ReloadSummary

LEMMA MoveTyped ==
    ASSUME TypeInv, NEW delta \in {-1, 1}, sel' = MoveTable(rows, sel, delta), rows' = rows
    PROVE  sel' \in SelType /\ Cursor'
<1>1. rows \in Lists /\ sel \in Nat \cup {None}
  BY SelIsNat DEF TypeInv, TypeOK, SelType
<1>2. CASE rows = <<>>
  BY <1>2 DEF MoveTable, Cursor, SelType
<1>3. CASE rows # <<>>
  <2>1. sel' \in 0..(Len(rows) - 1)
    BY <1>1, <1>3, CursorAfter
  <2> QED BY <1>1, <2>1, CursorTyped DEF Cursor
<1> QED BY <1>2, <1>3

LEMMA SelectedTyped ==
    ASSUME NEW R \in Lists, NEW s \in SelType
    PROVE  Selected(R, s) \in Tickers \cup {None}
BY SelIsNat, SelectedRow

LEMMA ChartTyped ==
    ASSUME NEW t \in Tickers \cup {None}, NEW shown \in Tickers \cup {None},
           NEW for \in Tickers \cup {None}, LoadDetail(t, shown, for)
    PROVE  detail' \in Tickers \cup {None} /\ loaded' \in Tickers \cup {None}
BY DEF LoadDetail

\* A step that leaves what TypeInv is about but the loop's label and tab.
LEMMA LoopMoves ==
    ASSUME TypeInv, UNCHANGED <<view, chart, job, batch, channel, worker, daemon>>,
           apc' \in {"boot", "drain", "fold", "key", "quit"},
           tab' \in {Tabs[i] : i \in 1..4}, form' \in Forms
    PROVE  TypeInv'
BY DEF TypeInv, TypeOK, Cursor, Calls, view, chart, channel, worker, daemon

LEMMA TabsAre == {Tabs[i] : i \in 1..4} = {"Portfolio", "Detail", "Trade", "Transactions"}
<1>1. 1..4 = {1, 2, 3, 4}
  OBVIOUS
<1> QED BY <1>1 DEF Tabs

\* The keys that only change the form.
LEMMA Edits ==
    ASSUME form \in Forms, StepField \/ StepFieldBack \/ Flip \/ TypeInto \/ StartEditing
    PROVE  \E k : \E f \in Forms : InForm(k, f)
<1>1. CASE StepField
  <2>1. PICK k : InForm(k, [form EXCEPT !.field = NextField(@, form.side)])
    BY <1>1 DEF StepField
  <2>2. NextField(form.field, form.side) \in Fields
    BY DEF NextField, Forms, Fields, Sides
  <2>3. [form EXCEPT !.field = NextField(@, form.side)] \in Forms
    BY <2>2 DEF Forms
  <2> QED BY <2>1, <2>3
<1>2. CASE StepFieldBack
  <2>1. PICK k : InForm(k, [form EXCEPT !.field = PrevField(@, form.side)])
    BY <1>2 DEF StepFieldBack
  <2>2. PrevField(form.field, form.side) \in Fields
    BY DEF PrevField, Forms, Fields, Sides
  <2>3. [form EXCEPT !.field = PrevField(@, form.side)] \in Forms
    BY <2>2 DEF Forms
  <2> QED BY <2>1, <2>3
<1>3. CASE Flip
  <2>1. [form EXCEPT !.side = IF @ = "Buy" THEN "Sell" ELSE "Buy"] \in Forms
    BY DEF Forms, Sides
  <2> QED BY <1>3, <2>1 DEF Flip
<1>4. CASE TypeInto
  <2>1. \/ \E t \in Tickers \cup {None} : InForm("Type", [form EXCEPT !.ticker = t])
        \/ \E v \in Typed : InForm("Type", [form EXCEPT !.shares = v])
        \/ \E v \in Typed : InForm("Type", [form EXCEPT !.price = v])
    BY <1>4 DEF TypeInto, Forms, Fields
  <2>2. /\ \A t \in Tickers \cup {None} : [form EXCEPT !.ticker = t] \in Forms
        /\ \A v \in Typed : [form EXCEPT !.shares = v] \in Forms /\ [form EXCEPT !.price = v] \in Forms
    BY DEF Forms
  <2> QED BY <2>1, <2>2
<1>5. CASE StartEditing
  <2>1. [form EXCEPT !.mode = "Edit"] \in Forms
    BY DEF Forms
  <2> QED BY <1>5, <2>1 DEF StartEditing
<1> QED BY <1>1, <1>2, <1>3, <1>4, <1>5

\* What no such key does, nor Esc, nor one that is not bound.
LEMMA FormKeysAreQuiet ==
    ASSUME form \in Forms, tab \in {Tabs[i] : i \in 1..4},
           NoKey \/ Quit \/ Esc \/ StepField \/ StepFieldBack \/ Flip \/ TypeInto \/ StartEditing
    PROVE  /\ UNCHANGED <<view, chart, job, batch, channel, worker, daemon>>
           /\ apc' \in {"drain", "quit"} /\ tab' \in {tab, "Portfolio"} /\ form' \in Forms
<1>1. CASE NoKey \/ Quit
  BY <1>1 DEF NoKey, Quit, app, Go
<1>2. CASE Esc
  <2>1. form' \in Forms /\ tab' \in {tab, "Portfolio"}
    BY <1>2 DEF Esc, Forms
  <2> QED BY <1>2, <2>1 DEF Esc, Press, NoSubmit, Go, channel
<1>3. CASE StepField \/ StepFieldBack \/ Flip \/ TypeInto \/ StartEditing
  <2>1. PICK k : \E f \in Forms : InForm(k, f)
    BY <1>3, Edits
  <2> QED BY <2>1 DEF InForm, Press, NoSubmit, Go, channel
<1> QED BY <1>1, <1>2, <1>3

LEMMA FormKeys ==
    ASSUME TypeInv, NoKey \/ Quit \/ Esc \/ StepField \/ StepFieldBack \/ Flip \/ TypeInto
                    \/ StartEditing
    PROVE  TypeInv'
<1>1. tab \in {Tabs[i] : i \in 1..4} /\ form \in Forms
  BY DEF TypeInv, TypeOK
<1>2. tab' \in {Tabs[i] : i \in 1..4}
  BY <1>1, TabsAre, FormKeysAreQuiet
<1> QED BY <1>1, <1>2, FormKeysAreQuiet, LoopMoves

\* A job handed over is for holdings of the client, or the form's ticker.
LEMMA SubmitTyped ==
    ASSUME TypeOK, NEW R, R \subseteq Tickers, NEW isReady, NEW force \in BOOLEAN,
           StartRefresh(isReady, R, force)
    PROVE  jobs' \in Seq(Jobs) /\ job' \in {"Refresh", "Trade", None}
<1> DEFINE j == [kind |-> "Refresh", tickers |-> R, side |-> "Buy", force |-> force]
<1>1. j \in Jobs
  BY DEF Jobs, Sides
<1>2. CASE Submit(j)
  BY <1>1, <1>2, AppendProperties DEF Submit, TypeOK
<1>3. CASE NoSubmit
  BY <1>3 DEF NoSubmit, TypeOK
<1> QED BY <1>2, <1>3 DEF StartRefresh

LEMMA LoopTyped ==
    ASSUME TypeInv, UNCHANGED <<worker, daemon>>,
           apc' \in {"boot", "drain", "fold", "key", "quit"},
           tab' \in {Tabs[i] : i \in 1..4}, form' \in Forms,
           rows' \in Lists, old' \subseteq Range(rows'), sel' \in SelType, Cursor',
           detail' \in Tickers \cup {None}, loaded' \in Tickers \cup {None},
           job' \in {"Refresh", "Trade", None}, jobs' \in Seq(Jobs),
           updates' \in Seq(Updates), batch' \in Seq(Updates)
    PROVE  TypeInv'
BY DEF TypeInv, TypeOK, Calls, worker, daemon, SelType

LEMMA ActingKeys ==
    ASSUME TypeInv, SubmitTrade \/ StartTrade("b", "Buy") \/ StartTrade("s", "Sell")
                    \/ Refresh("r", FALSE) \/ Refresh("R", TRUE)
    PROVE  TypeInv'
<1>0. /\ tab \in {Tabs[i] : i \in 1..4} /\ form \in Forms
      /\ rows \in Lists /\ old \subseteq Range(rows) /\ sel \in SelType /\ Cursor
      /\ detail \in Tickers \cup {None} /\ loaded \in Tickers \cup {None}
      /\ job \in {"Refresh", "Trade", None} /\ jobs \in Seq(Jobs)
      /\ updates \in Seq(Updates) /\ batch \in Seq(Updates)
  BY DEF TypeInv, TypeOK, SelType
<1>1. CASE SubmitTrade
  <2> DEFINE j == [kind |-> "Trade", tickers |-> {form.ticker}, side |-> form.side,
                   force |-> FALSE]
  <2>1. form.ticker # None => j \in Jobs
    BY <1>0 DEF Jobs, Forms
  <2>2. jobs' \in Seq(Jobs) /\ job' \in {"Refresh", "Trade", None}
    <3>1. CASE NoSubmit
      BY <1>0, <3>1 DEF NoSubmit
    <3>2. CASE form.ticker # None /\ Submit(j)
      BY <1>0, <2>1, <3>2, AppendProperties DEF Submit
    <3> QED BY <1>1, <3>1, <3>2 DEF SubmitTrade
  <2>3. UNCHANGED <<tab, form, rows, old, sel, detail, loaded, batch, updates, worker, daemon>>
        /\ apc' = "drain"
    BY <1>1 DEF SubmitTrade, Press, Go, app, view, chart
  <2> QED BY <1>0, <2>2, <2>3, LoopTyped DEF Cursor
<1>2. CASE StartTrade("b", "Buy") \/ StartTrade("s", "Sell")
  <2>1. PICK k \in {"b", "s"}, side \in Sides : StartTrade(k, side)
    BY <1>2 DEF Sides
  <2>2. Selected(rows, sel) \in Tickers \cup {None}
    BY <1>0, SelectedTyped
  <2>3. form' \in Forms /\ tab' \in {Tabs[i] : i \in 1..4}
    BY <1>0, <2>1, <2>2, TabsAre, Constants DEF StartTrade, Forms, Fields
  <2> QED BY <1>0, <2>1, <2>3, LoopMoves DEF StartTrade, Press, Go, NoSubmit, channel
<1>3. CASE Refresh("r", FALSE) \/ Refresh("R", TRUE)
  <2>1. PICK k \in {"r", "R"}, force \in BOOLEAN : Refresh(k, force)
    BY <1>3
  <2>2. ToRefresh(force) \subseteq Tickers
    BY <1>0, ListTyped DEF ToRefresh
  <2>3. jobs' \in Seq(Jobs) /\ job' \in {"Refresh", "Trade", None}
    BY <2>1, <2>2, SubmitTyped DEF Refresh, TypeInv
  <2>4. UNCHANGED <<tab, form, rows, old, sel, detail, loaded, batch, updates, worker, daemon>>
        /\ apc' = "drain"
    BY <2>1 DEF Refresh, Press, Go, view, chart
  <2> QED BY <1>0, <2>3, <2>4, LoopTyped DEF Cursor
<1> QED BY <1>1, <1>2, <1>3

LEMMA MovingKeys ==
    ASSUME TypeInv, CycleTab \/ Jump \/ OpenDetail \/ MoveCursor("Up", -1) \/ MoveCursor("Down", 1)
    PROVE  TypeInv'
<1>0. /\ tab \in {Tabs[i] : i \in 1..4} /\ form \in Forms
      /\ rows \in Lists /\ old \subseteq Range(rows) /\ sel \in SelType /\ Cursor
      /\ detail \in Tickers \cup {None} /\ loaded \in Tickers \cup {None}
      /\ job \in {"Refresh", "Trade", None} /\ jobs \in Seq(Jobs)
      /\ updates \in Seq(Updates) /\ batch \in Seq(Updates)
  BY DEF TypeInv, TypeOK, SelType
<1>1. ASSUME NEW k, NEW t \in {Tabs[i] : i \in 1..4}, GoTo(k, t) PROVE TypeInv'
  <2>1. Selected(rows, sel) \in Tickers \cup {None}
    BY <1>0, SelectedTyped
  <2>2. detail' \in Tickers \cup {None} /\ loaded' \in Tickers \cup {None}
    <3>1. CASE LoadDetail(Selected(rows, sel), detail, loaded)
      BY <1>0, <2>1, <3>1, ChartTyped
    <3>2. CASE UNCHANGED chart
      BY <1>0, <3>2 DEF chart
    <3> QED BY <1>1, <3>1, <3>2 DEF GoTo
  <2>3. form' \in Forms /\ tab' \in {Tabs[i] : i \in 1..4}
    BY <1>0, <1>1 DEF GoTo, Forms
  <2>4. UNCHANGED <<rows, old, sel, job, jobs, batch, updates, worker, daemon>> /\ apc' = "drain"
    BY <1>1 DEF GoTo, Press, Go, NoSubmit, view
  <2> QED BY <1>0, <2>2, <2>3, <2>4, LoopTyped DEF Cursor
<1>2. CASE CycleTab \/ Jump \/ OpenDetail
  <2>1. \E k : \E t \in {Tabs[i] : i \in 1..4} : GoTo(k, t)
    <3>1. CASE CycleTab
      <4> DEFINE here == CHOOSE i \in 1..4 : Tabs[i] = tab
      <4>1. here \in 1..4
        BY <1>0
      <4> HIDE DEF here
      <4>2. (here % 4) + 1 \in 1..4 /\ ((here + 2) % 4) + 1 \in 1..4
        BY <4>1
      <4>3. GoTo("Tab", Tabs[(here % 4) + 1]) \/ GoTo("BackTab", Tabs[((here + 2) % 4) + 1])
        BY <3>1 DEF CycleTab, here
      <4> QED BY <4>2, <4>3
    <3>2. CASE Jump \/ OpenDetail
      BY <3>2, TabsAre DEF Jump, OpenDetail
    <3> QED BY <1>2, <3>1, <3>2
  <2> QED BY <1>1, <2>1
<1>3. ASSUME NEW k, NEW delta \in {-1, 1}, MoveCursor(k, delta) PROVE TypeInv'
  <2>1. sel' = MoveTable(rows, sel, delta) /\ rows' = rows /\ old' = old
    BY <1>3 DEF MoveCursor
  <2>2. sel' \in SelType /\ Cursor'
    BY <2>1, MoveTyped
  <2>3. Selected(rows, sel') \in Tickers \cup {None}
    BY <1>0, <2>2, SelectedTyped
  <2>4. detail' \in Tickers \cup {None} /\ loaded' \in Tickers \cup {None}
    <3>1. CASE LoadDetail(Selected(rows, sel'), None, None)
      BY <2>3, <3>1, ChartTyped
    <3>2. CASE UNCHANGED chart
      BY <1>0, <3>2 DEF chart
    <3> QED BY <1>3, <3>1, <3>2 DEF MoveCursor
  <2>5. UNCHANGED <<tab, form, job, jobs, batch, updates, worker, daemon>> /\ apc' = "drain"
    BY <1>3 DEF MoveCursor, Press, Go, NoSubmit
  <2> QED BY <1>0, <2>1, <2>2, <2>4, <2>5, LoopTyped
<1> QED BY <1>2, <1>3

LEMMA LoopSteps ==
    ASSUME TypeInv, Boot \/ Drain \/ Folded \/ Fold \/ AppLost
    PROVE  TypeInv'
<1>0. /\ tab \in {Tabs[i] : i \in 1..4} /\ form \in Forms
      /\ rows \in Lists /\ old \subseteq Range(rows) /\ sel \in SelType /\ Cursor
      /\ detail \in Tickers \cup {None} /\ loaded \in Tickers \cup {None}
      /\ job \in {"Refresh", "Trade", None} /\ jobs \in Seq(Jobs)
      /\ updates \in Seq(Updates) /\ batch \in Seq(Updates)
  BY DEF TypeInv, TypeOK, SelType
<1>1. CASE Boot
  <2>1. rows' \in Lists /\ old' \subseteq Range(rows') /\ sel' \in SelType /\ Cursor'
    BY <1>1, ReloadTyped DEF Boot
  <2>2. old' \subseteq Tickers
    BY <2>1, ListTyped
  <2>3. jobs' \in Seq(Jobs) /\ job' \in {"Refresh", "Trade", None}
    BY <1>1, <2>2, SubmitTyped DEF Boot, TypeInv
  <2>4. UNCHANGED <<tab, form, detail, loaded, batch, updates, worker, daemon>> /\ apc' = "drain"
    BY <1>1 DEF Boot, Go, chart
  <2> QED BY <1>0, <2>1, <2>3, <2>4, LoopTyped
<1>2. CASE Drain \/ Folded \/ AppLost
  <2>1. batch' \in Seq(Updates) /\ updates' \in Seq(Updates)
    BY <1>0, <1>2, EmptySeq DEF Drain, Folded, AppLost, channel
  <2>2. UNCHANGED <<app, job, jobs, worker, daemon>> /\ apc' \in {"fold", "key", "quit"}
    BY <1>2 DEF Drain, Folded, AppLost, Go, channel
  <2> QED BY <1>0, <2>1, <2>2, LoopTyped DEF app, view, chart, Cursor
<1>3. CASE Fold
  <2>1. /\ batch' \in Seq(Updates)
        /\ UNCHANGED <<jobs, updates, worker, daemon>>
        /\ apc' = apc /\ apc = "fold"
    <3>1. PICK kinds : Folding(kinds)
      BY <1>3 DEF Fold, FoldProgress, FoldRefreshed, FoldTraded, FoldTradeFailed, FoldDisconnected
    <3> QED BY <1>0, <3>1, HeadTailProperties DEF Folding, channel
  <2>2. job' \in {"Refresh", "Trade", None}
    BY <1>0, <1>3 DEF Fold, FoldProgress, FoldRefreshed, FoldTraded, FoldTradeFailed, FoldDisconnected
  <2>3. CASE FoldProgress \/ FoldTradeFailed \/ FoldDisconnected
    <3>1. UNCHANGED <<tab, form, rows, old, sel, detail, loaded>>
      BY <2>3 DEF FoldProgress, FoldTradeFailed, FoldDisconnected, view, chart
    <3> QED BY <1>0, <2>1, <2>2, <3>1, LoopTyped DEF Cursor
  <2>4. CASE FoldRefreshed
    <3>1. rows' \in Lists /\ old' \subseteq Range(rows') /\ sel' \in SelType /\ Cursor'
      BY <2>4, ReloadTyped DEF FoldRefreshed
    <3>2. Selected(rows', sel') \in Tickers \cup {None}
      BY <3>1, SelectedTyped
    <3>3. detail' \in Tickers \cup {None} /\ loaded' \in Tickers \cup {None}
      <4>1. CASE LoadDetail(Selected(rows', sel'), None, None)
        BY <3>2, <4>1, ChartTyped
      <4>2. CASE UNCHANGED chart
        BY <1>0, <4>2 DEF chart
      <4> QED BY <2>4, <4>1, <4>2 DEF FoldRefreshed
    <3>4. UNCHANGED <<tab, form>>
      BY <2>4 DEF FoldRefreshed
    <3> QED BY <1>0, <2>1, <2>2, <3>1, <3>3, <3>4, LoopTyped
  <2>5. CASE FoldTraded
    <3>1. rows' \in Lists /\ old' \subseteq Range(rows') /\ sel' \in SelType /\ Cursor'
      BY <2>5, ReloadTyped DEF FoldTraded
    <3>2. form' \in Forms /\ tab' \in {Tabs[i] : i \in 1..4} /\ UNCHANGED <<detail, loaded>>
      BY <1>0, <2>5, TabsAre, Constants DEF FoldTraded, Forms, chart
    <3> QED BY <1>0, <2>1, <2>2, <3>1, <3>2, LoopTyped
  <2> QED BY <1>3, <2>3, <2>4, <2>5 DEF Fold
<1> QED BY <1>1, <1>2, <1>3

\* A step of the worker, or of the world: the screen stays as it is.
LEMMA WorkerTyped ==
    ASSUME TypeInv, UNCHANGED <<apc, app, job, batch, ready>>,
           jobs' \in Seq(Jobs), updates' \in Seq(Updates),
           wpc' \in {"idle", "next", "call", "closing", "gone"},
           work' \in Jobs \cup {NoWork}, todo' \subseteq Tickers,
           held' \in Lists, stale' \subseteq Tickers,
           Calls'
    PROVE  TypeInv'
BY DEF TypeInv, TypeOK, Cursor, app, view, chart

LEMMA ServedTyped ==
    ASSUME TypeInv, (\E t \in todo : Served(t) \/ Refused) \/ Refused
    PROVE  held' \in Lists /\ stale' \subseteq Tickers
<1>1. todo \subseteq Tickers /\ held \in Lists /\ stale \subseteq Tickers
  BY DEF TypeInv, TypeOK
<1>2. CASE Refused
  BY <1>1, <1>2 DEF Refused
<1>3. ASSUME NEW t \in todo, Served(t) PROVE held' \in Lists /\ stale' \subseteq Tickers
  <2>1. \E S \in {Range(held), Range(held) \cup {t}, Range(held) \ {t}} : held' \in Revalued(t, S)
    BY <1>3 DEF Served
  <2>2. \A S \in {Range(held), Range(held) \cup {t}, Range(held) \ {t}} : S \subseteq Tickers
    BY <1>1, ListTyped
  <2>3. stale' \subseteq Tickers
    BY <1>1, <1>3 DEF Served
  <2> QED BY <2>1, <2>2, <2>3, RevaluedTyped
<1> QED BY <1>2, <1>3

LEMMA WorkSteps ==
    ASSUME TypeInv, Work
    PROVE  TypeInv'
<1>0. /\ jobs \in Seq(Jobs) /\ updates \in Seq(Updates) /\ work \in Jobs \cup {NoWork}
      /\ todo \subseteq Tickers /\ held \in Lists /\ stale \subseteq Tickers
  BY DEF TypeInv, TypeOK
<1>1. ASSUME NEW u \in Updates, Send(u) PROVE updates' \in Seq(Updates)
  BY <1>0, <1>1, AppendProperties DEF Send
<1>2. CASE Take
  <2>1. Head(jobs) \in Jobs /\ Tail(jobs) \in Seq(Jobs)
    BY <1>0, <1>2, HeadTailProperties DEF Take
  <2>2. Head(jobs).tickers \subseteq Tickers
    BY <2>1 DEF Jobs
  <2>3. updates' \in Seq(Updates)
    BY <1>1, <1>2 DEF Take, Updates
  <2> QED BY <1>0, <1>2, <2>1, <2>2, <2>3, WorkerTyped DEF Take, WorkerAt, Calls
<1>3. CASE Announce
  <2>1. updates' \in Seq(Updates)
    BY <1>1, <1>3 DEF Announce, Updates
  <2> QED BY <1>0, <1>3, <2>1, WorkerTyped DEF Announce, WorkerAt, Calls
<1>4. CASE AnswerRefresh
  <2>1. held' \in Lists /\ stale' \subseteq Tickers
    BY <1>4, ServedTyped DEF AnswerRefresh, WorkerAt
  <2> QED BY <1>0, <1>4, <2>1, WorkerTyped DEF AnswerRefresh, WorkerAt, channel, Calls
<1>5. CASE FinishRefresh
  <2>1. updates' \in Seq(Updates)
    BY <1>1, <1>5 DEF FinishRefresh, Updates
  <2> QED BY <1>0, <1>5, <2>1, WorkerTyped DEF FinishRefresh, WorkerAt, Calls
<1>6. CASE AnswerTrade
  <2>1. held' \in Lists /\ stale' \subseteq Tickers
    BY <1>6, ServedTyped DEF AnswerTrade, WorkerAt
  <2>2. updates' \in Seq(Updates)
    BY <1>1, <1>6 DEF AnswerTrade, Updates
  <2> QED BY <1>0, <1>6, <2>1, <2>2, WorkerTyped DEF AnswerTrade, WorkerAt, Calls
<1>7. CASE Lose
  <2>1. held' \in Lists /\ stale' \subseteq Tickers
    BY <1>7, ServedTyped DEF Lose, WorkerAt
  <2>2. updates' \in Seq(Updates)
    BY <1>1, <1>7 DEF Lose, Updates
  <2> QED BY <1>0, <1>7, <2>1, <2>2, WorkerTyped DEF Lose, WorkerAt, Calls
<1>8. CASE Die
  BY <1>0, <1>8, EmptySeq, WorkerTyped DEF Die, WorkerAt, Calls
<1> QED BY <1>2, <1>3, <1>4, <1>5, <1>6, <1>7, <1>8 DEF Work

LEMMA OutsideSteps ==
    ASSUME TypeInv, Outside
    PROVE  TypeInv'
<1>0. /\ old' \subseteq Range(rows) /\ held' \in Lists /\ stale' \subseteq Tickers
      /\ ready' \in BOOLEAN
  <2>1. /\ old \subseteq Range(rows) /\ held \in Lists /\ stale \subseteq Tickers
        /\ ready \in BOOLEAN
    BY DEF TypeInv, TypeOK
  <2>a. Range(held) \subseteq Tickers
    BY <2>1, ListTyped
  <2>2. ASSUME NEW t \in Tickers, OthersTrade(t) PROVE <1>0!:
    <3>1. held' \in Lists
      <4>1. \E S \in {Range(held) \cup {t}, Range(held) \ {t}} : held' \in Revalued(t, S)
        BY <2>2 DEF OthersTrade
      <4>2. Range(held) \cup {t} \subseteq Tickers /\ Range(held) \ {t} \subseteq Tickers
        BY <2>a
      <4> QED BY <4>1, <4>2, RevaluedTyped
    <3> QED BY <2>1, <2>2, <3>1 DEF OthersTrade, Elsewhere
  <2>3. ASSUME NEW t \in Tickers, Sweep(t) PROVE <1>0!:
    <3>1. held' \in Lists
      BY <2>3, <2>a, RevaluedTyped DEF Sweep
    <3> QED BY <2>1, <2>3, <3>1 DEF Sweep, Elsewhere
  <2>4. CASE ProviderChanges
    BY <2>1, <2>4 DEF ProviderChanges
  <2>5. CASE Midnight
    BY <2>1, <2>5, Constants DEF Midnight
  <2> QED BY <2>2, <2>3, <2>4, <2>5 DEF Outside
<1>1. UNCHANGED <<apc, tab, form, rows, sel, chart, job, batch, channel, worker>>
  BY DEF Outside, OthersTrade, Sweep, ProviderChanges, Midnight, Elsewhere
<1> QED BY <1>0, <1>1 DEF TypeInv, TypeOK, Cursor, Calls, chart, channel, worker

LEMMA TypeInitially == Init => TypeInv
<1> SUFFICES ASSUME Init PROVE TypeInv
  OBVIOUS
<1>1. 0 \in SelType
  <2>1. Cardinality(Tickers) \in Nat /\ Cardinality(Tickers) > 0
    BY Constants, Rows
  <2> QED BY <2>1 DEF SelType
<1>2. form \in Forms
  BY Constants DEF Init, Forms, Sides, Fields
<1>3. tab \in {Tabs[i] : i \in 1..4} /\ sel \in SelType
  BY <1>1, TabsAre DEF Init
<1>4. jobs \in Seq(Jobs) /\ updates \in Seq(Updates) /\ batch \in Seq(Updates)
  BY EmptySeq DEF Init
<1>6. <<>> \in Lists
  <2>1. <<>> \in [1..0 -> {}] /\ Range(<<>>) = {}
    BY DEF Range
  <2>2. <<>> \in Listings({})
    BY <2>1, FS_EmptySet DEF Listings
  <2> QED BY <2>2 DEF Lists
<1> QED BY <1>2, <1>3, <1>4, <1>6 DEF Init, TypeInv, TypeOK, Cursor, Calls, SelType

LEMMA TypeInductive == TypeInv /\ [Next]_vars => TypeInv'
<1> SUFFICES ASSUME TypeInv, [Next]_vars PROVE TypeInv'
  OBVIOUS
<1>1. CASE UNCHANGED vars
  BY <1>1 DEF vars, TypeInv, TypeOK, Cursor, Calls
<1>2. CASE Loop
  BY <1>2, FormKeys, ActingKeys, MovingKeys, LoopSteps DEF Loop, Key
<1>3. CASE Work \/ Outside
  BY <1>3, WorkSteps, OutsideSteps
<1> QED BY <1>1, <1>2, <1>3 DEF Next

LEMMA TypesAlways == Spec => []TypeInv
BY TypeInitially, TypeInductive, PTL DEF Spec

(* Every cursor is a row there could be, every job is about symbols, every *)
(* update is one of the six (app.rs, worker.rs).                           *)
THEOREM TypeCorrect == Spec => []TypeOK
<1>1. TypeInv => TypeOK
  BY DEF TypeInv
<1> QED BY <1>1, TypesAlways, PTL

(* Whatever is sold elsewhere and however the cursor moves, a list that    *)
(* has rows has one selected (app.rs 229-248, 690-716).                    *)
THEOREM AlwaysSelected == Spec => []SelectionShown
<1>1. TypeInv => SelectionShown
  <2> SUFFICES ASSUME TypeInv, rows # <<>> PROVE Selected(rows, sel) # None
    BY DEF SelectionShown
  <2>1. rows \in Lists /\ sel \in 0..(Len(rows) - 1)
    BY DEF TypeInv, TypeOK, Cursor
  <2>2. Selected(rows, sel) \in Tickers
    BY <2>1, CursorTyped, SelectedRow
  <2> QED BY <2>1, <2>2, Constants
<1> QED BY <1>1, TypesAlways, PTL

-----------------------------------------------------------------------------
(* Whose chart is shown.                                                   *)

ChartInv ==
    /\ apc = "boot" => tab = "Portfolio"
    /\ detail # None => loaded = detail
    /\ DetailMatches

\* Steps that touch neither the chart, nor what it is compared with.
LEMMA ChartStays ==
    ASSUME ChartInv, UNCHANGED <<rows, sel, detail, loaded>>, tab' \in {tab, "Portfolio", "Trade"},
           apc' = "boot" => apc = "boot" /\ tab' = tab
    PROVE  ChartInv'
BY DEF ChartInv, DetailMatches

LEMMA ChartLoads ==
    ASSUME ChartInv, apc' # "boot",
           \/ LoadDetail(Selected(rows', sel'), None, None)
           \/ LoadDetail(Selected(rows', sel'), detail, loaded)
    PROVE  ChartInv'
BY DEF ChartInv, DetailMatches, LoadDetail

LEMMA ChartInductive == TypeInv /\ ChartInv /\ [Next]_vars => ChartInv'
<1> SUFFICES ASSUME TypeInv, ChartInv, [Next]_vars PROVE ChartInv'
  OBVIOUS
<1>1. CASE UNCHANGED vars \/ Work \/ Outside
  <2>1. UNCHANGED <<apc, tab, rows, sel, detail, loaded>>
    BY <1>1 DEF vars, Work, Take, Announce, AnswerRefresh, FinishRefresh, AnswerTrade, Lose, Die,
         WorkerAt, Outside, OthersTrade, Sweep, ProviderChanges, Midnight, Elsewhere, app, view, chart
  <2> QED BY <2>1, ChartStays
<1>2. CASE Boot
  <2>1. tab' = "Portfolio" /\ apc' = "drain" /\ UNCHANGED chart
    BY <1>2 DEF Boot, Go, ChartInv
  <2> QED BY <2>1 DEF ChartInv, DetailMatches, chart
<1>3. CASE Drain \/ Folded \/ AppLost
  <2>1. UNCHANGED app /\ apc' # "boot"
    BY <1>3 DEF Drain, Folded, AppLost, Go
  <2> QED BY <2>1, ChartStays DEF app, view, chart
<1>4. CASE Fold
  <2>1. apc = "fold" /\ apc' = apc
    BY <1>4 DEF Fold, FoldProgress, FoldRefreshed, FoldTraded, FoldTradeFailed, FoldDisconnected,
         Folding
  <2>2. CASE FoldProgress \/ FoldTradeFailed \/ FoldDisconnected
    <3>1. UNCHANGED <<tab, view, chart>>
      BY <2>2 DEF FoldProgress, FoldTradeFailed, FoldDisconnected
    <3> QED BY <2>1, <3>1, ChartStays DEF view, chart
  <2>3. CASE FoldRefreshed
    <3>1. CASE tab = "Detail"
      BY <2>1, <2>3, <3>1, ChartLoads DEF FoldRefreshed
    <3>2. CASE tab # "Detail"
      BY <2>1, <2>3, <3>2 DEF FoldRefreshed, ChartInv, DetailMatches, chart
    <3> QED BY <3>1, <3>2
  <2>4. CASE FoldTraded
    BY <2>1, <2>4 DEF FoldTraded, ChartInv, DetailMatches, chart
  <2> QED BY <1>4, <2>2, <2>3, <2>4 DEF Fold
<1>5. CASE Key
  <2>1. CASE NoKey \/ Quit \/ Esc \/ StepField \/ StepFieldBack \/ Flip \/ TypeInto \/ StartEditing
    <3>1. form \in Forms /\ tab \in {Tabs[i] : i \in 1..4}
      BY DEF TypeInv, TypeOK
    <3> QED BY <2>1, <3>1, FormKeysAreQuiet, ChartStays DEF view, chart
  <2>2. CASE SubmitTrade \/ Refresh("r", FALSE) \/ Refresh("R", TRUE)
    <3>1. UNCHANGED <<tab, view, chart>> /\ apc' = "drain"
      BY <2>2 DEF SubmitTrade, Refresh, app, Press, Go
    <3> QED BY <3>1, ChartStays DEF view, chart
  <2>3. ASSUME NEW k, NEW side, StartTrade(k, side) PROVE ChartInv'
    <3>1. UNCHANGED <<view, chart>> /\ tab' = "Trade" /\ apc' = "drain"
      BY <2>3 DEF StartTrade, Press, Go
    <3> QED BY <3>1, ChartStays DEF view, chart
  <2>4. ASSUME NEW k, NEW t, GoTo(k, t) PROVE ChartInv'
    <3>1. UNCHANGED view /\ apc' = "drain"
      BY <2>4 DEF GoTo, Press, Go
    <3>2. CASE t = "Detail"
      BY <2>4, <3>1, <3>2, ChartLoads DEF GoTo, view
    <3>3. CASE t # "Detail"
      BY <2>4, <3>1, <3>3 DEF GoTo, view, chart, ChartInv, DetailMatches
    <3> QED BY <3>2, <3>3
  <2>5. ASSUME NEW k, NEW delta, MoveCursor(k, delta) PROVE ChartInv'
    <3>0. apc' = "drain" /\ rows' = rows /\ tab' = tab
      BY <2>5 DEF MoveCursor, Press, Go
    <3>1. CASE tab = "Detail"
      BY <2>5, <3>0, <3>1, ChartLoads DEF MoveCursor
    <3>2. CASE tab # "Detail"
      BY <2>5, <3>0, <3>2 DEF MoveCursor, chart, ChartInv, DetailMatches
    <3> QED BY <3>1, <3>2
  <2>6. CASE CycleTab \/ Jump \/ OpenDetail
    BY <2>4, <2>6 DEF CycleTab, Jump, OpenDetail
  <2> QED BY <1>5, <2>1, <2>2, <2>3, <2>5, <2>6 DEF Key
<1> QED BY <1>1, <1>2, <1>3, <1>4, <1>5 DEF Next, Loop

(* The chart on the Detail tab is of the selected holding, for any number  *)
(* of holdings (app.rs 375-400, 635-660, 667-688).                         *)
THEOREM AlwaysMatches == Spec => []DetailMatches
<1>1. Init => ChartInv
  BY DEF Init, ChartInv, DetailMatches
<1>2. ChartInv => DetailMatches
  BY DEF ChartInv
<1> QED BY <1>1, <1>2, ChartInductive, TypesAlways, PTL DEF Spec

-----------------------------------------------------------------------------
(* One job at a time.  The argument counts the updates that end a job, so  *)
(* it needs to know how the count follows the two queues.                  *)

EndsIn(s) == {i \in 1..Len(s) : s[i] \in Ends}

Over(s) == Cardinality(EndsIn(s))

One(yes) == IF yes THEN 1 ELSE 0

Heard == batch \o updates

LEMMA EndsAreFinite ==
    ASSUME NEW s \in Seq(Updates)
    PROVE  IsFiniteSet(EndsIn(s)) /\ Over(s) \in Nat
<1>1. IsFiniteSet(1..Len(s))
  BY LenProperties, FS_Interval
<1>2. EndsIn(s) \subseteq 1..Len(s)
  BY DEF EndsIn
<1> QED BY <1>1, <1>2, FS_Subset, FS_CardinalityType DEF Over

LEMMA OverAppend ==
    ASSUME NEW s \in Seq(Updates), NEW u \in Updates
    PROVE  Over(Append(s, u)) = Over(s) + One(u \in Ends)
<1>1. /\ Len(s) \in Nat /\ Len(Append(s, u)) = Len(s) + 1
      /\ \A i \in 1..Len(s) : Append(s, u)[i] = s[i]
      /\ Append(s, u)[Len(s) + 1] = u
  BY LenProperties, AppendProperties
<1>2. CASE u \in Ends
  <2>1. EndsIn(Append(s, u)) = EndsIn(s) \cup {Len(s) + 1}
    BY <1>1, <1>2 DEF EndsIn
  <2>2. Len(s) + 1 \notin EndsIn(s)
    BY <1>1 DEF EndsIn
  <2>3. Cardinality(EndsIn(s) \cup {Len(s) + 1}) = Cardinality(EndsIn(s)) + 1
    BY <2>2, EndsAreFinite, FS_AddElement
  <2> QED BY <1>2, <2>1, <2>3 DEF Over, One
<1>3. CASE u \notin Ends
  <2>1. EndsIn(Append(s, u)) = EndsIn(s)
    BY <1>1, <1>3 DEF EndsIn
  <2> QED BY <1>3, <2>1, EndsAreFinite DEF Over, One
<1> QED BY <1>2, <1>3

LEMMA OverTail ==
    ASSUME NEW s \in Seq(Updates), s # <<>>
    PROVE  Over(s) = Over(Tail(s)) + One(Head(s) \in Ends)
<1> DEFINE S == EndsIn(Tail(s))
           T == EndsIn(s) \ {1}
           shift == [i \in S |-> i + 1]
<1>1. /\ Tail(s) \in Seq(Updates) /\ Len(Tail(s)) = Len(s) - 1
      /\ \A i \in 1..Len(Tail(s)) : Tail(s)[i] = s[i + 1]
      /\ Head(s) = s[1] /\ Len(s) \in Nat /\ Len(s) >= 1
  BY HeadTailProperties, LenProperties, EmptySeq
<1>2. S \subseteq Nat /\ T \subseteq Nat /\ IsFiniteSet(S) /\ Cardinality(S) \in Nat
  <2>1. S \subseteq Nat /\ T \subseteq Nat
    BY <1>1 DEF EndsIn
  <2>2. IsFiniteSet(S) /\ Over(Tail(s)) \in Nat
    BY <1>1, EndsAreFinite
  <2> QED BY <2>1, <2>2 DEF Over
<1>3. \A i \in S : i + 1 \in T
  BY <1>1 DEF EndsIn
<1>4. \A j \in T : j - 1 \in S
  <2> SUFFICES ASSUME NEW j \in T PROVE j - 1 \in S
    OBVIOUS
  <2>1. j \in 1..Len(s) /\ j # 1 /\ s[j] \in Ends
    BY DEF EndsIn
  <2>2. j - 1 \in 1..Len(Tail(s)) /\ (j - 1) + 1 = j
    BY <1>1, <2>1
  <2>3. Tail(s)[j - 1] = s[j]
    BY <1>1, <2>2
  <2> QED BY <2>1, <2>2, <2>3 DEF EndsIn
<1>5. Cardinality(T) = Cardinality(S)
  <2> HIDE DEF S, T
  <2>1. shift \in [S -> T]
    BY <1>3
  <2>2. \A a, b \in S : shift[a] = shift[b] => a = b
    BY <1>2
  <2>3. \A j \in T : \E i \in S : shift[i] = j
    <3> SUFFICES ASSUME NEW j \in T PROVE \E i \in S : shift[i] = j
      OBVIOUS
    <3>1. j - 1 \in S /\ (j - 1) + 1 = j
      BY <1>2, <1>4
    <3> QED BY <3>1
  <2>4. shift \in Bijection(S, T)
    <3> HIDE DEF shift
    <3> QED BY <2>1, <2>2, <2>3 DEF Bijection, Injection, Surjection, IsInjective
  <2>5. ExistsBijection(S, T)
    BY <2>4 DEF ExistsBijection
  <2> QED BY <1>2, <2>5, FS_Bijection
<1>6. CASE Head(s) \in Ends
  <2>1. 1 \in EndsIn(s)
    BY <1>1, <1>6 DEF EndsIn
  <2>2. Cardinality(T) = Cardinality(EndsIn(s)) - 1 /\ Cardinality(EndsIn(s)) \in Nat
    BY <2>1, EndsAreFinite, FS_RemoveElement DEF Over
  <2> QED BY <1>5, <1>6, <2>2 DEF Over, One
<1>7. CASE Head(s) \notin Ends
  <2>1. T = EndsIn(s)
    BY <1>1, <1>7 DEF EndsIn
  <2>2. Over(s) = Cardinality(S) /\ Over(Tail(s)) = Cardinality(S)
    BY <1>5, <2>1 DEF Over
  <2> HIDE DEF S
  <2> QED BY <1>2, <1>7, <2>2 DEF One
<1> QED BY <1>6, <1>7

Running == One(wpc \in {"next", "call"})

\* Between two passes of the loop nothing is half folded.
SlotInv == (apc \in {"boot", "drain", "key"} => batch = <<>>) /\ NoSecondJob

Counted ==
    /\ Outstanding = Len(jobs) + Running + Over(Heard)
    /\ Len(jobs) \in Nat /\ Running \in {0, 1} /\ Over(Heard) \in Nat
    /\ Heard \in Seq(Updates)

LEMMA Count == TypeInv => Counted
<1> SUFFICES ASSUME TypeInv PROVE Counted
  OBVIOUS
<1>1. jobs \in Seq(Jobs) /\ batch \in Seq(Updates) /\ updates \in Seq(Updates)
  BY DEF TypeInv, TypeOK
<1>2. Heard \in Seq(Updates)
  BY <1>1, ConcatProperties DEF Heard
<1>3. Len(jobs) \in Nat /\ Running \in {0, 1} /\ Over(Heard) \in Nat
  BY <1>1, <1>2, LenProperties, EndsAreFinite DEF Running, One
<1>4. Outstanding = Len(jobs) + Running + Over(Heard)
  BY DEF Outstanding, Running, One, Over, EndsIn, Heard
<1> QED BY <1>2, <1>3, <1>4 DEF Counted

LEMMA CountNext == TypeInv' => Counted'
BY Count, PTL

\* What sending, draining and folding do to the updates yet to be folded.
LEMMA HeardNext ==
    ASSUME TypeInv
    PROVE  /\ \A u \in Updates : Send(u) /\ batch' = batch => Heard' = Append(Heard, u)
           /\ batch = <<>> /\ batch' = updates /\ updates' = <<>> => Heard' = Heard
           /\ batch # <<>> /\ batch' = Tail(batch) /\ updates' = updates =>
                  Heard # <<>> /\ Heard' = Tail(Heard) /\ Head(Heard) = Head(batch)
<1>1. batch \in Seq(Updates) /\ updates \in Seq(Updates)
  BY DEF TypeInv, TypeOK
<1>2. ASSUME NEW u \in Updates, Send(u), batch' = batch PROVE Heard' = Append(Heard, u)
  BY <1>1, <1>2 DEF Heard, Send
<1>3. ASSUME batch = <<>>, batch' = updates, updates' = <<>> PROVE Heard' = Heard
  BY <1>1, <1>3, ConcatEmptySeq DEF Heard
<1>4. ASSUME batch # <<>>, batch' = Tail(batch), updates' = updates
      PROVE  Heard # <<>> /\ Heard' = Tail(Heard) /\ Head(Heard) = Head(batch)
  BY <1>1, <1>4 DEF Heard
<1> QED BY <1>2, <1>3, <1>4

\* The slot as it was, and no more jobs than there were.
LEMMA SlotKept ==
    ASSUME TypeInv, TypeInv', NoSecondJob, job' = job,
           Len(jobs') + Running' + Over(Heard') <= Len(jobs) + Running + Over(Heard)
    PROVE  NoSecondJob'
BY Count, CountNext DEF NoSecondJob, Counted

\* A job comes in only while the slot is free, and takes it.
LEMMA SlotTaken ==
    ASSUME TypeInv, TypeInv', NoSecondJob, job = None, job' \in {"Refresh", "Trade"},
           Len(jobs') = Len(jobs) + 1, Running' = Running, Heard' = Heard
    PROVE  NoSecondJob'
BY Count, CountNext, Constants DEF NoSecondJob, Counted

\* It is freed when the end of its job is folded in.
LEMMA SlotFreed ==
    ASSUME TypeInv, TypeInv', NoSecondJob, job' = None,
           jobs' = jobs, Running' = Running, Over(Heard') = Over(Heard) - 1
    PROVE  NoSecondJob'
BY Count, CountNext DEF NoSecondJob, Counted

\* A step that leaves all of it alone.
LEMMA SlotQuiet ==
    ASSUME TypeInv, TypeInv', SlotInv, UNCHANGED <<job, batch, channel, wpc>>,
           apc' = apc \/ batch = <<>> \/ apc' \in {"fold", "quit"}
    PROVE  SlotInv'
<1>1. Running' = Running /\ Heard' = Heard /\ jobs' = jobs
  BY DEF Running, Heard, channel
<1>2. NoSecondJob'
  BY <1>1, SlotKept, Count DEF SlotInv, Counted
<1> QED BY <1>2 DEF SlotInv

LEMMA SlotHandsOver ==
    ASSUME TypeInv, TypeInv', SlotInv, NEW j \in Jobs, (Submit(j) /\ job = None) \/ NoSubmit,
           UNCHANGED <<batch, updates, wpc>>, batch = <<>>
    PROVE  SlotInv'
<1>1. Running' = Running /\ Heard' = Heard
  BY DEF Running, Heard
<1>2. CASE Submit(j) /\ job = None
  <2>1. j.kind \in {"Refresh", "Trade"} /\ jobs \in Seq(Jobs)
    BY DEF Jobs, TypeInv, TypeOK
  <2>2. Len(jobs') = Len(jobs) + 1 /\ job' = j.kind
    BY <1>2, <2>1, AppendProperties DEF Submit
  <2> QED BY <1>1, <1>2, <2>1, <2>2, SlotTaken DEF SlotInv
<1>3. CASE NoSubmit
  BY <1>1, <1>3, SlotKept, Count DEF NoSubmit, SlotInv, Counted
<1> QED BY <1>2, <1>3

LEMMA SlotWorks ==
    ASSUME TypeInv, TypeInv', SlotInv, Work
    PROVE  SlotInv'
<1>0. UNCHANGED <<apc, job, batch>> /\ jobs \in Seq(Jobs)
  BY DEF Work, Take, Announce, AnswerRefresh, FinishRefresh, AnswerTrade, Lose, Die, WorkerAt,
       TypeInv, TypeOK
<1>1. \A u \in Updates : Send(u) => Over(Heard') = Over(Heard) + One(u \in Ends)
  BY <1>0, HeardNext, OverAppend, Count DEF Counted
<1>2. updates' = updates => Over(Heard') = Over(Heard)
  BY <1>0 DEF Heard
<1>3. Len(jobs') + Running' + Over(Heard') <= Len(jobs) + Running + Over(Heard)
  <2>0. Len(jobs) \in Nat /\ Running \in {0, 1} /\ Over(Heard) \in Nat
    BY Count DEF Counted
  <2>1. CASE Take
    <3>1. Len(jobs') = Len(jobs) - 1
      BY <1>0, <2>1, HeadTailProperties DEF Take
    <3>2. Over(Heard') = Over(Heard)
      BY <1>1, <2>0, <2>1 DEF Take, Updates, Ends, One
    <3>3. Running = 0 /\ Running' = 1
      BY <2>1 DEF Take, WorkerAt, Running, One
    <3> QED BY <2>0, <3>1, <3>2, <3>3
  <2>2. CASE Announce
    <3>1. Over(Heard') = Over(Heard)
      BY <1>1, <2>0, <2>2 DEF Announce, Updates, Ends, One
    <3>2. Running' = Running /\ jobs' = jobs
      BY <2>2 DEF Announce, WorkerAt, Running, One
    <3> QED BY <2>0, <3>1, <3>2
  <2>3. CASE AnswerRefresh
    <3>1. Over(Heard') = Over(Heard) /\ jobs' = jobs
      BY <1>2, <2>3 DEF AnswerRefresh, channel
    <3>2. Running' = Running
      BY <2>3 DEF AnswerRefresh, WorkerAt, Running, One
    <3> QED BY <2>0, <3>1, <3>2
  <2>4. CASE FinishRefresh
    <3>1. Over(Heard') = Over(Heard) + 1
      BY <1>1, <2>4 DEF FinishRefresh, Updates, Ends, One
    <3>2. Running = 1 /\ Running' = 0 /\ jobs' = jobs
      BY <2>4 DEF FinishRefresh, WorkerAt, Running, One
    <3> QED BY <2>0, <3>1, <3>2
  <2>5. CASE AnswerTrade
    <3>1. Over(Heard') = Over(Heard) + 1
      <4>1. CASE Send("Traded")
        BY <1>1, <4>1 DEF Updates, Ends, One
      <4>2. CASE Send("TradeFailed")
        BY <1>1, <4>2 DEF Updates, Ends, One
      <4> QED BY <2>5, <4>1, <4>2 DEF AnswerTrade
    <3>2. Running = 1 /\ Running' = 0 /\ jobs' = jobs
      BY <2>5 DEF AnswerTrade, WorkerAt, Running, One
    <3> QED BY <2>0, <3>1, <3>2
  <2>6. CASE Lose
    <3>1. Over(Heard') = Over(Heard) + 1
      BY <1>1, <2>6 DEF Lose, Updates, Ends, One
    <3>2. Running = 1 /\ Running' = 0 /\ jobs' = jobs
      BY <2>6 DEF Lose, WorkerAt, Running, One
    <3> QED BY <2>0, <3>1, <3>2
  <2>7. CASE Die
    <3>1. Over(Heard') = Over(Heard) /\ Len(jobs') = 0
      BY <1>2, <2>7, EmptySeq DEF Die
    <3>2. Running = 0 /\ Running' = 0
      BY <2>7 DEF Die, WorkerAt, Running, One
    <3> QED BY <2>0, <3>1, <3>2
  <2> QED BY <2>1, <2>2, <2>3, <2>4, <2>5, <2>6, <2>7 DEF Work
<1>4. NoSecondJob'
  BY <1>0, <1>3, SlotKept DEF SlotInv
<1> QED BY <1>0, <1>4 DEF SlotInv

LEMMA SlotFolds ==
    ASSUME TypeInv, TypeInv', SlotInv, Fold
    PROVE  SlotInv'
<1>1. PICK kinds \in {{"Started", "Progress"}, {"Refreshed"}, {"Traded"}, {"TradeFailed"},
                      {"Disconnected"}} :
        /\ Folding(kinds)
        /\ job' = IF kinds = {"Started", "Progress"} THEN job ELSE None
  BY DEF Fold, FoldProgress, FoldRefreshed, FoldTraded, FoldTradeFailed, FoldDisconnected
<1>2. /\ batch # <<>> /\ batch' = Tail(batch) /\ UNCHANGED <<apc, jobs, updates, wpc>>
      /\ Head(batch) \in kinds /\ apc = "fold"
  BY <1>1 DEF Folding, channel, worker
<1>3. Heard # <<>> /\ Heard' = Tail(Heard) /\ Head(Heard) = Head(batch)
  BY <1>2, HeardNext
<1>4. Over(Heard) = Over(Heard') + One(Head(batch) \in Ends)
  BY <1>3, Count, OverTail DEF Counted
<1>5. jobs' = jobs /\ Running' = Running
  BY <1>2 DEF Running
<1>6. Over(Heard) \in Nat /\ Over(Heard') \in Nat /\ Len(jobs) \in Nat /\ Running \in {0, 1}
  BY Count, CountNext DEF Counted
<1>7. CASE kinds = {"Started", "Progress"}
  <2>1. Over(Heard') = Over(Heard) /\ job' = job
    BY <1>1, <1>2, <1>4, <1>6, <1>7 DEF One, Ends
  <2>2. NoSecondJob'
    BY <1>5, <1>6, <2>1, SlotKept DEF SlotInv
  <2> QED BY <1>2, <2>2 DEF SlotInv
<1>8. CASE kinds # {"Started", "Progress"}
  <2>1. Head(batch) \in Ends /\ job' = None
    BY <1>1, <1>2, <1>8 DEF Ends
  <2>2. Over(Heard') = Over(Heard) - 1
    BY <1>4, <1>6, <2>1 DEF One
  <2>3. NoSecondJob'
    BY <1>5, <2>1, <2>2, SlotFreed DEF SlotInv
  <2> QED BY <1>2, <2>3 DEF SlotInv
<1> QED BY <1>7, <1>8

LEMMA SlotInductive == TypeInv /\ TypeInv' /\ SlotInv /\ [Next]_vars => SlotInv'
<1> SUFFICES ASSUME TypeInv, TypeInv', SlotInv, [Next]_vars PROVE SlotInv'
  OBVIOUS
<1>0. /\ form \in Forms /\ tab \in {Tabs[i] : i \in 1..4}
      /\ Range(rows) \subseteq Tickers /\ old \subseteq Tickers /\ old' \subseteq Tickers
  <2>1. /\ form \in Forms /\ tab \in {Tabs[i] : i \in 1..4}
        /\ rows \in Lists /\ old \subseteq Range(rows)
        /\ rows' \in Lists /\ old' \subseteq Range(rows')
    BY DEF TypeInv, TypeOK
  <2> QED BY <2>1, ListTyped
<1>1. CASE UNCHANGED vars \/ Outside
  <2>1. UNCHANGED <<apc, job, batch, channel, wpc>>
    BY <1>1 DEF vars, channel, Outside, OthersTrade, Sweep, ProviderChanges, Midnight, Elsewhere,
         worker
  <2> QED BY <2>1, SlotQuiet
<1>2. CASE Boot
  <2>1. apc = "boot" /\ UNCHANGED <<batch, updates, wpc>>
    BY <1>2 DEF Boot, worker
  <2> DEFINE j == [kind |-> "Refresh", tickers |-> old', side |-> "Buy", force |-> FALSE]
  <2>2. j \in Jobs
    BY <1>0 DEF Jobs, Sides
  <2>3. (Submit(j) /\ job = None) \/ NoSubmit
    BY <1>2 DEF Boot, StartRefresh
  <2> HIDE DEF j
  <2> QED BY <2>1, <2>2, <2>3, SlotHandsOver DEF SlotInv
<1>3. CASE Drain
  <2>1. batch = <<>> /\ batch' = updates /\ updates' = <<>> /\ apc' = "fold"
        /\ UNCHANGED <<job, jobs, wpc>>
    BY <1>3 DEF Drain, Go, SlotInv, worker
  <2>2. Heard' = Heard /\ Running' = Running
    BY <2>1, HeardNext DEF Running
  <2>3. NoSecondJob'
    BY <2>1, <2>2, SlotKept, Count DEF SlotInv, Counted
  <2> QED BY <2>1, <2>3 DEF SlotInv
<1>4. CASE Folded \/ AppLost
  <2>1. /\ UNCHANGED <<job, batch, channel, wpc>>
        /\ batch = <<>> \/ apc' = "quit"
    BY <1>4 DEF Folded, AppLost, Go, worker
  <2> QED BY <2>1, SlotQuiet
<1>5. CASE Key
  <2>0. apc = "key"
    <3>1. StepField \/ StepFieldBack \/ Flip \/ TypeInto \/ StartEditing => apc = "key"
      BY <1>0, Edits DEF InForm, Press
    <3>2. CycleTab \/ Jump \/ OpenDetail => apc = "key"
      BY DEF CycleTab, Jump, OpenDetail, GoTo, Press
    <3> QED BY <1>5, <3>1, <3>2 DEF Key, NoKey, Quit, Esc, SubmitTrade, StartTrade, MoveCursor,
              Refresh, Press
  <2>1. batch = <<>>
    BY <2>0 DEF SlotInv
  <2>2. CASE NoKey \/ Quit \/ Esc \/ StepField \/ StepFieldBack \/ Flip \/ TypeInto \/ StartEditing
    <3>1. UNCHANGED <<job, batch, channel, wpc>>
      BY <1>0, <2>2, FormKeysAreQuiet DEF worker
    <3> QED BY <2>1, <3>1, SlotQuiet
  <2>3. CASE StartTrade("b", "Buy") \/ StartTrade("s", "Sell") \/ CycleTab \/ Jump \/ OpenDetail
             \/ MoveCursor("Up", -1) \/ MoveCursor("Down", 1)
    <3>1. PICK k : Press(k) /\ NoSubmit
      BY <2>3 DEF StartTrade, CycleTab, Jump, OpenDetail, GoTo, MoveCursor
    <3>2. UNCHANGED <<job, batch, channel, wpc>>
      BY <3>1 DEF Press, NoSubmit, channel, worker
    <3> QED BY <2>1, <3>2, SlotQuiet
  <2>4. CASE SubmitTrade
    <3> DEFINE j == [kind |-> "Trade", tickers |-> {form.ticker}, side |-> form.side,
                     force |-> FALSE]
    <3>1. form.ticker # None => j \in Jobs
      BY <1>0 DEF Jobs, Forms
    <3>2. (form.ticker # None /\ Submit(j) /\ job = None) \/ NoSubmit
      BY <2>4 DEF SubmitTrade
    <3>3. UNCHANGED <<batch, updates, wpc>>
      BY <2>4 DEF SubmitTrade, Press, worker
    <3> HIDE DEF j
    <3>5. CASE j \in Jobs
      BY <2>1, <3>2, <3>3, <3>5, SlotHandsOver
    <3>6. CASE NoSubmit
      <4>1. UNCHANGED <<job, batch, channel, wpc>>
        BY <3>3, <3>6 DEF NoSubmit, channel
      <4> QED BY <2>1, <4>1, SlotQuiet
    <3> QED BY <3>1, <3>2, <3>5, <3>6
  <2>5. CASE Refresh("r", FALSE) \/ Refresh("R", TRUE)
    <3>1. PICK k \in {"r", "R"}, force \in BOOLEAN : Refresh(k, force)
      BY <2>5
    <3> DEFINE j == [kind |-> "Refresh", tickers |-> ToRefresh(force), side |-> "Buy",
                     force |-> force]
    <3>2. j \in Jobs
      BY <1>0 DEF Jobs, Sides, ToRefresh
    <3>3. (Submit(j) /\ job = None) \/ NoSubmit
      BY <3>1 DEF Refresh, StartRefresh
    <3>4. UNCHANGED <<batch, updates, wpc>>
      BY <3>1 DEF Refresh, Press, worker
    <3> HIDE DEF j
    <3> QED BY <2>1, <3>2, <3>3, <3>4, SlotHandsOver
  <2> QED BY <1>5, <2>2, <2>3, <2>4, <2>5 DEF Key
<1> QED BY <1>1, <1>2, <1>3, <1>4, <1>5, SlotFolds, SlotWorks DEF Next, Loop

(* However keys, answers and broken connections interleave, no job is      *)
(* queued or run beside another: the slot is claimed before the job can be *)
(* heard of, and freed only once its end was (app.rs 98-99, 443-480).      *)
THEOREM OneJobAtATime == Spec => []NoSecondJob
<1>1. Init => SlotInv
  <2> SUFFICES ASSUME Init PROVE SlotInv
    OBVIOUS
  <2>1. TypeInv
    BY TypeInitially
  <2>2. jobs = <<>> /\ Heard = <<>> /\ Running = 0 /\ job = None /\ batch = <<>>
    BY DEF Init, Heard, Running, One
  <2>3. EndsIn(Heard) = {}
    BY <2>2 DEF EndsIn
  <2>4. Outstanding = 0
    BY <2>1, <2>2, <2>3, Count, FS_EmptySet DEF Counted, Over
  <2> QED BY <2>2, <2>4 DEF SlotInv, NoSecondJob
<1>2. SlotInv => NoSecondJob
  BY DEF SlotInv
<1> QED BY <1>1, <1>2, SlotInductive, TypesAlways, PTL DEF Spec
=============================================================================
