----------------------------- MODULE ReplayProofs -----------------------------
(***************************************************************************)
(* Proofs about the replay, whatever the files, prices and strategy: it     *)
(* shows the strategy no future bar, its curve never goes back in time and  *)
(* has one point per bar, and it implements BarReplay.                      *)
(*                                                                         *)
(* The invariant DataInv ties each window to its symbol's cursor and each   *)
(* queued bar to the row that the cursor has just passed.  WindowInv needs  *)
(* no condition on the list and gives the order of the curve.  LockInv says *)
(* that every cursor stands at the bar counted, or at the end of its file.  *)
(***************************************************************************)
EXTENDS BacktestProofs

\* The row a symbol's cursor has just passed.
LatestRow(t) == all_data[t][cursors[t]]

\* Before the constructor has run nothing has been replayed.
NothingYet ==
  pc = "construct" =>
    /\ event_queue = <<>> /\ bar_count = 0 /\ portfolio.equity_curve = <<>>
    /\ \A t \in Listed : cursors[t] = 0 /\ bar_window[t] = <<>>

\* A file is loaded in order, and its window ends with the row the cursor
\* has just passed and holds only rows the cursor has passed.
WindowBehindCursor(t) ==
  /\ Ascending(all_data[t])
  /\ cursors[t] <= Len(all_data[t])
  /\ cursors[t] = 0 => bar_window[t] = <<>>
  /\ cursors[t] > 0 => /\ bar_window[t] # <<>>
                       /\ bar_window[t][Len(bar_window[t])] = LatestRow(t)
  /\ \A i \in DOMAIN bar_window[t] :
       \E j \in 1..cursors[t] : bar_window[t][i] = all_data[t][j]

WindowsBehindCursors == \A t \in Listed : WindowBehindCursor(t)

\* Event i of the queue is the latest bar of symbol j of the list, which
\* update_bars is past.
IsLatestBarOf(i, j) ==
  /\ pc = "bars" => j < k
  /\ cursors[Symbols[j]] > 0
  /\ event_queue[i].symbol = CopySymbol[Symbols[j]]
  /\ [timestamp |-> event_queue[i].timestamp, close |-> event_queue[i].close]
       = LatestRow(Symbols[j])

\* A queued bar is still the latest bar of its symbol.
QueuedBarsAreLatest ==
  \A i \in DOMAIN event_queue :
    event_queue[i].type = "MARKET" =>
      \E j \in 1..Len(Symbols) : IsLatestBarOf(i, j)

\* The first three parts hold whatever the list; the last, when no symbol is
\* listed twice.
WindowInv == IInv /\ NothingYet /\ WindowsBehindCursors

DataInv == WindowInv /\ QueuedBarsAreLatest

-----------------------------------------------------------------------------
\* The engine starts in the invariant.
LEMMA InitDataInv == Init => DataInv
<1> SUFFICES ASSUME Init PROVE DataInv
  OBVIOUS
<1>1. NothingYet
  BY DEF NothingYet, Init, NewPortfolio
<1>2. WindowsBehindCursors
  BY DEF WindowsBehindCursors, WindowBehindCursor, Init, Ascending
<1>3. QueuedBarsAreLatest
  BY DEF QueuedBarsAreLatest, Init
<1> QED
  BY <1>1, <1>2, <1>3, InitIInv DEF DataInv, WindowInv

\* The files are loaded in order, and nothing has been replayed yet.
LEMMA ConstructDataInv == WindowInv /\ Construct => DataInv'
<1> SUFFICES ASSUME WindowInv, Construct PROVE DataInv'
  OBVIOUS
<1>1. IInv'
  BY ConstructIInv DEF WindowInv
<1>2. /\ event_queue' = <<>> /\ pc' = "bars"
      /\ cursors' = cursors /\ bar_window' = bar_window
      /\ \A t \in Listed : cursors[t] = 0 /\ bar_window[t] = <<>>
  BY DEF Construct, WindowInv, NothingYet
<1>3. \A t \in Listed : Ascending(all_data'[t]) /\ all_data'[t] \in Seq(Row)
  <2>1. \A t \in Listed : disk[t] \in [exists : BOOLEAN, lines : Seq(Line)]
    BY SymbolsListed, BacktestAssumption DEF WindowInv, IInv, TypeOK
  <2> QED
    BY <2>1, LoadedRows DEF Construct
<1>4. WindowsBehindCursors'
  BY <1>2, <1>3 DEF WindowsBehindCursors, WindowBehindCursor, Ascending
<1>5. NothingYet' /\ QueuedBarsAreLatest'
  BY <1>2 DEF NothingYet, QueuedBarsAreLatest
<1> QED
  BY <1>1, <1>4, <1>5 DEF DataInv, WindowInv

\* A symbol that advances slides the new row into its own window only.
LEMMA AdvanceWindowInv == WindowInv /\ AdvanceSymbol => WindowInv'
<1> SUFFICES ASSUME WindowInv, AdvanceSymbol PROVE WindowInv'
  OBVIOUS
<1>0. PICK t \in Listed : t = Symbols[k]
  BY SymbolsListed DEF WindowInv, IInv, TypeOK, AdvanceSymbol
<1> DEFINE row == all_data[t][cursors[t] + 1]
           slid == Slide(bar_window[t], row)
<1>1. IInv'
  BY AdvanceIInv DEF WindowInv
<1>2. /\ k \in 1..Len(Symbols) /\ k' = k + 1 /\ pc = "bars" /\ pc' = "bars"
      /\ cursors \in [Listed -> Nat] /\ bar_window \in [Listed -> Seq(Row)]
      /\ all_data \in [Listed -> Seq(Row)] /\ all_data' = all_data
      /\ event_queue \in Seq(Events)
  BY DEF WindowInv, IInv, TypeOK, AdvanceSymbol
<1>3. /\ cursors[t] < Len(all_data[t])
      /\ cursors' = [cursors EXCEPT ![t] = cursors[t] + 1]
      /\ bar_window' = [bar_window EXCEPT ![t] = slid]
      /\ event_queue' = Append(event_queue, MarketEvent(t, row))
  BY <1>0 DEF AdvanceSymbol
<1>4. row \in Row
  BY <1>2, <1>3
<1>5. /\ slid \in Seq(Row) /\ slid # <<>> /\ slid[Len(slid)] = row
      /\ \A i \in DOMAIN slid :
           slid[i] = row \/ \E j \in DOMAIN bar_window[t] : slid[i] = bar_window[t][j]
  <2>1. bar_window[t] \in Seq(Row) /\ Len(bar_window[t]) <= WindowSize
    BY <1>2 DEF WindowInv, IInv, TypeOK
  <2> HIDE DEF row
  <2>2. /\ slid \in Seq(Row) /\ Len(slid) \in 1..WindowSize /\ slid[Len(slid)] = row
        /\ \A i \in DOMAIN slid :
             slid[i] = row \/ \E j \in DOMAIN bar_window[t] : slid[i] = bar_window[t][j]
    BY <1>4, <2>1, SlidWindow
  <2>3. slid # <<>>
    BY <2>2, WindowAssumption, EmptySeq
  <2> QED
    BY <2>2, <2>3
<1>6. WindowsBehindCursors'
  <2>1. ASSUME NEW u \in Listed, u # t
        PROVE  cursors'[u] = cursors[u] /\ bar_window'[u] = bar_window[u]
    BY <1>2, <1>3, <2>1
  <2>2. cursors'[t] = cursors[t] + 1 /\ bar_window'[t] = slid
    BY <1>2, <1>3
  <2>3. cursors[t] \in Nat /\ Len(all_data[t]) \in Nat
    BY <1>2
  <2>4. /\ cursors'[t] <= Len(all_data'[t]) /\ cursors'[t] > 0
        /\ LatestRow(t)' = row
    <3> HIDE DEF row
    <3> QED
      BY <1>2, <1>3, <2>2, <2>3 DEF LatestRow, row
  <2>5. \A i \in DOMAIN slid : \E j \in 1..(cursors[t] + 1) : slid[i] = all_data[t][j]
    <3>1. \A i \in DOMAIN bar_window[t] :
            \E j \in 1..cursors[t] : bar_window[t][i] = all_data[t][j]
      BY <1>2 DEF WindowInv, WindowsBehindCursors, WindowBehindCursor
    <3>2. /\ cursors[t] + 1 \in 1..(cursors[t] + 1)
          /\ 1..cursors[t] \subseteq 1..(cursors[t] + 1)
      BY <2>3
    <3> HIDE DEF slid
    <3> QED
      BY <1>5, <3>1, <3>2
  <2> HIDE DEF slid, row
  <2>6. WindowBehindCursor(t)'
    <3>1. \A i \in DOMAIN bar_window'[t] :
            \E j \in 1..cursors'[t] : bar_window'[t][i] = all_data'[t][j]
      BY <1>2, <2>2, <2>5
    <3>2. /\ bar_window'[t] # <<>>
          /\ bar_window'[t][Len(bar_window'[t])] = LatestRow(t)'
          /\ cursors'[t] # 0
      BY <1>5, <2>2, <2>3, <2>4
    <3>3. Ascending(all_data'[t])
      BY <1>2 DEF WindowInv, WindowsBehindCursors, WindowBehindCursor
    <3> QED
      BY <2>4, <3>1, <3>2, <3>3 DEF WindowBehindCursor
  <2>7. ASSUME NEW u \in Listed, u # t PROVE WindowBehindCursor(u)'
    <3>1. WindowBehindCursor(u)
      BY DEF WindowInv, WindowsBehindCursors
    <3>2. /\ all_data' = all_data
          /\ cursors'[u] = cursors[u] /\ bar_window'[u] = bar_window[u]
      BY <1>2, <2>1, <2>7
    <3> QED
      BY <3>1, <3>2, SMTT(30) DEF WindowBehindCursor, LatestRow
  <2> QED
    BY <2>6, <2>7 DEF WindowsBehindCursors
<1>7. NothingYet'
  BY <1>2 DEF NothingYet
<1> QED
  BY <1>1, <1>6, <1>7 DEF WindowInv

\* It queues that row, and the others queued are of other symbols, since no
\* symbol is listed twice.
LEMMA AdvanceDataInv ==
  ASSUME Distinct(Symbols)
  PROVE  DataInv /\ AdvanceSymbol => DataInv'
<1> SUFFICES ASSUME DataInv, AdvanceSymbol PROVE DataInv'
  OBVIOUS
<1>0. PICK t \in Listed : t = Symbols[k]
  BY SymbolsListed DEF DataInv, WindowInv, IInv, TypeOK, AdvanceSymbol
<1> DEFINE row == all_data[t][cursors[t] + 1]
<1>1. WindowInv'
  BY AdvanceWindowInv DEF DataInv
<1>2. /\ k \in 1..Len(Symbols) /\ k' = k + 1 /\ pc = "bars" /\ pc' = "bars"
      /\ cursors \in [Listed -> Nat] /\ bar_window \in [Listed -> Seq(Row)]
      /\ all_data \in [Listed -> Seq(Row)] /\ all_data' = all_data
      /\ event_queue \in Seq(Events)
  BY DEF DataInv, WindowInv, IInv, TypeOK, AdvanceSymbol
<1>3. /\ cursors[t] < Len(all_data[t])
      /\ cursors' = [cursors EXCEPT ![t] = cursors[t] + 1]
      /\ event_queue' = Append(event_queue, MarketEvent(t, row))
  BY <1>0 DEF AdvanceSymbol
<1>4. row \in Row
  BY <1>2, <1>3
<1>5. QueuedBarsAreLatest'
  <2> DEFINE e == MarketEvent(t, row)
  <2> SUFFICES ASSUME NEW i \in DOMAIN event_queue', event_queue'[i].type = "MARKET"
               PROVE  \E j \in 1..Len(Symbols) : IsLatestBarOf(i, j)'
    BY DEF QueuedBarsAreLatest
  <2>1. \/ i \in DOMAIN event_queue /\ event_queue'[i] = event_queue[i]
        \/ event_queue'[i] = e
    <3> HIDE DEF e
    <3> QED
      BY <1>2, <1>3 DEF e
  <2>2. CASE i \in DOMAIN event_queue /\ event_queue'[i] = event_queue[i]
    <3>1. PICK j \in 1..Len(Symbols) : IsLatestBarOf(i, j)
      BY <2>2 DEF DataInv, QueuedBarsAreLatest
    <3>2. j < k /\ j < k' /\ Symbols[j] \in Listed
      BY <1>2, <3>1, SymbolsListed DEF IsLatestBarOf
    <3>3. Symbols[j] # t
      BY <1>0, <1>2, <3>2, BacktestAssumption DEF Distinct
    <3>4. cursors'[Symbols[j]] = cursors[Symbols[j]]
      BY <1>2, <1>3, <3>2, <3>3
    <3> QED
      BY <1>2, <2>2, <3>1, <3>2, <3>4 DEF IsLatestBarOf, LatestRow
  <2>3. CASE event_queue'[i] = e
    <3>1. cursors'[t] = cursors[t] + 1 /\ cursors[t] \in Nat
      BY <1>2, <1>3
    <3>2. row = [timestamp |-> row.timestamp, close |-> row.close]
      BY <1>4 DEF Row
    <3>2a. k' = k + 1 /\ k < k' /\ Symbols[k] = t
      BY <1>0, <1>2
    <3>3. /\ event_queue'[i].symbol = CopySymbol[t]
          /\ [timestamp |-> event_queue'[i].timestamp, close |-> event_queue'[i].close] = row
      BY <2>3, <3>2 DEF MarketEvent
    <3>4. LatestRow(t)' = row /\ cursors'[t] > 0
      <4> HIDE DEF row
      <4> QED
        BY <1>2, <3>1 DEF LatestRow, row
    <3> QED
      BY <1>2, <3>2a, <3>3, <3>4 DEF IsLatestBarOf
  <2> QED
    BY <2>1, <2>2, <2>3
<1> QED
  BY <1>1, <1>5 DEF DataInv

\* Handling an event touches neither the files nor the cursors, and only
\* update_bars queues bars.
LEMMA EventHandled ==
  ASSUME IInv, ProcessMarket \/ ProcessSignal \/ ProcessOrder \/ ProcessFillOrRisk
  PROVE  /\ pc = "drain" /\ pc' = "drain" /\ event_queue # <<>>
         /\ UNCHANGED <<disk, loop_vars, data_vars>>
         /\ IInv' /\ HeadReplaced
<1>1. /\ pc = "drain" /\ event_queue # <<>>
      /\ UNCHANGED <<disk, loop_vars, data_vars>>
  BY DEF ProcessMarket, ProcessSignal, ProcessOrder, ProcessFillOrRisk, Draining
<1>2. pc' = "drain"
  BY <1>1 DEF loop_vars
<1> QED
  BY <1>1, <1>2, MarketIInv, SignalIInv, OrderIInv, FillOrRiskIInv

\* A bar in the queue after an event is handled was behind its head before.
LEMMA QueueShifts ==
  ASSUME IInv, ProcessMarket \/ ProcessSignal \/ ProcessOrder \/ ProcessFillOrRisk
  PROVE  /\ pc = "drain" /\ pc' = "drain" /\ UNCHANGED <<loop_vars, data_vars>>
         /\ \A i \in DOMAIN event_queue' : event_queue'[i].type = "MARKET" =>
              i + 1 \in DOMAIN event_queue /\ event_queue'[i] = event_queue[i + 1]
         /\ \A i \in DOMAIN event_queue : i # 1 =>
              \E j \in DOMAIN event_queue' : event_queue'[j] = event_queue[i]
<1>1. event_queue \in Seq(Events) /\ event_queue # <<>>
  BY EventHandled DEF IInv, TypeOK
<1>2. PICK s \in Seq(Events) : /\ Len(s) <= 1
                               /\ \A i \in DOMAIN s : s[i].type # "MARKET"
                               /\ event_queue' = Tail(event_queue) \o s
  BY EventHandled DEF HeadReplaced
<1>3. ASSUME NEW i \in DOMAIN event_queue', event_queue'[i].type = "MARKET"
      PROVE  i + 1 \in DOMAIN event_queue /\ event_queue'[i] = event_queue[i + 1]
  <2>1. \/ i + 1 \in DOMAIN event_queue /\ event_queue'[i] = event_queue[i + 1]
        \/ Len(s) = 1 /\ event_queue'[i] = s[1]
    BY <1>1, <1>2, <1>3, HeadHandled
  <2>2. Len(s) = 1 => s[1].type # "MARKET"
    BY <1>2
  <2> QED
    BY <1>3, <2>1, <2>2
<1>4. ASSUME NEW i \in DOMAIN event_queue, i # 1
      PROVE  \E j \in DOMAIN event_queue' : event_queue'[j] = event_queue[i]
  BY <1>1, <1>2, <1>4, HeadHandled
<1> QED
  BY <1>3, <1>4, EventHandled

\* Every step keeps the windows behind their cursors.
LEMMA NextWindowInv == WindowInv /\ [Next]_vars => WindowInv'
<1> SUFFICES ASSUME WindowInv, [Next]_vars PROVE WindowInv'
  OBVIOUS
<1>1. IInv'
  BY NextIInv DEF WindowInv
<1>2. ASSUME data_vars' = data_vars,
             pc' # "construct" \/ (pc = "construct" /\ UNCHANGED <<event_queue, bar_count,
                                                              portfolio>>)
      PROVE  WindowInv'
  <2>1. NothingYet'
    BY <1>2 DEF WindowInv, NothingYet, data_vars
  <2>2. all_data' = all_data /\ cursors' = cursors /\ bar_window' = bar_window
    BY <1>2 DEF data_vars
  <2>3. WindowsBehindCursors'
    BY <2>2 DEF WindowInv, WindowsBehindCursors, WindowBehindCursor, LatestRow
  <2> QED
    BY <1>1, <2>1, <2>3 DEF WindowInv
<1>3. CASE ProcessMarket \/ ProcessSignal \/ ProcessOrder \/ ProcessFillOrRisk
  BY <1>2, <1>3, EventHandled DEF WindowInv
<1>4. CASE ConstructThrows \/ SkipExhaustedSymbol \/ StartDraining \/ EndBar \/ Finish
  <2>1. data_vars' = data_vars /\ pc' # "construct"
    BY <1>4 DEF ConstructThrows, SkipExhaustedSymbol, StartDraining, EndBar, Finish,
                AfterCallback
  <2> QED
    BY <1>2, <2>1
<1>5. CASE UNCHANGED vars
  <2>1. UNCHANGED <<data_vars, pc, event_queue, bar_count, portfolio>>
    BY <1>5 DEF vars, loop_vars, account_vars
  <2> QED
    BY <1>2, <2>1
<1> QED
  BY <1>3, <1>4, <1>5, ConstructDataInv, AdvanceWindowInv DEF Next, Step, Terminated, DataInv

\* What is left of the queue after its head still is what it was.
LEMMA DrainDataInv ==
  DataInv /\ (ProcessMarket \/ ProcessSignal \/ ProcessOrder \/ ProcessFillOrRisk)
    => QueuedBarsAreLatest'
<1> SUFFICES ASSUME DataInv,
                    ProcessMarket \/ ProcessSignal \/ ProcessOrder \/ ProcessFillOrRisk,
                    NEW i \in DOMAIN event_queue', event_queue'[i].type = "MARKET"
             PROVE  \E j \in 1..Len(Symbols) : IsLatestBarOf(i, j)'
  BY DEF QueuedBarsAreLatest
<1>1. /\ pc' = "drain" /\ UNCHANGED <<loop_vars, data_vars>>
      /\ i + 1 \in DOMAIN event_queue /\ event_queue'[i] = event_queue[i + 1]
  BY QueueShifts DEF DataInv, WindowInv
<1>2. PICK j \in 1..Len(Symbols) : IsLatestBarOf(i + 1, j)
  BY <1>1 DEF DataInv, QueuedBarsAreLatest
<1> QED
  BY <1>1, <1>2 DEF IsLatestBarOf, LatestRow, data_vars, loop_vars

\* Every step keeps the invariant.
LEMMA NextDataInv ==
  ASSUME Distinct(Symbols)
  PROVE  DataInv /\ [Next]_vars => DataInv'
<1> SUFFICES ASSUME DataInv, [Next]_vars PROVE DataInv'
  OBVIOUS
<1>1. WindowInv'
  BY NextWindowInv DEF DataInv
<1>2. ASSUME UNCHANGED <<event_queue, data_vars>>,
             \A j \in 1..Len(Symbols) : pc' = "bars" /\ (pc = "bars" => j < k) => j < k'
      PROVE  DataInv'
  BY <1>1, <1>2 DEF DataInv, QueuedBarsAreLatest, IsLatestBarOf, LatestRow, data_vars
<1>3. CASE ProcessMarket \/ ProcessSignal \/ ProcessOrder \/ ProcessFillOrRisk
  BY <1>1, <1>3, DrainDataInv DEF DataInv
<1>4. CASE ConstructThrows \/ SkipExhaustedSymbol \/ StartDraining \/ Finish
  <2>1. UNCHANGED <<event_queue, data_vars>>
    BY <1>4 DEF ConstructThrows, SkipExhaustedSymbol, StartDraining, Finish
  <2>2. pc' = "bars" => SkipExhaustedSymbol
    BY <1>4 DEF ConstructThrows, StartDraining, Finish, AfterCallback
  <2>3. SkipExhaustedSymbol => pc = "bars" /\ k' = k + 1 /\ k \in Nat
    BY DEF DataInv, WindowInv, IInv, TypeOK, SkipExhaustedSymbol
  <2> QED
    BY <1>2, <2>1, <2>2, <2>3
<1>5. CASE EndBar
  <2>1. event_queue' = <<>>
    BY <1>5 DEF EndBar
  <2> QED
    BY <1>1, <2>1 DEF DataInv, QueuedBarsAreLatest
<1>6. CASE UNCHANGED vars
  <2>1. UNCHANGED <<event_queue, data_vars, pc, k>>
    BY <1>6 DEF vars, loop_vars
  <2> QED
    BY <1>2, <2>1
<1> QED
  BY <1>3, <1>4, <1>5, <1>6, ConstructDataInv, AdvanceDataInv DEF Next, Step, Terminated, DataInv

\* The invariant holds in every reachable state.
LEMMA DataInvariance ==
  ASSUME Distinct(Symbols)
  PROVE  Spec => []DataInv
<1>1. DataInv /\ [Next]_vars => DataInv'
  BY NextDataInv
<1> QED
  BY <1>1, InitDataInv, PTL DEF Spec

\* No future bar reaches the strategy: whatever the files, the prices and the
\* strategy, if no symbol is listed twice and no name is cut to another
\* listed one, a bar is handled while its window ends with that very bar.
THEOREM StrategySeesNoFuture ==
  ASSUME Distinct(Symbols), NoAlias
  PROVE  Spec => []NoLookAhead
<1>1. DataInv => NoLookAhead
  <2> SUFFICES ASSUME DataInv, Draining("MARKET"),
                      WindowOf(Head(event_queue).symbol) # <<>>
               PROVE  LET e == Head(event_queue)
                          bars == WindowOf(e.symbol)
                      IN  /\ bars[Len(bars)] = [timestamp |-> e.timestamp, close |-> e.close]
                          /\ \A i \in DOMAIN bars : bars[i].timestamp <= e.timestamp
    BY DEF NoLookAhead
  <2>1. /\ event_queue \in Seq(Events) /\ event_queue # <<>>
        /\ Head(event_queue) = event_queue[1] /\ 1 \in DOMAIN event_queue
        /\ event_queue[1].type = "MARKET"
    BY DEF DataInv, WindowInv, IInv, TypeOK, Draining
  <2>2. PICK j \in 1..Len(Symbols) : IsLatestBarOf(1, j)
    BY <2>1 DEF DataInv, QueuedBarsAreLatest
  <2>3. PICK t \in Listed : t = Symbols[j]
    BY SymbolsListed
  <2>4. Head(event_queue).symbol = t /\ WindowOf(Head(event_queue).symbol) = bar_window[t]
    BY <2>1, <2>2, <2>3 DEF IsLatestBarOf, WindowOf, NoAlias
  <2>5. PICK e \in Events : e = Head(event_queue)
    BY <2>1
  <2>6. /\ cursors[t] > 0 /\ WindowBehindCursor(t)
        /\ [timestamp |-> e.timestamp, close |-> e.close] = all_data[t][cursors[t]]
    BY <2>1, <2>2, <2>3, <2>5 DEF IsLatestBarOf, LatestRow, DataInv, WindowInv,
                                          WindowsBehindCursors
  <2>7. /\ cursors[t] \in Nat /\ all_data[t] \in Seq(Row) /\ bar_window[t] \in Seq(Row)
        /\ cursors[t] \in DOMAIN all_data[t]
    BY <2>6 DEF DataInv, WindowInv, IInv, TypeOK, WindowBehindCursor
  <2>8. \A j2 \in 1..cursors[t] : all_data[t][j2].timestamp <= e.timestamp
    <3>1. SUFFICES ASSUME NEW j2 \in 1..cursors[t]
                   PROVE  all_data[t][j2].timestamp <= e.timestamp
      OBVIOUS
    <3>2. all_data[t][cursors[t]].timestamp = e.timestamp /\ all_data[t][cursors[t]] \in Row
      BY <2>6, <2>7
    <3>3. e.timestamp \in Int
      BY <3>2 DEF Row
    <3>4. CASE j2 = cursors[t]
      BY <3>2, <3>3, <3>4
    <3>5. CASE j2 < cursors[t]
      BY <2>6, <2>7, <3>2, <3>5 DEF WindowBehindCursor, Ascending
    <3> QED
      BY <2>7, <3>4, <3>5
  <2> QED
    BY <2>4, <2>5, <2>6, <2>7, <2>8 DEF WindowBehindCursor, LatestRow
<1> QED
  BY <1>1, DataInvariance, PTL

-----------------------------------------------------------------------------
(* The equity curve.                                                        *)

First == Symbols[1]

LEMMA FirstListed == First \in Listed /\ 1 \in 1..Len(Symbols)
BY SymbolsListed DEF First

\* Only the end of a bar touches the curve (Backtest.cpp:74-77).
LEMMA CurveElsewhere ==
  ASSUME IInv, [Next]_vars, ~EndBar
  PROVE  portfolio'.equity_curve = portfolio.equity_curve
<1>1. CASE ProcessMarket
  <2>1. Head(event_queue) \in MarketEvents
    <3>1. Head(event_queue) \in Events /\ Head(event_queue).type = "MARKET"
      BY <1>1, HeadTailProperties DEF IInv, TypeOK, ProcessMarket, Draining
    <3> QED
      BY <3>1 DEF Events, MarketEvents, SignalEvents, OrderEvents, RiskEvents
  <2>2. portfolio' = OnMarket(portfolio, Head(event_queue))
    BY <1>1 DEF ProcessMarket
  <2> QED
    BY <2>1, <2>2, MarkedUntraded DEF IInv
<1>2. CASE ProcessFillOrRisk
  <2>1. Head(event_queue) \in Events
    BY <1>2, HeadTailProperties DEF IInv, TypeOK, ProcessFillOrRisk, Draining
  <2>2. Head(event_queue).type # "FILL"
    BY <2>1 DEF Events, MarketEvents, SignalEvents, OrderEvents, RiskEvents
  <2> QED
    BY <1>2, <2>2 DEF ProcessFillOrRisk
<1>3. ProcessMarket \/ ProcessFillOrRisk \/ portfolio' = portfolio
  BY DEF Next, Step, Construct, ConstructThrows, AdvanceSymbol, SkipExhaustedSymbol,
         StartDraining, ProcessSignal, ProcessOrder, Finish, Terminated, vars, account_vars
<1> QED
  BY <1>1, <1>2, <1>3

\* It adds the time of the latest bar of the first symbol, when it has one.
LEMMA CurveAtEndOfBar ==
  ASSUME WindowInv, EndBar
  PROVE  /\ cursors[First] = 0 => portfolio' = portfolio
         /\ cursors[First] > 0 =>
              \E pt \in Snapshots :
                /\ pt.timestamp = LatestRow(First).timestamp
                /\ portfolio'.equity_curve = Append(portfolio.equity_curve, pt)
<1> DEFINE bars == bar_window[First]
<1>1. WindowOf(First) = bars /\ WindowBehindCursor(First)
  BY FirstListed DEF WindowOf, WindowInv, WindowsBehindCursors
<1>2. portfolio' = IF bars = <<>> THEN portfolio
                   ELSE RecordEquity(portfolio, bars[Len(bars)].timestamp)
  BY <1>1 DEF EndBar, Snapshot, First
<1>3. ASSUME cursors[First] > 0
      PROVE  \E pt \in Snapshots :
               /\ pt.timestamp = LatestRow(First).timestamp
               /\ portfolio'.equity_curve = Append(portfolio.equity_curve, pt)
  <2>1. bars # <<>> /\ bars[Len(bars)] = LatestRow(First)
    BY <1>1, <1>3 DEF WindowBehindCursor
  <2>2. LatestRow(First) \in Row
    BY <1>1, <1>3, FirstListed
       DEF WindowInv, IInv, TypeOK, WindowBehindCursor, LatestRow
  <2> DEFINE ts == LatestRow(First).timestamp
             pt == [timestamp |-> ts, equity |-> InitialCapital, cash |-> InitialCapital]
  <2>3. ts \in Int
    BY <2>2 DEF Row
  <2>4. portfolio' = RecordEquity(portfolio, ts)
    BY <1>2, <2>1
  <2>5. pt \in Snapshots /\ pt.timestamp = ts
    BY <2>3, PortfolioAssumption DEF Snapshots
  <2> HIDE DEF ts
  <2>6. portfolio'.equity_curve = Append(portfolio.equity_curve, pt)
    BY <2>3, <2>4, RecordedUntraded DEF WindowInv, IInv
  <2> QED
    BY <2>5, <2>6 DEF ts
<1>4. cursors[First] = 0 => portfolio' = portfolio
  BY <1>1, <1>2 DEF WindowBehindCursor
<1> QED
  BY <1>3, <1>4

\* Cursors only go forward, over rows that stay where they are, once the
\* files are loaded.
LEMMA CursorsAdvance ==
  ASSUME WindowInv, [Next]_vars, ~Construct, NEW t \in Listed
  PROVE  all_data' = all_data /\ cursors'[t] \in {cursors[t], cursors[t] + 1}
<1>1. CASE AdvanceSymbol
  <2>1. PICK u \in Listed : u = Symbols[k]
    BY <1>1, SymbolsListed DEF WindowInv, IInv, TypeOK, AdvanceSymbol
  <2>2. all_data' = all_data /\ cursors' = [cursors EXCEPT ![u] = cursors[u] + 1]
    BY <1>1, <2>1 DEF AdvanceSymbol
  <2> QED
    BY <2>2 DEF WindowInv, IInv, TypeOK
<1>2. CASE ~AdvanceSymbol
  <2>1. data_vars' = data_vars
    BY <1>2 DEF Next, Step, ConstructThrows, SkipExhaustedSymbol, StartDraining, ProcessMarket,
                ProcessSignal, ProcessOrder, ProcessFillOrRisk, EndBar, Finish, Terminated, vars
  <2> QED
    BY <2>1 DEF data_vars
<1> QED
  BY <1>1, <1>2

\* The curve is in order, and not ahead of the first symbol's latest row.
CurveInOrder ==
  LET curve == portfolio.equity_curve
  IN  /\ curve # <<>> => cursors[First] > 0
      /\ \A i \in DOMAIN curve : curve[i].timestamp <= LatestRow(First).timestamp
      /\ \A i, j \in DOMAIN curve : i <= j => curve[i].timestamp <= curve[j].timestamp

LEMMA CurveInOrderStep == WindowInv /\ CurveInOrder /\ [Next]_vars => CurveInOrder'
<1> SUFFICES ASSUME WindowInv, CurveInOrder, [Next]_vars PROVE CurveInOrder'
  OBVIOUS
<1> DEFINE curve == portfolio.equity_curve
<1>1. /\ curve \in Seq(Snapshots) /\ WindowBehindCursor(First)
      /\ cursors[First] \in Nat /\ all_data[First] \in Seq(Row)
  BY FirstListed DEF WindowInv, IInv, TypeOK, IsPortfolio, WindowsBehindCursors
<1>2. \A i \in DOMAIN curve : curve[i].timestamp \in Int
  <2>1. \A i \in DOMAIN curve : curve[i] \in Snapshots
    BY <1>1
  <2> QED
    BY <2>1 DEF Snapshots
<1>3. CASE Construct
  <2>1. curve = <<>> /\ portfolio' = portfolio
    BY <1>3 DEF Construct, account_vars, WindowInv, NothingYet
  <2> QED
    BY <2>1 DEF CurveInOrder
<1>4. CASE ~Construct /\ ~EndBar
  <2>1. curve' = curve
    BY <1>4, CurveElsewhere DEF WindowInv
  <2>2. all_data' = all_data /\ cursors'[First] \in {cursors[First], cursors[First] + 1}
    BY <1>4, CursorsAdvance, FirstListed
  <2>3. ASSUME curve # <<>> PROVE LatestRow(First).timestamp <= LatestRow(First)'.timestamp
    <3>1. cursors[First] > 0 /\ cursors'[First] <= Len(all_data[First])
      <4>1. WindowBehindCursor(First)'
        BY NextWindowInv, FirstListed DEF WindowInv, WindowsBehindCursors
      <4> QED
        BY <2>2, <2>3, <4>1 DEF CurveInOrder, WindowBehindCursor
    <3>2. {cursors[First], cursors'[First]} \subseteq DOMAIN all_data[First]
      BY <1>1, <2>2, <3>1
    <3>3. \A i \in DOMAIN all_data[First] : all_data[First][i].timestamp \in Int
      <4>1. \A i \in DOMAIN all_data[First] : all_data[First][i] \in Row
        BY <1>1
      <4> QED
        BY <4>1 DEF Row
    <3>4. /\ LatestRow(First) = all_data[First][cursors[First]]
          /\ LatestRow(First)' = all_data[First][cursors'[First]]
      BY <2>2 DEF LatestRow
    <3>5. CASE cursors'[First] = cursors[First]
      BY <3>2, <3>3, <3>4, <3>5
    <3>6. CASE cursors'[First] = cursors[First] + 1
      <4>1. cursors[First] < cursors'[First]
        BY <1>1, <3>6
      <4> QED
        BY <1>1, <3>2, <3>4, <4>1 DEF WindowBehindCursor, Ascending
    <3> QED
      BY <2>2, <3>5, <3>6
  <2>4. ASSUME NEW i \in DOMAIN curve PROVE curve[i].timestamp <= LatestRow(First)'.timestamp
    <3>1. curve # <<>> /\ curve[i].timestamp <= LatestRow(First).timestamp
      BY <2>4 DEF CurveInOrder
    <3>2. LatestRow(First) \in Row /\ LatestRow(First)' \in Row
      <4>1. cursors[First] > 0
        BY <3>1 DEF CurveInOrder
      <4>2. WindowBehindCursor(First)'
        BY NextWindowInv, FirstListed DEF WindowInv, WindowsBehindCursors
      <4> QED
        BY <1>1, <2>2, <4>1, <4>2 DEF LatestRow, WindowBehindCursor
    <3> QED
      BY <1>2, <2>3, <3>1, <3>2 DEF Row
  <2>5. curve # <<>> => cursors'[First] > 0
    BY <1>1, <2>2 DEF CurveInOrder
  <2> QED
    BY <2>1, <2>4, <2>5 DEF CurveInOrder
<1>5. CASE EndBar
  <2>1. UNCHANGED <<all_data, cursors>> /\ LatestRow(First)' = LatestRow(First)
    BY <1>5 DEF EndBar, data_vars, LatestRow
  <2>2. CASE cursors[First] = 0
    <3>1. portfolio' = portfolio
      BY <1>5, <2>2, CurveAtEndOfBar
    <3> QED
      BY <2>1, <3>1 DEF CurveInOrder
  <2>3. CASE cursors[First] > 0
    <3>1. PICK pt \in Snapshots : /\ pt.timestamp = LatestRow(First).timestamp
                                  /\ curve' = Append(curve, pt)
      BY <1>5, <2>3, CurveAtEndOfBar
    <3>2. \A i \in DOMAIN curve' :
            \/ i \in DOMAIN curve /\ curve'[i] = curve[i]
            \/ i = Len(curve) + 1 /\ curve'[i] = pt
      BY <1>1, <3>1
    <3>3. pt.timestamp \in Int
      BY DEF Snapshots
    <3>4. \A i \in DOMAIN curve : i \in Nat /\ i <= Len(curve)
      BY <1>1
    <3>5. Len(curve) \in Nat
      BY <1>1
    <3>6. \A i \in DOMAIN curve' : curve'[i].timestamp <= pt.timestamp
      BY <3>1, <3>2, <3>3 DEF CurveInOrder
    <3>7. ASSUME NEW i \in DOMAIN curve', NEW j \in DOMAIN curve', i <= j
          PROVE  curve'[i].timestamp <= curve'[j].timestamp
      <4>1. CASE j = Len(curve) + 1 /\ curve'[j] = pt
        BY <3>6, <4>1
      <4>2. CASE j \in DOMAIN curve /\ curve'[j] = curve[j]
        <5>1. i \in DOMAIN curve /\ curve'[i] = curve[i]
          BY <3>2, <3>4, <3>5, <3>7, <4>2
        <5> QED
          BY <3>7, <4>2, <5>1 DEF CurveInOrder
      <4> QED
        BY <3>2, <4>1, <4>2
    <3> QED
      BY <2>1, <2>3, <3>1, <3>6, <3>7 DEF CurveInOrder
  <2> QED
    BY <1>1, <2>2, <2>3
<1> QED
  BY <1>3, <1>4, <1>5

\* Whatever the symbols, repeated ones and ones cut to another's name
\* included, the files and the strategy, the equity curve never goes back in
\* time (Backtest.cpp:74-77, DataHandler.cpp:60-66).
THEOREM CurveNeverGoesBack == Spec => []EquityTimestampsOrdered
<1>1. Init => WindowInv /\ CurveInOrder
  <2> SUFFICES ASSUME Init PROVE WindowInv /\ CurveInOrder
    OBVIOUS
  <2>1. WindowInv
    BY InitDataInv DEF DataInv
  <2>2. portfolio.equity_curve = <<>>
    BY DEF Init, NewPortfolio
  <2> QED
    BY <2>1, <2>2 DEF CurveInOrder
<1>2. WindowInv /\ CurveInOrder /\ [Next]_vars => WindowInv' /\ CurveInOrder'
  BY NextWindowInv, CurveInOrderStep
<1>3. CurveInOrder => EquityTimestampsOrdered
  BY DEF CurveInOrder, EquityTimestampsOrdered
<1> QED
  BY <1>1, <1>2, <1>3, PTL DEF Spec

-----------------------------------------------------------------------------
(* Lockstep, for lists that name each symbol once: the equity curve has one *)
(* snapshot per bar, and the engine implements BarReplay.  The invariant    *)
(* LockInv says how far each cursor is from the number of bars counted,     *)
(* symbol by symbol of the round of update_bars under way.                  *)

Smaller(a, b) == IF a <= b THEN a ELSE b

\* The rounds of update_bars that have visited symbol j of the list.
Rounds(j) == bar_count + (IF pc = "bars" /\ j < k THEN 1 ELSE 0)

\* Each round takes one bar of each symbol that has one left.
Lockstep ==
  \A j \in 1..Len(Symbols) :
    cursors[Symbols[j]] = Smaller(Rounds(j), Len(all_data[Symbols[j]]))

\* A round that has advanced nobody has found only exhausted symbols.
NoneLeft ==
  pc = "bars" /\ ~any_advanced =>
    /\ event_queue = <<>>
    /\ \A j \in 1..Len(Symbols) : j < k => Len(all_data[Symbols[j]]) <= bar_count

DrainCounted == pc = "drain" => bar_count > 0

LockInv == WindowInv /\ Lockstep /\ NoneLeft /\ DrainCounted

\* What the steps below need of the types.
LEMMA LockTypes ==
  ASSUME WindowInv
  PROVE  /\ cursors \in [Listed -> Nat] /\ all_data \in [Listed -> Seq(Row)]
         /\ \A t \in Listed : cursors[t] \in Nat /\ Len(all_data[t]) \in Nat
         /\ bar_count \in Nat /\ k \in 1..(Len(Symbols) + 1) /\ Len(Symbols) \in Nat
         /\ \A j \in 1..Len(Symbols) : Symbols[j] \in Listed
         /\ event_queue \in Seq(Events) /\ portfolio.equity_curve \in Seq(Snapshots)
<1>1. /\ cursors \in [Listed -> Nat] /\ all_data \in [Listed -> Seq(Row)]
      /\ bar_count \in Nat /\ k \in 1..(Len(Symbols) + 1)
      /\ event_queue \in Seq(Events) /\ portfolio.equity_curve \in Seq(Snapshots)
  BY DEF WindowInv, IInv, TypeOK, IsPortfolio
<1>2. \A t \in Listed : cursors[t] \in Nat /\ Len(all_data[t]) \in Nat
  BY <1>1
<1> QED
  BY <1>1, <1>2, SymbolsListed

\* The state the constructor leaves is the start of round 1.
LEMMA ConstructLock == LockInv /\ Construct => LockInv'
<1> SUFFICES ASSUME LockInv, Construct PROVE LockInv'
  OBVIOUS
<1>1. WindowInv'
  BY ConstructDataInv DEF LockInv, DataInv
<1>2. /\ event_queue' = <<>> /\ bar_count' = 0 /\ k' = 1 /\ pc' = "bars"
      /\ \A t \in Listed : cursors'[t] = 0
  BY DEF Construct, LockInv, WindowInv, IInv, NothingYet
<1>3. \A t \in Listed : Len(all_data'[t]) \in Nat
  <2>1. all_data' \in [Listed -> Seq(Row)]
    BY <1>1 DEF WindowInv, IInv, TypeOK
  <2> QED
    BY <2>1
<1>4. ASSUME NEW j \in 1..Len(Symbols)
      PROVE  /\ cursors'[Symbols[j]] = Smaller(Rounds(j)', Len(all_data'[Symbols[j]]))
             /\ ~ (j < k')
  <2>1. Symbols[j] \in Listed /\ j \in Nat /\ j > 0
    BY SymbolsListed
  <2>2. Rounds(j)' = 0
    BY <1>2, <2>1 DEF Rounds
  <2> QED
    BY <1>2, <1>3, <2>1, <2>2 DEF Smaller
<1> QED
  BY <1>1, <1>2, <1>4 DEF LockInv, Lockstep, NoneLeft, DrainCounted

\* The symbol visited had a bar left, so it has kept up with the rounds.
LEMMA AdvanceLock ==
  ASSUME Distinct(Symbols)
  PROVE  LockInv /\ AdvanceSymbol => LockInv' /\ cursors[Symbols[k]] = bar_count
<1> SUFFICES ASSUME LockInv, AdvanceSymbol
             PROVE  LockInv' /\ cursors[Symbols[k]] = bar_count
  OBVIOUS
<1>1. WindowInv'
  BY AdvanceWindowInv DEF LockInv
<1>2. WindowInv
  BY DEF LockInv
<1>3. /\ k \in 1..Len(Symbols) /\ k' = k + 1 /\ pc = "bars" /\ pc' = "bars"
      /\ all_data' = all_data /\ any_advanced' /\ bar_count' = bar_count
  BY <1>2, LockTypes DEF AdvanceSymbol
<1>4. PICK t \in Listed : t = Symbols[k]
  BY <1>3, SymbolsListed
<1>5. cursors[t] < Len(all_data[t]) /\ cursors' = [cursors EXCEPT ![t] = cursors[t] + 1]
  BY <1>4 DEF AdvanceSymbol
<1>6. cursors[t] = bar_count
  <2>1. Rounds(k) = bar_count
    BY <1>2, <1>3, LockTypes DEF Rounds
  <2>2. cursors[t] = Smaller(bar_count, Len(all_data[t]))
    BY <1>3, <1>4, <2>1 DEF LockInv, Lockstep
  <2> QED
    BY <1>2, <1>5, <2>2, LockTypes DEF Smaller
<1>7. ASSUME NEW j \in 1..Len(Symbols)
      PROVE  cursors'[Symbols[j]] = Smaller(Rounds(j)', Len(all_data'[Symbols[j]]))
  <2>1. CASE j = k
    <3>1. Rounds(j)' = bar_count + 1
      BY <1>2, <1>3, <2>1, LockTypes DEF Rounds
    <3>2. cursors'[t] = bar_count + 1
      BY <1>2, <1>5, <1>6, LockTypes
    <3> QED
      BY <1>2, <1>3, <1>4, <1>5, <1>6, <2>1, <3>1, <3>2, LockTypes DEF Smaller
  <2>2. CASE j # k
    <3>1. Symbols[j] # t /\ Symbols[j] \in Listed
      BY <1>2, <1>3, <1>4, <2>2, LockTypes, BacktestAssumption DEF Distinct
    <3>2. Rounds(j)' = Rounds(j)
      BY <1>3, <2>2 DEF Rounds
    <3>3. cursors'[Symbols[j]] = cursors[Symbols[j]]
      BY <1>2, <1>5, <3>1, LockTypes
    <3> QED
      BY <1>3, <3>2, <3>3 DEF LockInv, Lockstep
  <2> QED
    BY <2>1, <2>2
<1> QED
  BY <1>1, <1>3, <1>4, <1>6, <1>7 DEF LockInv, Lockstep, NoneLeft, DrainCounted

\* The symbol visited has run out of bars, in this round or before.
LEMMA SkipLock == LockInv /\ SkipExhaustedSymbol => LockInv'
<1> SUFFICES ASSUME LockInv, SkipExhaustedSymbol PROVE LockInv'
  OBVIOUS
<1>1. WindowInv /\ WindowInv'
  BY NextWindowInv DEF LockInv, Next, Step
<1>2. /\ k \in 1..Len(Symbols) /\ k' = k + 1 /\ pc = "bars" /\ pc' = "bars"
      /\ all_data' = all_data /\ cursors' = cursors
      /\ UNCHANGED <<any_advanced, bar_count, event_queue>>
      /\ cursors[Symbols[k]] >= Len(all_data[Symbols[k]])
  BY <1>1, LockTypes DEF SkipExhaustedSymbol, data_vars
<1>3. PICK n \in 1..Len(Symbols) : n = k
  BY <1>2
<1>4. Rounds(n) = bar_count /\ Rounds(n)' = bar_count + 1
  BY <1>1, <1>2, <1>3, LockTypes DEF Rounds
<1>5. /\ Len(all_data[Symbols[n]]) <= bar_count
      /\ cursors'[Symbols[n]] = Smaller(Rounds(n)', Len(all_data'[Symbols[n]]))
  <2>1. cursors[Symbols[n]] = Smaller(bar_count, Len(all_data[Symbols[n]]))
    BY <1>4 DEF LockInv, Lockstep
  <2>2. cursors[Symbols[n]] \in Nat /\ Len(all_data[Symbols[n]]) \in Nat /\ bar_count \in Nat
    BY <1>1, LockTypes
  <2> QED
    BY <1>2, <1>3, <1>4, <2>1, <2>2 DEF Smaller
<1>6. ASSUME NEW j \in 1..Len(Symbols), j # n
      PROVE  /\ Rounds(j)' = Rounds(j)
             /\ j < k' => j < k
  BY <1>2, <1>3, <1>6 DEF Rounds
<1>7. Lockstep'
  <2> SUFFICES ASSUME NEW j \in 1..Len(Symbols)
               PROVE  cursors'[Symbols[j]] = Smaller(Rounds(j)', Len(all_data'[Symbols[j]]))
    BY DEF Lockstep
  <2>1. CASE j = n
    BY <1>5, <2>1
  <2>2. CASE j # n
    BY <1>2, <1>6, <2>2 DEF LockInv, Lockstep
  <2> QED
    BY <2>1, <2>2
<1>8. NoneLeft'
  BY <1>2, <1>5, <1>6 DEF LockInv, NoneLeft
<1> QED
  BY <1>1, <1>2, <1>7, <1>8 DEF LockInv, DrainCounted

\* Nothing else moves a cursor: a round that is over is counted, and the
\* last one has found nothing to count.
LEMMA NextLock ==
  ASSUME Distinct(Symbols)
  PROVE  LockInv /\ [Next]_vars => LockInv'
<1> SUFFICES ASSUME LockInv, [Next]_vars PROVE LockInv'
  OBVIOUS
<1>1. WindowInv /\ WindowInv'
  BY NextWindowInv DEF LockInv
<1>2. ASSUME UNCHANGED <<all_data, cursors>>,
             \A j \in 1..Len(Symbols) :
               Smaller(Rounds(j)', Len(all_data[Symbols[j]]))
                 = Smaller(Rounds(j), Len(all_data[Symbols[j]]))
      PROVE  Lockstep'
  BY <1>2 DEF LockInv, Lockstep
<1>3. CASE StartDraining
  <2>1. /\ UNCHANGED <<all_data, cursors>> /\ pc = "bars" /\ k > Len(Symbols)
        /\ pc' = "drain" /\ bar_count' = bar_count + 1 /\ k' = k
    BY <1>3 DEF StartDraining, data_vars
  <2>2. \A j \in 1..Len(Symbols) : Rounds(j)' = Rounds(j)
    BY <1>1, <2>1, LockTypes DEF Rounds
  <2> QED
    BY <1>1, <1>2, <2>1, <2>2, LockTypes DEF LockInv, NoneLeft, DrainCounted
<1>4. CASE EndBar
  <2>1. /\ UNCHANGED <<all_data, cursors, bar_count>> /\ pc = "drain" /\ k' = 1
        /\ event_queue' = <<>> /\ pc' # "drain"
    BY <1>4 DEF EndBar, AfterCallback, data_vars
  <2>2. \A j \in 1..Len(Symbols) : Rounds(j)' = Rounds(j) /\ ~ (j < k')
    BY <1>1, <2>1, LockTypes DEF Rounds
  <2> QED
    BY <1>1, <1>2, <2>1, <2>2 DEF LockInv, NoneLeft, DrainCounted
<1>5. CASE Finish
  <2>1. /\ UNCHANGED <<all_data, cursors, bar_count>> /\ pc = "bars" /\ k > Len(Symbols)
        /\ ~any_advanced /\ pc' # "bars" /\ pc' # "drain"
    BY <1>5 DEF Finish, AfterCallback, data_vars
  <2>2. \A j \in 1..Len(Symbols) : Len(all_data[Symbols[j]]) <= bar_count
    BY <1>1, <2>1, LockTypes DEF LockInv, NoneLeft
  <2>3. \A j \in 1..Len(Symbols) : Rounds(j) = bar_count + 1 /\ Rounds(j)' = bar_count
    BY <1>1, <2>1, LockTypes DEF Rounds
  <2>4. \A j \in 1..Len(Symbols) :
          Smaller(Rounds(j)', Len(all_data[Symbols[j]]))
            = Smaller(Rounds(j), Len(all_data[Symbols[j]]))
    BY <1>1, <2>2, <2>3, LockTypes DEF Smaller
  <2> QED
    BY <1>1, <1>2, <2>1, <2>4 DEF LockInv, NoneLeft, DrainCounted
<1>6. CASE ConstructThrows
  <2>1. /\ UNCHANGED <<all_data, cursors, bar_count>> /\ pc = "construct" /\ pc' = "raised"
    BY <1>6 DEF ConstructThrows, data_vars
  <2>2. \A j \in 1..Len(Symbols) : Rounds(j)' = Rounds(j)
    BY <2>1 DEF Rounds
  <2> QED
    BY <1>1, <1>2, <2>1, <2>2 DEF LockInv, NoneLeft, DrainCounted
<1>7. CASE ProcessMarket \/ ProcessSignal \/ ProcessOrder \/ ProcessFillOrRisk
  <2>1. /\ pc = "drain" /\ pc' = "drain"
        /\ UNCHANGED <<all_data, cursors, bar_count, k, any_advanced>>
    BY <1>1, <1>7, EventHandled DEF WindowInv, data_vars, loop_vars
  <2>2. \A j \in 1..Len(Symbols) : Rounds(j)' = Rounds(j)
    BY <2>1 DEF Rounds
  <2> QED
    BY <1>1, <1>2, <2>1, <2>2 DEF LockInv, NoneLeft, DrainCounted
<1>8. CASE UNCHANGED vars
  <2>1. UNCHANGED <<all_data, cursors, bar_count, k, any_advanced, pc, event_queue>>
    BY <1>8 DEF vars, loop_vars, data_vars
  <2>2. \A j \in 1..Len(Symbols) : Rounds(j)' = Rounds(j)
    BY <2>1 DEF Rounds
  <2> QED
    BY <1>1, <1>2, <2>1, <2>2 DEF LockInv, NoneLeft, DrainCounted
<1> QED
  BY <1>3, <1>4, <1>5, <1>6, <1>7, <1>8, ConstructLock, AdvanceLock, SkipLock
     DEF Next, Step, Terminated

LEMMA InitLock == Init => LockInv
<1> SUFFICES ASSUME Init PROVE LockInv
  OBVIOUS
<1>1. WindowInv
  BY InitDataInv DEF DataInv
<1>2. \A t \in Listed : cursors[t] = 0 /\ all_data[t] = <<>>
  BY DEF Init
<1>3. bar_count = 0 /\ pc = "construct"
  BY DEF Init
<1>4. \A j \in 1..Len(Symbols) : Rounds(j) = 0
  BY <1>3 DEF Rounds
<1> QED
  BY <1>1, <1>2, <1>3, <1>4, SymbolsListed
     DEF LockInv, Lockstep, NoneLeft, DrainCounted, Smaller

-----------------------------------------------------------------------------
(* The equity curve.                                                        *)

\* The bars whose end has been reached.
Ended == IF pc = "drain" THEN bar_count - 1 ELSE bar_count

\* One snapshot per bar ended, at the time of that bar of the first symbol
\* or of its last one.
CurveMatches ==
  LET curve == portfolio.equity_curve
      rows  == all_data[First]
  IN  /\ IF rows = <<>> THEN curve = <<>> ELSE Len(curve) = Ended
      /\ \A i \in DOMAIN curve : curve[i].timestamp = rows[Smaller(i, Len(rows))].timestamp

LEMMA CurveMatchesStep ==
  ASSUME Distinct(Symbols)
  PROVE  LockInv /\ CurveMatches /\ [Next]_vars => CurveMatches'
<1> SUFFICES ASSUME LockInv, CurveMatches, [Next]_vars PROVE CurveMatches'
  OBVIOUS
<1> DEFINE curve == portfolio.equity_curve
           rows  == all_data[First]
<1>1. /\ WindowInv /\ curve \in Seq(Snapshots) /\ rows \in Seq(Row)
      /\ Len(curve) \in Nat /\ Len(rows) \in Nat /\ bar_count \in Nat
      /\ (rows = <<>> <=> Len(rows) = 0)
  BY FirstListed, LockTypes, EmptySeq DEF LockInv
<1>2. CASE Construct
  <2>1. /\ curve' = <<>> /\ bar_count' = 0 /\ pc' = "bars"
    BY <1>2 DEF Construct, account_vars, LockInv, WindowInv, NothingYet
  <2> QED
    BY <2>1 DEF CurveMatches, Ended
<1>3. CASE ~Construct /\ ~EndBar
  <2>1. curve' = curve
    BY <1>1, <1>3, CurveElsewhere DEF WindowInv
  <2>2. rows' = rows
    BY <1>1, <1>3, CursorsAdvance, FirstListed
  <2>3. Ended' = Ended
    <3>1. CASE StartDraining
      BY <1>1, <3>1 DEF StartDraining, Ended
    <3>2. CASE ~StartDraining
      <4>1. bar_count' = bar_count /\ (pc = "drain" <=> pc' = "drain")
        BY <1>3, <3>2 DEF Next, Step, ConstructThrows, AdvanceSymbol, SkipExhaustedSymbol,
           ProcessMarket, ProcessSignal, ProcessOrder, ProcessFillOrRisk, Finish,
           Terminated, AfterCallback, Draining, vars, loop_vars
      <4> QED
        BY <4>1 DEF Ended
    <3> QED
      BY <3>1, <3>2
  <2> QED
    BY <2>1, <2>2, <2>3 DEF CurveMatches
<1>4. CASE EndBar
  <2>1. /\ rows' = rows /\ bar_count' = bar_count /\ pc = "drain" /\ pc' # "drain"
        /\ bar_count > 0
    BY <1>4 DEF EndBar, data_vars, AfterCallback, LockInv, DrainCounted
  <2>2. cursors[First] = Smaller(bar_count, Len(rows))
    <3>1. Rounds(1) = bar_count
      BY <1>1, <2>1 DEF Rounds
    <3> QED
      BY <3>1, FirstListed DEF LockInv, Lockstep, First
  <2>3. CASE rows = <<>>
    <3>1. cursors[First] = 0
      BY <1>1, <2>1, <2>2, <2>3 DEF Smaller
    <3>2. curve' = curve
      BY <1>1, <1>4, <3>1, CurveAtEndOfBar
    <3> QED
      BY <2>1, <2>3, <3>2 DEF CurveMatches
  <2>4. CASE rows # <<>>
    <3>1. cursors[First] > 0
      BY <1>1, <2>1, <2>2, <2>4 DEF Smaller
    <3>2. PICK pt \in Snapshots : /\ pt.timestamp = LatestRow(First).timestamp
                                  /\ curve' = Append(curve, pt)
      BY <1>1, <1>4, <3>1, CurveAtEndOfBar
    <3>3. /\ Len(curve) = bar_count - 1 /\ Len(curve') = bar_count
          /\ Ended' = bar_count
      BY <1>1, <2>1, <2>4, <3>2 DEF CurveMatches, Ended
    <3>4. \A i \in DOMAIN curve' :
            \/ i \in DOMAIN curve /\ curve'[i] = curve[i]
            \/ i = bar_count /\ curve'[i] = pt
      BY <1>1, <3>2, <3>3
    <3>5. pt.timestamp = rows[Smaller(bar_count, Len(rows))].timestamp
      BY <2>2, <3>2 DEF LatestRow
    <3>6. \A i \in DOMAIN curve' : curve'[i].timestamp = rows[Smaller(i, Len(rows))].timestamp
      BY <3>4, <3>5 DEF CurveMatches
    <3> QED
      BY <2>1, <2>4, <3>3, <3>6 DEF CurveMatches
  <2> QED
    BY <2>3, <2>4
<1> QED
  BY <1>2, <1>3, <1>4

\* Snapshot i of the equity curve is stamped with bar i of the first symbol,
\* or with its last bar once it has run out, and while bars are advanced and
\* after the run there is exactly one for each bar counted
\* (Backtest.cpp:74-77): for every list that names each symbol once.
THEOREM OneSnapshotPerBar ==
  ASSUME Distinct(Symbols)
  PROVE  Spec => []EquityCurveFollowsReplay
<1>1. Init => LockInv /\ CurveMatches
  <2> SUFFICES ASSUME Init PROVE LockInv /\ CurveMatches
    OBVIOUS
  <2>1. portfolio.equity_curve = <<>> /\ all_data[First] = <<>>
    BY FirstListed DEF Init, NewPortfolio
  <2> QED
    BY <2>1, InitLock DEF CurveMatches
<1>2. LockInv /\ CurveMatches /\ [Next]_vars => LockInv' /\ CurveMatches'
  BY NextLock, CurveMatchesStep
<1>3. LockInv /\ CurveMatches => EquityCurveFollowsReplay
  BY DEF CurveMatches, EquityCurveFollowsReplay, Ended, Smaller, First
<1> QED
  BY <1>1, <1>2, <1>3, PTL DEF Spec

-----------------------------------------------------------------------------
(* The bars in the queue.                                                   *)

\* No two listed symbols have one name in events.
NamesDiffer == \A t, u \in Listed : CopySymbol[t] = CopySymbol[u] => t = u

\* The symbols of the queued bars.
QueuedNames == {event_queue[i].symbol : i \in {i \in DOMAIN event_queue :
                                                 event_queue[i].type = "MARKET"}}

\* The round whose bars may be queued.
Round == IF pc = "bars" THEN bar_count + 1 ELSE bar_count

\* Every queued bar was taken in this round.
QueuedThisRound ==
  \A i \in DOMAIN event_queue :
    event_queue[i].type = "MARKET" =>
      \E j \in 1..Len(Symbols) :
        /\ pc = "bars" => j < k
        /\ event_queue[i].symbol = CopySymbol[Symbols[j]]
        /\ cursors[Symbols[j]] = Round

\* A symbol has at most one bar in the queue.
QueuedOnce ==
  \A i, j \in DOMAIN event_queue :
    /\ event_queue[i].type = "MARKET" /\ event_queue[j].type = "MARKET"
    /\ event_queue[i].symbol = event_queue[j].symbol
    => i = j

RoundInv == LockInv /\ QueuedThisRound /\ QueuedOnce

\* Queued counts 1 for a symbol with a bar in the queue.
LEMMA QueuedCounts ==
  ASSUME RoundInv, NEW t
  PROVE  Queued(t) = IF CopySymbol[t] \in QueuedNames THEN 1 ELSE 0
<1> DEFINE at == {i \in DOMAIN event_queue : event_queue[i].type = "MARKET"
                                               /\ event_queue[i].symbol = CopySymbol[t]}
<1>1. CASE CopySymbol[t] \in QueuedNames
  <2>1. PICK i \in DOMAIN event_queue : event_queue[i].type = "MARKET"
                                          /\ event_queue[i].symbol = CopySymbol[t]
    BY <1>1 DEF QueuedNames
  <2>2. at = {i}
    BY <2>1 DEF RoundInv, QueuedOnce
  <2>3. Cardinality({i}) = 1
    BY FS_Singleton
  <2> QED
    BY <1>1, <2>2, <2>3 DEF Queued
<1>2. CASE CopySymbol[t] \notin QueuedNames
  <2>1. at = {}
    BY <1>2 DEF QueuedNames
  <2>2. Cardinality({}) = 0
    BY FS_EmptySet
  <2> QED
    BY <1>2, <2>1, <2>2 DEF Queued
<1> QED
  BY <1>1, <1>2

\* The cursor of a symbol with a bar in the queue has counted this round.
LEMMA QueuedCursor ==
  ASSUME NamesDiffer, RoundInv, NEW t \in Listed, CopySymbol[t] \in QueuedNames
  PROVE  cursors[t] = Round
<1>1. PICK i \in DOMAIN event_queue : event_queue[i].type = "MARKET"
                                        /\ event_queue[i].symbol = CopySymbol[t]
  BY DEF QueuedNames
<1>2. PICK j \in 1..Len(Symbols) : /\ event_queue[i].symbol = CopySymbol[Symbols[j]]
                                   /\ cursors[Symbols[j]] = Round
  BY <1>1 DEF RoundInv, QueuedThisRound
<1> QED
  BY <1>1, <1>2, SymbolsListed DEF NamesDiffer

\* A symbol that advances queues its bar; none of its bars is there yet.
LEMMA AdvanceQueues ==
  ASSUME Distinct(Symbols), NamesDiffer, RoundInv, AdvanceSymbol
  PROVE  /\ RoundInv'
         /\ \E t \in Listed :
              /\ CopySymbol[t] \notin QueuedNames
              /\ QueuedNames' = QueuedNames \cup {CopySymbol[t]}
              /\ cursors' = [cursors EXCEPT ![t] = cursors[t] + 1]
<1>1. /\ WindowInv /\ k \in 1..Len(Symbols) /\ k' = k + 1 /\ pc = "bars" /\ pc' = "bars"
      /\ bar_count' = bar_count /\ bar_count \in Nat /\ event_queue \in Seq(Events)
      /\ cursors \in [Listed -> Nat]
  BY LockTypes DEF AdvanceSymbol, RoundInv, LockInv
<1>2. PICK n \in 1..Len(Symbols) : n = k
  BY <1>1
<1>3. PICK t \in Listed : t = Symbols[n]
  BY SymbolsListed
<1>4. LockInv' /\ cursors[t] = bar_count
  BY <1>2, <1>3, AdvanceLock DEF RoundInv
<1>5. PICK e : e.type = "MARKET" /\ e.symbol = CopySymbol[t]
                 /\ event_queue' = Append(event_queue, e)
  BY <1>2, <1>3 DEF AdvanceSymbol, MarketEvent
<1>6. cursors' = [cursors EXCEPT ![t] = cursors[t] + 1]
  BY <1>2, <1>3 DEF AdvanceSymbol
<1>7. \A i \in DOMAIN event_queue' :
        \/ i \in DOMAIN event_queue /\ event_queue'[i] = event_queue[i]
        \/ i = Len(event_queue) + 1 /\ event_queue'[i] = e
  BY <1>1, <1>5
<1>8. /\ \A i \in DOMAIN event_queue : i \in DOMAIN event_queue'
                                         /\ event_queue'[i] = event_queue[i]
      /\ Len(event_queue) + 1 \in DOMAIN event_queue'
      /\ event_queue'[Len(event_queue) + 1] = e
  BY <1>1, <1>5
<1>9. CopySymbol[t] \notin QueuedNames
  BY <1>1, <1>4, QueuedCursor DEF Round
<1>10. QueuedNames' = QueuedNames \cup {CopySymbol[t]}
  BY <1>5, <1>7, <1>8 DEF QueuedNames
<1>11. QueuedThisRound'
  <2> SUFFICES ASSUME NEW i \in DOMAIN event_queue', event_queue'[i].type = "MARKET"
               PROVE  \E j \in 1..Len(Symbols) :
                        /\ j < k'
                        /\ event_queue'[i].symbol = CopySymbol[Symbols[j]]
                        /\ cursors'[Symbols[j]] = Round'
    BY DEF QueuedThisRound
  <2>1. CASE i \in DOMAIN event_queue /\ event_queue'[i] = event_queue[i]
    <3>1. PICK j \in 1..Len(Symbols) : /\ j < k
                                       /\ event_queue[i].symbol = CopySymbol[Symbols[j]]
                                       /\ cursors[Symbols[j]] = Round
      BY <1>1, <2>1 DEF RoundInv, QueuedThisRound
    <3>2. Symbols[j] \in Listed /\ Symbols[j] # t
      BY <1>2, <1>3, <3>1, SymbolsListed, BacktestAssumption DEF Distinct
    <3>3. cursors'[Symbols[j]] = cursors[Symbols[j]] /\ Round' = Round /\ j < k'
      BY <1>1, <1>6, <3>1, <3>2 DEF Round
    <3> QED
      BY <2>1, <3>1, <3>3
  <2>2. CASE event_queue'[i] = e
    <3>1. cursors'[t] = Round' /\ n < k'
      BY <1>1, <1>2, <1>4, <1>6 DEF Round
    <3> QED
      BY <1>3, <1>5, <2>2, <3>1
  <2> QED
    BY <1>7, <2>1, <2>2
<1>12. QueuedOnce'
  <2>1. \A i \in DOMAIN event_queue :
          event_queue[i].type = "MARKET" => event_queue[i].symbol # e.symbol
    BY <1>5, <1>9 DEF QueuedNames
  <2> SUFFICES ASSUME NEW i \in DOMAIN event_queue', NEW j \in DOMAIN event_queue',
                      event_queue'[i].type = "MARKET", event_queue'[j].type = "MARKET",
                      event_queue'[i].symbol = event_queue'[j].symbol
               PROVE  i = j
    BY DEF QueuedOnce
  <2> QED
    BY <1>7, <2>1 DEF RoundInv, QueuedOnce
<1> QED
  BY <1>3, <1>4, <1>6, <1>9, <1>10, <1>11, <1>12 DEF RoundInv

\* Handling an event takes its bar, if it is one, off the queue.
LEMMA HandlingDequeues ==
  ASSUME Distinct(Symbols), RoundInv,
         ProcessMarket \/ ProcessSignal \/ ProcessOrder \/ ProcessFillOrRisk
  PROVE  /\ RoundInv'
         /\ IF ProcessMarket
            THEN /\ Head(event_queue).symbol \in QueuedNames
                 /\ QueuedNames' = QueuedNames \ {Head(event_queue).symbol}
            ELSE QueuedNames' = QueuedNames
<1>1. LockInv' /\ IInv
  <2>1. [Next]_vars
    BY DEF Next, Step
  <2> QED
    BY <2>1, NextLock DEF RoundInv, LockInv, WindowInv
<1>2. /\ pc = "drain" /\ pc' = "drain" /\ UNCHANGED <<loop_vars, data_vars>>
      /\ \A i \in DOMAIN event_queue' : event_queue'[i].type = "MARKET" =>
           i + 1 \in DOMAIN event_queue /\ event_queue'[i] = event_queue[i + 1]
      /\ \A i \in DOMAIN event_queue : i # 1 =>
           \E j \in DOMAIN event_queue' : event_queue'[j] = event_queue[i]
  BY <1>1, QueueShifts
<1>3. /\ event_queue \in Seq(Events) /\ event_queue' \in Seq(Events)
      /\ 1 \in DOMAIN event_queue /\ Head(event_queue) = event_queue[1]
  <2>1. event_queue \in Seq(Events) /\ event_queue # <<>>
    BY <1>1, EventHandled DEF IInv, TypeOK
  <2>2. event_queue' \in Seq(Events)
    BY <1>1, LockTypes DEF LockInv, WindowInv, IInv, TypeOK
  <2> QED
    BY <2>1, <2>2
<1>4. QueuedThisRound'
  BY <1>2 DEF RoundInv, QueuedThisRound, Round, loop_vars, data_vars
<1>5. QueuedOnce'
  <2>1. \A i \in DOMAIN event_queue' : i \in Int
    BY <1>3
  <2> SUFFICES ASSUME NEW i \in DOMAIN event_queue', NEW j \in DOMAIN event_queue',
                      event_queue'[i].type = "MARKET", event_queue'[j].type = "MARKET",
                      event_queue'[i].symbol = event_queue'[j].symbol
               PROVE  i = j
    BY DEF QueuedOnce
  <2>2. i + 1 = j + 1
    BY <1>2 DEF RoundInv, QueuedOnce
  <2> QED
    BY <2>1, <2>2
<1>6. \A s : s \in QueuedNames' <=>
        \E i \in DOMAIN event_queue : /\ i # 1 /\ event_queue[i].type = "MARKET"
                                      /\ event_queue[i].symbol = s
  <2>1. \A i \in DOMAIN event_queue' : i + 1 # 1
    BY <1>3
  <2> QED
    BY <1>2, <2>1 DEF QueuedNames
<1>7. RoundInv'
  BY <1>1, <1>4, <1>5 DEF RoundInv
<1>8. CASE ProcessMarket
  <2>1. event_queue[1].type = "MARKET"
    BY <1>3, <1>8 DEF ProcessMarket, Draining
  <2>2. \A i \in DOMAIN event_queue :
          i # 1 /\ event_queue[i].type = "MARKET" => event_queue[i].symbol # event_queue[1].symbol
    BY <1>3, <2>1 DEF RoundInv, QueuedOnce
  <2>3. \A s : s \in QueuedNames' <=> s \in QueuedNames /\ s # event_queue[1].symbol
    BY <1>6, <2>2 DEF QueuedNames
  <2>4. event_queue[1].symbol \in QueuedNames
    BY <1>3, <2>1 DEF QueuedNames
  <2>5. QueuedNames' = QueuedNames \ {event_queue[1].symbol}
    BY <2>3
  <2> QED
    BY <1>3, <1>8, <1>7, <2>4, <2>5
<1>9. CASE ~ProcessMarket
  <2>1. event_queue[1].type # "MARKET"
    BY <1>3, <1>9 DEF ProcessSignal, ProcessOrder, ProcessFillOrRisk, Draining
  <2>2. \A s : s \in QueuedNames' <=> s \in QueuedNames
    BY <1>6, <2>1 DEF QueuedNames
  <2>3. QueuedNames' = QueuedNames
    BY <2>2
  <2> QED
    BY <1>9, <1>7, <2>3
<1> QED
  BY <1>8, <1>9

\* Every step keeps the bars in the queue those of the round under way.
LEMMA NextRound ==
  ASSUME Distinct(Symbols), NamesDiffer
  PROVE  RoundInv /\ [Next]_vars => RoundInv'
<1> SUFFICES ASSUME RoundInv, [Next]_vars PROVE RoundInv'
  OBVIOUS
<1>1. LockInv /\ LockInv' /\ WindowInv
  BY NextLock DEF RoundInv, LockInv
<1>2. CASE ProcessMarket \/ ProcessSignal \/ ProcessOrder \/ ProcessFillOrRisk
  BY <1>2, HandlingDequeues
<1>3. CASE AdvanceSymbol
  BY <1>3, AdvanceQueues
<1>4. CASE event_queue' = <<>>
  BY <1>1, <1>4 DEF RoundInv, QueuedThisRound, QueuedOnce
<1>5. CASE Construct \/ ConstructThrows \/ EndBar \/ Finish
  <2>1. event_queue' = <<>>
    BY <1>1, <1>5 DEF Construct, ConstructThrows, EndBar, Finish, LockInv, WindowInv,
                      NothingYet, NoneLeft
  <2> QED
    BY <1>4, <2>1
<1>6. ASSUME UNCHANGED <<event_queue, cursors>>, Round' = Round,
             \A j \in 1..Len(Symbols) : (pc = "bars" => j < k) => (pc' = "bars" => j < k')
      PROVE  RoundInv'
  BY <1>1, <1>6 DEF RoundInv, QueuedThisRound, QueuedOnce
<1>7. CASE SkipExhaustedSymbol \/ StartDraining
  <2>1. /\ UNCHANGED <<event_queue, cursors>> /\ pc = "bars"
        /\ \/ pc' = "bars" /\ bar_count' = bar_count /\ k' = k + 1
           \/ pc' = "drain" /\ bar_count' = bar_count + 1
    BY <1>7 DEF SkipExhaustedSymbol, StartDraining, data_vars
  <2>2. Round' = Round
    BY <2>1 DEF Round
  <2>3. \A j \in 1..Len(Symbols) : (pc = "bars" => j < k) => (pc' = "bars" => j < k')
    BY <1>1, <2>1, LockTypes
  <2> QED
    BY <1>6, <2>1, <2>2, <2>3
<1>8. CASE UNCHANGED vars
  <2>1. UNCHANGED <<event_queue, cursors, pc, k, bar_count>>
    BY <1>8 DEF vars, loop_vars, data_vars
  <2> QED
    BY <1>6, <2>1 DEF Round
<1> QED
  BY <1>2, <1>3, <1>5, <1>7, <1>8 DEF Next, Step, Terminated

-----------------------------------------------------------------------------
(* The engine implements BarReplay.                                         *)

\* The abstract variables.
Phase ==
  IF pc \in {"construct", "raised"} THEN "loading"
  ELSE IF pc = "done" THEN "finished" ELSE "replaying"

Total == [t \in Listed |-> Len(all_data[t])]

Delivered == [t \in Listed |-> cursors[t] - Queued(t)]

\* What has been delivered of each symbol.
DeliveredIs(t) == IF CopySymbol[t] \in QueuedNames THEN cursors[t] - 1 ELSE cursors[t]

DeliveredAsCounted ==
  \A t \in Listed :
    /\ Delivered[t] = DeliveredIs(t)
    /\ Total[t] = Len(all_data[t])
    /\ cursors[t] \in Nat /\ Len(all_data[t]) \in Nat /\ cursors[t] <= Len(all_data[t])

LEMMA DeliveredSoFar == RoundInv => DeliveredAsCounted
<1> SUFFICES ASSUME RoundInv, NEW t \in Listed
             PROVE  /\ Delivered[t] = DeliveredIs(t)
                    /\ Total[t] = Len(all_data[t])
                    /\ cursors[t] \in Nat /\ Len(all_data[t]) \in Nat
                    /\ cursors[t] <= Len(all_data[t])
  BY DEF DeliveredAsCounted
<1>1. cursors[t] \in Nat /\ Len(all_data[t]) \in Nat /\ cursors[t] <= Len(all_data[t])
  BY LockTypes DEF RoundInv, LockInv, WindowInv, WindowsBehindCursors, WindowBehindCursor
<1>2. Queued(t) = IF CopySymbol[t] \in QueuedNames THEN 1 ELSE 0
  BY QueuedCounts
<1> QED
  BY <1>1, <1>2 DEF Delivered, DeliveredIs, Total

\* The same of the next state.
LEMMA DeliveredThen == RoundInv' => DeliveredAsCounted'
BY DeliveredSoFar, PTL

\* A step that moves neither the files nor what is delivered is a stutter.
LEMMA RoundStutters ==
  ASSUME Phase' = Phase, all_data' = all_data, Delivered' = Delivered
  PROVE  UNCHANGED Replay!vars
BY DEF Phase, Delivered, Total, Replay!vars

\* A symbol that advances has one bar more taken and one more waiting.
LEMMA AdvanceStutters ==
  ASSUME Distinct(Symbols), NamesDiffer, RoundInv, AdvanceSymbol
  PROVE  UNCHANGED Replay!vars
<1>1. RoundInv' /\ all_data' = all_data /\ Phase' = Phase
  BY AdvanceQueues DEF AdvanceSymbol, Phase
<1>2. PICK t \in Listed : /\ CopySymbol[t] \notin QueuedNames
                          /\ QueuedNames' = QueuedNames \cup {CopySymbol[t]}
                          /\ cursors' = [cursors EXCEPT ![t] = cursors[t] + 1]
  BY AdvanceQueues
<1>3. cursors \in [Listed -> Nat]
  BY LockTypes DEF RoundInv, LockInv
<1>4. ASSUME NEW u \in Listed PROVE Delivered'[u] = Delivered[u]
  <2>1. Delivered[u] = DeliveredIs(u) /\ cursors[u] \in Nat
    BY DeliveredSoFar DEF DeliveredAsCounted
  <2>2. Delivered'[u] = DeliveredIs(u)'
    BY <1>1, DeliveredThen DEF DeliveredAsCounted
  <2>3. CASE u = t
    BY <1>2, <1>3, <2>1, <2>2, <2>3 DEF DeliveredIs
  <2>4. CASE u # t
    <3>1. CopySymbol[u] # CopySymbol[t]
      BY <2>4 DEF NamesDiffer
    <3>2. cursors'[u] = cursors[u]
      BY <1>2, <1>3, <2>4
    <3> QED
      BY <1>2, <2>1, <2>2, <3>1, <3>2 DEF DeliveredIs
  <2> QED
    BY <2>3, <2>4
<1>5. Delivered' = Delivered
  BY <1>4 DEF Delivered
<1> QED
  BY <1>1, <1>5, RoundStutters

\* The bar handed to the portfolio and the strategy is delivered: its symbol
\* had been given every bar of the earlier rounds and so has every other one.
LEMMA MarketDelivers ==
  ASSUME Distinct(Symbols), NamesDiffer, RoundInv, ProcessMarket
  PROVE  Replay!Next
<1>1. /\ RoundInv' /\ WindowInv /\ pc = "drain" /\ Phase = "replaying" /\ Phase' = "replaying"
      /\ all_data' = all_data /\ cursors' = cursors
      /\ bar_count \in Nat
  <2>1. RoundInv' /\ WindowInv
    BY HandlingDequeues DEF RoundInv, LockInv
  <2>2. pc = "drain" /\ pc' = "drain" /\ UNCHANGED <<loop_vars, data_vars>>
    BY <2>1, EventHandled DEF WindowInv
  <2> QED
    BY <2>1, <2>2, LockTypes DEF Phase, data_vars
<1>2. /\ Head(event_queue).symbol \in QueuedNames
      /\ QueuedNames' = QueuedNames \ {Head(event_queue).symbol}
  BY HandlingDequeues
<1>3. PICK t \in Listed : CopySymbol[t] = Head(event_queue).symbol
  BY <1>2, SymbolsListed DEF QueuedNames, RoundInv, QueuedThisRound
<1>4. cursors[t] = bar_count
  BY <1>1, <1>2, <1>3, QueuedCursor DEF Round
<1>5. ASSUME NEW u \in Listed
      PROVE  /\ Delivered[u] = DeliveredIs(u) /\ Delivered'[u] = DeliveredIs(u)'
             /\ Total[u] = Len(all_data[u]) /\ cursors[u] \in Nat /\ Len(all_data[u]) \in Nat
             /\ cursors[u] = Smaller(bar_count, Len(all_data[u]))
  <2>1. PICK j \in 1..Len(Symbols) : Symbols[j] = u
    BY SymbolsListed, BacktestAssumption DEF Listed, Range
  <2>2. Rounds(j) = bar_count
    BY <1>1 DEF Rounds
  <2>3. cursors[u] = Smaller(bar_count, Len(all_data[u]))
    BY <2>1, <2>2 DEF RoundInv, LockInv, Lockstep
  <2> QED
    BY <1>1, <2>3, DeliveredSoFar, DeliveredThen DEF DeliveredAsCounted
<1>6. /\ Delivered[t] = bar_count - 1 /\ Delivered'[t] = Delivered[t] + 1
      /\ Delivered[t] < Total[t]
  <2>1. Delivered[t] = cursors[t] - 1 /\ Delivered'[t] = cursors[t]
    BY <1>1, <1>2, <1>3, <1>5 DEF DeliveredIs
  <2> QED
    BY <1>1, <1>4, <1>5, <2>1 DEF Smaller
<1>7. ASSUME NEW u \in Listed, u # t PROVE Delivered'[u] = Delivered[u]
  <2>1. CopySymbol[u] # CopySymbol[t]
    BY <1>7 DEF NamesDiffer
  <2> QED
    BY <1>1, <1>2, <1>3, <1>5, <2>1 DEF DeliveredIs
<1>8. ASSUME NEW u \in Listed
      PROVE  Delivered[u] >= Delivered[t] \/ Delivered[u] = Total[u]
  <2>1. CASE CopySymbol[u] \in QueuedNames
    <3>1. cursors[u] = bar_count
      BY <1>1, <2>1, QueuedCursor DEF Round
    <3> QED
      BY <1>1, <1>5, <1>6, <2>1, <3>1 DEF DeliveredIs
  <2>2. CASE CopySymbol[u] \notin QueuedNames
    BY <1>1, <1>5, <1>6, <2>2 DEF DeliveredIs, Smaller
  <2> QED
    BY <2>1, <2>2
<1>9. Delivered' = [Delivered EXCEPT ![t] = Delivered[t] + 1]
  BY <1>6, <1>7 DEF Delivered
<1>10. Replay!Deliver(t)
  <2>1. Total' = Total
    BY <1>1 DEF Total
  <2> QED
    BY <1>1, <1>6, <1>8, <1>9, <2>1 DEF Replay!Deliver, Phase, Delivered, Total
<1> QED
  BY <1>10 DEF Replay!Next

\* The run finishes only when every bar has been delivered.
LEMMA FinishKeeps ==
  ASSUME RoundInv, Finish
  PROVE  [Replay!Next]_(Replay!vars)
<1>1. /\ WindowInv /\ pc = "bars" /\ k > Len(Symbols) /\ ~any_advanced
      /\ all_data' = all_data /\ cursors' = cursors /\ event_queue' = event_queue
      /\ event_queue = <<>> /\ pc' \in {"done", "failed"} /\ bar_count \in Nat
  BY LockTypes DEF Finish, data_vars, AfterCallback, RoundInv, LockInv, NoneLeft
<1>2. Delivered' = Delivered /\ Total' = Total
  BY <1>1 DEF Delivered, Queued, Total
<1>3. ASSUME NEW u \in Listed PROVE Delivered[u] = Total[u]
  <2>1. PICK j \in 1..Len(Symbols) : Symbols[j] = u
    BY SymbolsListed, BacktestAssumption DEF Listed, Range
  <2>2. Rounds(j) = bar_count + 1 /\ j < k
    BY <1>1, LockTypes DEF Rounds
  <2>3. Len(all_data[u]) <= bar_count
    BY <1>1, <2>1, <2>2 DEF RoundInv, LockInv, NoneLeft
  <2>4. cursors[u] = Smaller(bar_count + 1, Len(all_data[u]))
    BY <2>1, <2>2 DEF RoundInv, LockInv, Lockstep
  <2>5. CopySymbol[u] \notin QueuedNames
    BY <1>1 DEF QueuedNames
  <2>6. Delivered[u] = cursors[u] /\ Total[u] = Len(all_data[u]) /\ Len(all_data[u]) \in Nat
    BY <2>5, DeliveredSoFar DEF DeliveredAsCounted, DeliveredIs
  <2> QED
    BY <1>1, <2>3, <2>4, <2>6 DEF Smaller
<1>4. CASE pc' = "done"
  <2>1. Delivered = Total
    BY <1>3 DEF Delivered, Total
  <2>2. Phase = "replaying" /\ Phase' = "finished"
    BY <1>1, <1>4 DEF Phase
  <2>3. Replay!Finish
    BY <1>2, <2>1, <2>2 DEF Replay!Finish, Phase, Delivered, Total
  <2> QED
    BY <2>3 DEF Replay!Next
<1>5. CASE pc' = "failed"
  <2>1. Phase' = Phase
    BY <1>1, <1>5 DEF Phase
  <2> QED
    BY <1>1, <1>2, <2>1, RoundStutters
<1> QED
  BY <1>1, <1>4, <1>5

\* One case per action of the engine.
LEMMA ReplayStep ==
  ASSUME Distinct(Symbols), NamesDiffer
  PROVE  RoundInv /\ [Next]_vars => [Replay!Next]_(Replay!vars)
<1> SUFFICES ASSUME RoundInv, [Next]_vars PROVE [Replay!Next]_(Replay!vars)
  OBVIOUS
<1>1. WindowInv /\ IInv
  BY DEF RoundInv, LockInv, WindowInv
<1>2. CASE Construct
  <2>1. /\ Phase = "loading" /\ Phase' = "replaying"
        /\ cursors' = cursors /\ event_queue' = event_queue
    BY <1>2 DEF Construct, Phase
  <2>2. Delivered' = Delivered
    BY <2>1 DEF Delivered, Queued
  <2>3. \A t \in Listed : Len(all_data'[t]) \in Nat
    <3>1. all_data' \in [Listed -> Seq(Row)]
      BY <1>1, <1>2, ConstructIInv DEF IInv, TypeOK
    <3> QED
      BY <3>1
  <2>4. Total' \in [Listed -> Nat]
    BY <2>3 DEF Total
  <2>5. Replay!Load
    BY <2>1, <2>2, <2>4 DEF Replay!Load, Phase, Delivered, Total
  <2> QED
    BY <2>5 DEF Replay!Next
<1>3. CASE ProcessMarket
  BY <1>3, MarketDelivers
<1>4. CASE ProcessSignal \/ ProcessOrder \/ ProcessFillOrRisk
  <2>1. /\ pc = "drain" /\ pc' = "drain" /\ all_data' = all_data /\ cursors' = cursors
    BY <1>1, <1>4, EventHandled DEF data_vars
  <2>2. RoundInv' /\ QueuedNames' = QueuedNames
    <3>1. event_queue # <<>> /\ Head(event_queue).type # "MARKET"
      BY <1>4 DEF ProcessSignal, ProcessOrder, ProcessFillOrRisk, Draining
    <3>2. ~ProcessMarket
      BY <3>1 DEF ProcessMarket, Draining
    <3> QED
      BY <1>4, <3>2, HandlingDequeues
  <2>3. \A t \in Listed : Delivered'[t] = Delivered[t]
    BY <2>1, <2>2, DeliveredSoFar, DeliveredThen DEF DeliveredAsCounted, DeliveredIs
  <2>4. Delivered' = Delivered /\ Phase' = Phase
    BY <2>1, <2>3 DEF Delivered, Phase
  <2> QED
    BY <2>1, <2>4, RoundStutters
<1>5. CASE AdvanceSymbol
  BY <1>5, AdvanceStutters
<1>6. CASE ConstructThrows \/ SkipExhaustedSymbol \/ StartDraining \/ EndBar
  <2>1. UNCHANGED <<all_data, cursors, event_queue>> /\ Phase' = Phase
    BY <1>6 DEF ConstructThrows, SkipExhaustedSymbol, StartDraining, EndBar, AfterCallback,
                data_vars, Phase
  <2> QED
    BY <2>1, RoundStutters DEF Delivered, Queued
<1>7. CASE UNCHANGED vars
  <2>1. UNCHANGED <<all_data, cursors, event_queue, pc>>
    BY <1>7 DEF vars, data_vars, loop_vars
  <2> QED
    BY <2>1, RoundStutters DEF Delivered, Queued, Phase
<1> QED
  BY <1>2, <1>3, <1>4, <1>5, <1>6, <1>7, FinishKeeps DEF Next, Step, Terminated

\* The engine implements BarReplay: for every list that names each symbol
\* once, and gives no two symbols one name in events, every bar of every file
\* is handed to the portfolio and the strategy once, in order and in
\* lockstep, and a run that completes has delivered them all
\* (Backtest.cpp:33-90, DataHandler.cpp:9-30).
THEOREM EveryBarReplayed ==
  ASSUME Distinct(Symbols), NamesDiffer
  PROVE  Spec => ReplaysEveryBar
<1>1. Init => RoundInv /\ Replay!Init
  <2> SUFFICES ASSUME Init PROVE RoundInv /\ Replay!Init
    OBVIOUS
  <2>1. event_queue = <<>> /\ pc = "construct"
        /\ all_data = [t \in Listed |-> <<>>] /\ cursors = [t \in Listed |-> 0]
    BY DEF Init
  <2>2. RoundInv
    BY <2>1, InitLock DEF RoundInv, QueuedThisRound, QueuedOnce
  <2>3. \A t \in Listed : Delivered[t] = 0 /\ Total[t] = 0
    BY <2>1, <2>2, DeliveredSoFar DEF DeliveredAsCounted, DeliveredIs, QueuedNames
  <2>4. Delivered = [t \in Listed |-> 0] /\ Total = [t \in Listed |-> 0]
    BY <2>3 DEF Delivered, Total
  <2> QED
    BY <2>1, <2>2, <2>4 DEF Replay!Init, Delivered, Total
<1>2. RoundInv /\ [Next]_vars => RoundInv' /\ [Replay!Next]_(Replay!vars)
  BY NextRound, ReplayStep
<1> QED
  BY <1>1, <1>2, PTL DEF Spec, ReplaysEveryBar, Replay!Spec
=============================================================================
