------------------------------- MODULE Backtest -------------------------------
(***************************************************************************)
(* One run of the event-driven engine: the constructor and the event loop   *)
(* of cpp-engine/src/Backtest.cpp, with the CSV replay of                   *)
(* cpp-engine/src/DataHandler.cpp, the strategy's memory, and the portfolio *)
(* and risk manager of module Portfolio.                                    *)
(*                                                                         *)
(* The engine is one thread.  A step is one iteration of the for loop of    *)
(* update_bars, one event taken off the queue and handled, or the tail of   *)
(* one iteration of the outer loop.                                         *)
(***************************************************************************)
EXTENDS Portfolio, RollingWindow

CONSTANTS
  Tickers,            \* the symbols a data directory can hold a file for
  Symbols,            \* cfg.symbols: a sequence of tickers, repeats allowed
  CopySymbol,         \* the name a ticker has once copied into a char[16]
  Prices,             \* the closes that occur in the files
  Disks,              \* the contents the data directory may have
  ProgressEvery,      \* bars between progress callbacks (100)
  ProgressWrap,       \* modulus of the progress estimate (10000)
  CallbackMayThrow,   \* whether the progress callback can raise
  Decide(_, _, _)     \* the strategy: window closes, bar's close, position

Listed == Range(Symbols)

\* What the lines of a file can be to load_csv.
Line == [kind : {"row", "undated", "short", "not_a_number"}, timestamp : Int,
         close : Prices]

Row == [timestamp : Int, close : Prices]

Direction == {"LONG", "FLAT", "SHORT"}

Belief == {-1, 0, 1}

ASSUME BacktestAssumption ==
  /\ Symbols \in Seq(Tickers) /\ Symbols # <<>>
  /\ Prices \subseteq Int
  /\ Disks \subseteq [Tickers -> [exists : BOOLEAN, lines : Seq(Line)]]
  /\ ProgressEvery \in Nat \ {0} /\ ProgressWrap \in Nat \ {0}
  /\ CallbackMayThrow \in BOOLEAN

\* Copying is idempotent: a name is short enough to be copied unchanged.
ASSUME CopyAssumption ==
  /\ DOMAIN CopySymbol = Tickers
  /\ \A t \in Tickers :
       CopySymbol[t] \in Tickers => CopySymbol[CopySymbol[t]] = CopySymbol[t]

\* Whatever the window, the strategy's answer is a decision.
ASSUME DecideAssumption ==
  \A len \in 0..WindowSize : \A closes \in [1..len -> Prices] :
    \A close \in Prices, pos \in Belief :
      Decide(closes, close, pos) \in
        [emit : BOOLEAN, direction : Direction, strength : Fraction, pos : Belief]

VARIABLES
  disk,               \* what the data directory holds during the run
  pc,                 \* where the engine is
  all_data,           \* CsvDataHandler::all_data_
  cursors,            \* CsvDataHandler::cursors_
  bar_window,         \* CsvDataHandler::bar_window_
  k,                  \* next index of symbols_ in the loop of update_bars
  any_advanced,       \* update_bars: whether some symbol had a bar left
  event_queue,        \* Backtest::event_queue_
  belief,             \* the strategy's prev_position_ / position_
  portfolio,          \* Backtest::portfolio_
  day_start,          \* RiskManager::day_start_equity_
  bar_count,          \* run(): bars processed
  progress            \* the last percentage given to the callback

data_vars == <<all_data, cursors, bar_window>>
loop_vars == <<pc, k, any_advanced, bar_count, progress>>
account_vars == <<belief, portfolio, day_start>>
vars == <<disk, loop_vars, data_vars, account_vars, event_queue>>

-----------------------------------------------------------------------------
(* CsvDataHandler.                                                          *)

\* std::stod throws on a field that is not a number; a line of fewer than
\* six fields is skipped before any field is converted.
Readable(file) ==
  file.exists /\ \A i \in DOMAIN file.lines : file.lines[i].kind # "not_a_number"

\* Mutant: the comparison of the sort the wrong way round.
Descending(rows) ==
  \A i, j \in DOMAIN rows : i < j => rows[i].timestamp >= rows[j].timestamp

Ascending(rows) ==
  \A i, j \in DOMAIN rows : i < j => rows[i].timestamp <= rows[j].timestamp

\* parse_timestamp does not throw on a field that is no date: mktime makes
\* of it a time in 1899, before any other.
NoDate == -1

TimeOf(line) == IF line.kind = "undated" THEN NoDate ELSE line.timestamp

\* What load_csv may store for a readable file: its well-formed rows in
\* ascending order.  std::sort is not stable, so rows with one timestamp
\* may come out in any order.
Loads(file) ==
  LET kept == {i \in DOMAIN file.lines : file.lines[i].kind \in {"row", "undated"}}
      size == Cardinality(kept)
      rows(order) ==
        [i \in 1..size |-> [timestamp |-> TimeOf(file.lines[order[i]]),
                            close     |-> file.lines[order[i]].close]]
  IN  {r \in {rows(order) : order \in Bijection(1..size, kept)} : Ascending(r)}

\* Mutant: the window of whichever listed symbol is cut to that name.
WindowOfTruncated(name) ==
  bar_window[CHOOSE t \in Listed : CopySymbol[t] = name \/ t = name]

\* The window a strategy reads is looked up by the name in the event, and
\* is empty when no listed symbol has exactly that name.
WindowOf(name) == IF name \in Listed THEN bar_window[name] ELSE <<>>

MarketEvent(t, row) ==
  [type |-> "MARKET", symbol |-> CopySymbol[t],
   timestamp |-> row.timestamp, close |-> row.close]

-----------------------------------------------------------------------------
Init ==
  /\ disk \in Disks
  /\ pc = "construct"
  /\ all_data = [t \in Listed |-> <<>>]
  /\ cursors = [t \in Listed |-> 0]
  /\ bar_window = [t \in Listed |-> <<>>]
  /\ k = 1
  /\ any_advanced = FALSE
  /\ event_queue = <<>>
  /\ belief = [name \in Range(CopySymbol) |-> 0]
  /\ portfolio = NewPortfolio
  /\ day_start = 0
  /\ bar_count = 0
  /\ progress = 0

\* The constructor loads every listed file; on_start then does nothing.
Construct ==
  /\ pc = "construct"
  /\ \A t \in Listed : Readable(disk[t])
  /\ all_data' \in [Listed -> UNION {Loads(disk[t]) : t \in Listed}]
  /\ \A t \in Listed : all_data'[t] \in Loads(disk[t])
  /\ pc' = "bars"
  /\ UNCHANGED <<disk, cursors, bar_window, k, any_advanced, bar_count, progress,
                 account_vars, event_queue>>

\* A missing file or a bad number throws out of the constructor, which is
\* outside the try block of run().
ConstructThrows ==
  /\ pc = "construct"
  /\ \E t \in Listed : ~Readable(disk[t])
  /\ pc' = "raised"
  /\ UNCHANGED <<disk, k, any_advanced, bar_count, progress, data_vars, account_vars,
                 event_queue>>

-----------------------------------------------------------------------------
(* update_bars, one symbol at a time.                                       *)

AdvanceSymbol ==
  /\ pc = "bars" /\ k <= Len(Symbols)
  /\ LET t   == Symbols[k]
         row == all_data[t][cursors[t] + 1]
     IN  /\ cursors[t] < Len(all_data[t])
         /\ cursors' = [cursors EXCEPT ![t] = @ + 1]
         /\ bar_window' = [bar_window EXCEPT ![t] = Slide(@, row)]
         /\ event_queue' = Append(event_queue, MarketEvent(t, row))
  /\ any_advanced' = TRUE
  /\ k' = k + 1
  /\ UNCHANGED <<disk, pc, all_data, bar_count, progress, account_vars>>

\* Mutant: an exhausted symbol ends the replay of the others.
SkipEndsReplay ==
  /\ pc = "bars" /\ k <= Len(Symbols)
  /\ cursors[Symbols[k]] >= Len(all_data[Symbols[k]])
  /\ k' = k + 1
  /\ any_advanced' = FALSE
  /\ UNCHANGED <<disk, pc, bar_count, progress, data_vars, account_vars, event_queue>>

SkipExhaustedSymbol ==
  /\ pc = "bars" /\ k <= Len(Symbols)
  /\ cursors[Symbols[k]] >= Len(all_data[Symbols[k]])
  /\ k' = k + 1
  /\ UNCHANGED <<disk, pc, any_advanced, bar_count, progress, data_vars, account_vars,
                 event_queue>>

StartDraining ==
  /\ pc = "bars" /\ k > Len(Symbols) /\ any_advanced
  /\ pc' = "drain"
  /\ bar_count' = bar_count + 1
  /\ UNCHANGED <<disk, k, any_advanced, progress, data_vars, account_vars, event_queue>>

-----------------------------------------------------------------------------
(* The inner loop: take the event at the head and dispatch it.              *)

Draining(type) ==
  pc = "drain" /\ event_queue # <<>> /\ Head(event_queue).type = type

\* The portfolio marks the price first, then the strategy reads its window.
ProcessMarket ==
  /\ Draining("MARKET")
  /\ LET e      == Head(event_queue)
         bars   == WindowOf(e.symbol)
         answer == Decide([i \in DOMAIN bars |-> bars[i].close], e.close,
                          belief[e.symbol])
         signal == [type |-> "SIGNAL", symbol |-> e.symbol,
                    direction |-> answer.direction,
                    strength |-> answer.strength, timestamp |-> e.timestamp]
     IN  /\ portfolio' = OnMarket(portfolio, e)
         /\ belief' = [belief EXCEPT ![e.symbol] = answer.pos]
         /\ event_queue' = Tail(event_queue)
                             \o (IF answer.emit THEN <<signal>> ELSE <<>>)
  /\ UNCHANGED <<disk, loop_vars, data_vars, day_start>>

ProcessSignal ==
  /\ Draining("SIGNAL")
  /\ event_queue' = Tail(event_queue) \o OnSignal(portfolio, Head(event_queue))
  /\ UNCHANGED <<disk, loop_vars, data_vars, account_vars>>

\* Only the risk manager sees an order; an approved one is queued again.
ProcessOrder ==
  /\ Draining("ORDER")
  /\ event_queue' = Tail(event_queue)
                      \o Evaluate(Head(event_queue), portfolio, day_start)
  /\ day_start' = DayStart(day_start, portfolio)
  /\ UNCHANGED <<disk, loop_vars, data_vars, belief, portfolio>>

\* A fill is booked; a risk veto is only logged.
ProcessFillOrRisk ==
  /\ Draining("FILL") \/ Draining("RISK")
  /\ portfolio' = IF Head(event_queue).type = "FILL"
                  THEN OnFill(portfolio, Head(event_queue)) ELSE portfolio
  /\ event_queue' = Tail(event_queue)
  /\ UNCHANGED <<disk, loop_vars, data_vars, belief, day_start>>

-----------------------------------------------------------------------------
(* The tail of the outer loop, and its end.                                 *)

\* Mutant: the snapshot is stamped with the oldest bar of the window.
SnapshotOldest ==
  LET bars == WindowOf(Symbols[1])
  IN  IF bars = <<>> THEN portfolio ELSE RecordEquity(portfolio, bars[1].timestamp)

\* The snapshot is stamped with the latest bar of the first symbol, and
\* skipped while that symbol has none.
Snapshot ==
  LET bars == WindowOf(Symbols[1])
  IN  IF bars = <<>> THEN portfolio
      ELSE RecordEquity(portfolio, bars[Len(bars)].timestamp)

\* (bar_count % 10000) / 100
EstimatedProgress == (bar_count % ProgressWrap) \div ProgressEvery

FullProgress == ProgressWrap \div ProgressEvery

\* std::exceptions of the callback end in the catch block of run().
AfterCallback(next) == {next} \cup (IF CallbackMayThrow THEN {"failed"} ELSE {})

EndBar ==
  /\ pc = "drain" /\ event_queue = <<>>
  /\ portfolio' = Snapshot
  /\ IF bar_count % ProgressEvery = 0
     THEN progress' = EstimatedProgress /\ pc' \in AfterCallback("bars")
     ELSE progress' = progress /\ pc' = "bars"
  /\ k' = 1
  /\ any_advanced' = FALSE
  /\ UNCHANGED <<disk, bar_count, data_vars, belief, day_start, event_queue>>

Finish ==
  /\ pc = "bars" /\ k > Len(Symbols) /\ ~any_advanced
  /\ progress' = FullProgress
  /\ pc' \in AfterCallback("done")
  /\ UNCHANGED <<disk, k, any_advanced, bar_count, data_vars, account_vars, event_queue>>

Returned == pc \in {"done", "failed", "raised"}

Terminated == Returned /\ UNCHANGED vars

Step ==
  \/ Construct
  \/ ConstructThrows
  \/ AdvanceSymbol
  \/ SkipExhaustedSymbol
  \/ StartDraining
  \/ ProcessMarket
  \/ ProcessSignal
  \/ ProcessOrder
  \/ ProcessFillOrRisk
  \/ EndBar
  \/ Finish

Next == Step \/ Terminated

Spec == Init /\ [][Next]_vars

\* The engine runs on a thread of its own until run() returns.
FairSpec == Spec /\ WF_vars(Step)

-----------------------------------------------------------------------------
(* Properties.                                                              *)

Names == Range(CopySymbol)

Side == {"BUY", "SELL"}

MarketEvents == [type : {"MARKET"}, symbol : Names, timestamp : Int, close : Prices]
SignalEvents == [type : {"SIGNAL"}, symbol : Names, direction : Direction,
                 strength : Fraction, timestamp : Int]
OrderEvents == [type : {"ORDER"}, symbol : Names, side : Side, quantity : Nat,
                timestamp : Int]
RiskEvents == [type : {"RISK"}, symbol : Names, requested_qty : Nat]
Events == MarketEvents \cup SignalEvents \cup OrderEvents \cup RiskEvents

FillEvents == [type : {"FILL"}, symbol : Names, side : Side, quantity : Nat,
               fill_price : Int, commission : Int, timestamp : Int]
Holdings == [quantity : Int, avg_price : Fraction, unrealized_pnl : Fraction,
             realized_pnl : Fraction, commission : Int]
Snapshots == [timestamp : Int, equity : Int, cash : Int]

\* A map from some of the keys to values.
IsMap(f, keys, values) == \E s \in SUBSET keys : f \in [s -> values]

IsPortfolio(p) ==
  /\ p = [cash |-> p.cash, positions |-> p.positions, last_price |-> p.last_price,
          equity_curve |-> p.equity_curve, fill_history |-> p.fill_history]
  /\ p.cash \in Int
  /\ IsMap(p.positions, Names, Holdings)
  /\ IsMap(p.last_price, Names, Prices)
  /\ p.equity_curve \in Seq(Snapshots)
  /\ p.fill_history \in Seq(FillEvents)

\* Every variable has its type, no window outgrows its size (DataHandler.h:74).
\* There is no FILL among the events that can
\* be queued: nothing in the engine pushes one.
TypeOK ==
  /\ disk \in Disks
  /\ pc \in {"construct", "bars", "drain", "done", "failed", "raised"}
  /\ all_data \in [Listed -> Seq(Row)]
  /\ cursors \in [Listed -> Nat]
  /\ bar_window \in [Listed -> Seq(Row)]
  /\ \A t \in Listed : Len(bar_window[t]) <= WindowSize
  /\ k \in 1..(Len(Symbols) + 1)
  /\ any_advanced \in BOOLEAN
  /\ event_queue \in Seq(Events)
  /\ belief \in [Names -> Belief]
  /\ IsPortfolio(portfolio)
  /\ day_start \in Int
  /\ bar_count \in Nat
  /\ progress \in Nat

Distinct(s) == \A i, j \in DOMAIN s : i # j => s[i] # s[j]

\* No listed symbol's event name is the name of another listed symbol.
NoAlias == \A t \in Listed : CopySymbol[t] \in Listed => CopySymbol[t] = t

\* When a bar reaches the strategy, the window it reads ends with that very
\* bar and holds nothing later: the strategy cannot see the future
\* (DataHandler.cpp:16-17), however many symbols were advanced before the
\* queue was drained.
NoLookAhead ==
  Draining("MARKET") =>
    LET e == Head(event_queue)
        bars == WindowOf(e.symbol)
    IN  bars # <<>> =>
          /\ bars[Len(bars)] = [timestamp |-> e.timestamp, close |-> e.close]
          /\ \A i \in DOMAIN bars : bars[i].timestamp <= e.timestamp

\* Snapshot i of the equity curve is stamped with bar i of the first symbol,
\* or with its last bar once it has run out: one snapshot per bar, none
\* missing, none early (Backtest.cpp:74-77).
EquityCurveFollowsReplay ==
  LET curve == portfolio.equity_curve
      rows  == all_data[Symbols[1]]
  IN  /\ rows # <<>> /\ pc \in {"bars", "done"} => Len(curve) = bar_count
      /\ \A i \in DOMAIN curve :
           curve[i].timestamp = rows[IF i <= Len(rows) THEN i ELSE Len(rows)].timestamp

\* The equity curve never goes back in time, whatever the symbols listed.
EquityTimestampsOrdered ==
  \A i, j \in DOMAIN portfolio.equity_curve :
    i <= j => portfolio.equity_curve[i].timestamp <= portfolio.equity_curve[j].timestamp

\* The queue never holds more events than there are listed symbols: every
\* event handled leaves at most one behind (Backtest.cpp:49-72).
QueueBounded == Len(event_queue) <= Len(Symbols)

\* No run ever trades: no position, no fill, and the cash it started with,
\* because an ORDER never reaches the execution (Backtest.cpp:117-120).
NeverTrades ==
  /\ portfolio.positions = EmptyMap
  /\ portfolio.fill_history = <<>>
  /\ portfolio.cash = InitialCapital

\* A symbol whose name does not survive the copy into a char[16] never moves
\* the strategy: its bars are looked up under a name no window has
\* (Strategy.cpp:36-38, DataHandler.cpp:24-28).
LongNamesNeverSignal ==
  \A t \in Listed : CopySymbol[t] \notin Listed => belief[CopySymbol[t]] = 0

HasOrder == \E i \in DOMAIN event_queue : event_queue[i].type = "ORDER"

\* With the loss limit and the position limit of a usable configuration, an
\* order once queued is queued for ever (Portfolio.cpp:235-239).
OrderNeverLeaves == [][HasOrder => HasOrder']_vars

\* A run either returns or comes to hold an order.
ReturnsUnlessOrdering == <>(Returned \/ HasOrder)

\* Every run returns.
EveryRunReturns == <>Returned

\* The bars still queued for a symbol are advanced but not yet delivered.
Queued(t) ==
  Cardinality({i \in DOMAIN event_queue :
                 event_queue[i].type = "MARKET" /\ event_queue[i].symbol = CopySymbol[t]})

\* The engine replays the data as BarReplay promises: each bar once, in
\* order, all symbols in lockstep, and never finishes early.
Replay == INSTANCE BarReplay WITH
  phase     <- IF pc \in {"construct", "raised"} THEN "loading"
               ELSE IF pc = "done" THEN "finished" ELSE "replaying",
  total     <- [t \in Listed |-> Len(all_data[t])],
  delivered <- [t \in Listed |-> cursors[t] - Queued(t)]

ReplaysEveryBar == Replay!Spec

-----------------------------------------------------------------------------
(* A claim of the repository that the code does not keep.                   *)

\* cpp-engine/tests/test_backtest_integration.cpp:70-73: a run completes.
RunCompletes == <>(pc = "done")
=============================================================================
