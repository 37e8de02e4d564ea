------------------------------- MODULE Trading -------------------------------
(***************************************************************************)
(* The trading components of the engine used together: a portfolio, its     *)
(* risk manager and the simulated execution.                               *)
(*                                                                         *)
(* The event loop stops short of the execution (module Backtest), so this   *)
(* is a harness: the loop as Backtest.h:15-25 describes it, which hands an  *)
(* order that evaluate has approved to execute_order.  One queue is drained *)
(* in its order after every bar, so that all orders of a bar are evaluated  *)
(* before one of them is filled.  The strategy is any: each symbol may send *)
(* one signal a bar, and the list of symbols may have any order.  Every     *)
(* symbol has a bar each time, and timestamps are the numbers of the bars.  *)
(***************************************************************************)
EXTENDS Metrics

CONSTANTS
  Symbols,          \* the symbols traded
  Prices,           \* opens and closes that occur
  Strengths,        \* strengths of signals
  MaxFills,         \* bound: fills booked
  MaxBars           \* bound: bars replayed

ASSUME TradingAssumption ==
  /\ IsFiniteSet(Symbols)
  /\ Prices \subseteq Nat \ {0}
  /\ Strengths \subseteq Fraction
  /\ MaxFills \in Nat /\ MaxBars \in Nat

VARIABLES
  portfolio,        \* the Portfolio
  day_start,        \* RiskManager::day_start_equity_
  queue,            \* Backtest::event_queue_
  bar_open          \* whether a bar has been marked and not yet recorded

vars == <<portfolio, day_start, queue, bar_open>>

Init ==
  /\ portfolio = NewPortfolio
  /\ day_start = 0
  /\ queue = <<>>
  /\ bar_open = FALSE

\* The timestamp of the next bar, or of the one being processed.
Now == Len(portfolio.equity_curve) + 1

Signals ==
  [type : {"SIGNAL"}, symbol : Symbols, direction : {"LONG", "SHORT", "FLAT"},
   strength : Strengths, timestamp : {Now}]

\* What the strategy may push while the symbols are marked in turn.
Announcements ==
  {q \in UNION {[1..n -> Signals] : n \in 0..Cardinality(Symbols)} :
     \A i, j \in DOMAIN q : q[i].symbol = q[j].symbol => i = j}

\* The MARKET events of a bar are the first in the queue: all are handled
\* before the signals they cause.
Bar ==
  /\ ~bar_open /\ Len(portfolio.equity_curve) < MaxBars
  /\ \E closes \in [Symbols -> Prices] :
       portfolio' = FoldSet(LAMBDA s, p : OnMarket(p, [symbol |-> s, close |-> closes[s]]),
                            portfolio, Symbols)
  /\ \E signals \in Announcements :
       /\ Len(portfolio.fill_history) + Len(signals) <= MaxFills
       /\ queue' = signals
  /\ bar_open' = TRUE
  /\ UNCHANGED day_start

Holds(type) == queue # <<>> /\ Head(queue).type = type

ProcessSignal ==
  /\ Holds("SIGNAL")
  /\ queue' = Tail(queue) \o OnSignal(portfolio, Head(queue))
  /\ UNCHANGED <<portfolio, day_start, bar_open>>

\* The order that evaluate pushes again is told by its type from one that it
\* has not seen.
Approve(events) ==
  [i \in DOMAIN events |->
     IF events[i].type = "ORDER" THEN [events[i] EXCEPT !.type = "APPROVED"]
                                 ELSE events[i]]

ProcessOrder ==
  /\ Holds("ORDER")
  /\ queue' = Tail(queue) \o Approve(Evaluate(Head(queue), portfolio, day_start))
  /\ day_start' = DayStart(day_start, portfolio)
  /\ UNCHANGED <<portfolio, bar_open>>

Execute(open) ==
  /\ Holds("APPROVED")
  /\ queue' = Append(Tail(queue),
                     ExecuteOrder(Head(queue), [open |-> open, timestamp |-> Now]))
  /\ UNCHANGED <<portfolio, day_start, bar_open>>

BookFill ==
  /\ Holds("FILL")
  /\ portfolio' = OnFill(portfolio, Head(queue))
  /\ queue' = Tail(queue)
  /\ UNCHANGED <<day_start, bar_open>>

DropVeto ==
  /\ Holds("RISK")
  /\ queue' = Tail(queue)
  /\ UNCHANGED <<portfolio, day_start, bar_open>>

Record ==
  /\ bar_open /\ queue = <<>>
  /\ portfolio' = RecordEquity(portfolio, Now)
  /\ bar_open' = FALSE
  /\ UNCHANGED <<day_start, queue>>

Next ==
  \/ Bar
  \/ ProcessSignal
  \/ ProcessOrder
  \/ \E open \in Prices : Execute(open)
  \/ BookFill
  \/ DropVeto
  \/ Record

Spec == Init /\ [][Next]_vars

-----------------------------------------------------------------------------
(* Properties.                                                              *)

Held == DOMAIN portfolio.positions

Realized == Sum(LAMBDA s : portfolio.positions[s].realized_pnl, Held)

Commission == MapThenSumSet(LAMBDA s : portfolio.positions[s].commission, Held)

\* What the positions cost: quantity * avg_price of each.
BookValue ==
  Sum(LAMBDA s : Times([n |-> portfolio.positions[s].quantity, d |-> 1],
                       portfolio.positions[s].avg_price), Held)

\* The capital, plus what trading realized, less what it cost.
Proceeds == Plus([n |-> InitialCapital - Commission, d |-> 1], Realized)

\* The quantity of s that the first n fills leave.
Net(s, n) ==
  MapThenSumSet(LAMBDA i : LET f == portfolio.fill_history[i]
                           IN  IF f.symbol # s THEN 0
                               ELSE IF f.side = "BUY" THEN f.quantity ELSE -f.quantity,
                1..n)

NeverShort == \A n \in DOMAIN portfolio.fill_history, s \in Symbols : Net(s, n) >= 0

AllFlat == \A s \in Held : portfolio.positions[s].quantity = 0

\* The books of a portfolio that was never short balance: cash and the cost
\* of what is held add up to the capital, the realized profit and the
\* commissions, through any number of averaged purchases and partial sales
\* (Portfolio.cpp:83-107).
BooksBalance ==
  NeverShort => Plus([n |-> portfolio.cash, d |-> 1], BookValue) = Proceeds

\* Every order that waits, evaluated or not, either closes what is held of
\* its symbol or costs, at the last price, at most a twentieth of what the
\* portfolio is worth by then, gains and losses included; the orders handled
\* since it was made have not changed what it rests on (Portfolio.cpp:45-78).
OrdersSized ==
  \A i \in DOMAIN queue :
    queue[i].type \in {"ORDER", "APPROVED"} =>
      LET order  == queue[i]
          held   == PositionOf(portfolio, order.symbol).quantity
          closes == /\ order.quantity = MagnitudeOf(held)
                    /\ order.side = IF held > 0 THEN "SELL" ELSE "BUY"
      IN  closes \/ 20 * order.quantity * portfolio.last_price[order.symbol]
                      <= Equity(portfolio)

\* Nothing is bought in a bar that began with as many positions open, long or
\* short, as the limit allows.  The orders of a bar are counted against the
\* same positions, so a bar that began with room may end above the limit,
\* but then nothing is bought until there is room again
\* (Portfolio.cpp:223-228).  Fill j is the first of the bar of fill i.
PurchasesFoundRoom ==
  LET fills == portfolio.fill_history
  IN  \A i \in DOMAIN fills : \A j \in 1..i :
        /\ fills[i].side = "BUY"
        /\ fills[j].timestamp = fills[i].timestamp
        /\ j > 1 => fills[j - 1].timestamp < fills[i].timestamp
        => Cardinality({s \in Symbols : Net(s, j - 1) # 0}) < MaxPositions

\* The drawdown reported is the deepest fall from any point of the curve to a
\* later one (Portfolio.cpp:159-166).
DrawdownIsWorstFall ==
  LET curve == portfolio.equity_curve
      falls == UNION {{Rat(curve[i].equity - curve[j].equity, curve[i].equity) :
                         i \in 1..j} : j \in DOMAIN curve}
      worst == ComputeMetrics(portfolio).max_drawdown
  IN  Len(curve) >= 2 => worst \in falls /\ \A fall \in falls : ~Less(worst, fall)

\* Where an open is not many times the last price, a portfolio that was never
\* short cannot lose more than it has, since no purchase takes more than its
\* share; so its figures are numbers, which the page can parse
\* (Portfolio.cpp:133-144).
FiguresAreNumbers ==
  LET curve == portfolio.equity_curve
  IN  NeverShort /\ Len(curve) >= 2 => MayBeNaN(curve) = {}

\* The trade statistics explain the return: when a portfolio that was never
\* short is flat at its last snapshot and was untouched at its first, what
\* winners won less what losers lost and the commissions is the total return
\* (Portfolio.cpp:119-122, 172-191).
StatsExplainReturn ==
  LET curve == portfolio.equity_curve
      m     == ComputeMetrics(portfolio)
      won   == Times(m.avg_win, [n |-> m.winning_trades, d |-> 1])
      lost  == Times(m.avg_loss, [n |-> -m.losing_trades, d |-> 1])
  IN  /\ NeverShort /\ AllFlat /\ Len(curve) >= 2
      /\ curve[1].equity = InitialCapital /\ curve[Len(curve)].cash = portfolio.cash
      /\ curve[Len(curve)].equity = portfolio.cash
      => Times(m.total_return, [n |-> InitialCapital, d |-> 1])
           = Plus(Plus(won, lost), [n |-> -Commission, d |-> 1])

-----------------------------------------------------------------------------
(* Claims of the repository that the code does not keep.                    *)

\* cpp-engine/tests/test_portfolio.cpp:11: "P&L is realized correctly on
\* round-trip trades": once everything is closed, the cash is the capital
\* with the realized profit and the commissions.  Short selling is allowed
\* (cpp-engine/include/Portfolio.h:19).
RoundTripsRealize ==
  AllFlat => [n |-> portfolio.cash, d |-> 1] = Proceeds
=============================================================================
