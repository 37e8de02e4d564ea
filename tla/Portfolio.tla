------------------------------ MODULE Portfolio ------------------------------
(***************************************************************************)
(* The portfolio, the risk manager and the simulated execution of          *)
(* cpp-engine/src/Portfolio.cpp, as operators on a portfolio record.        *)
(*                                                                         *)
(* Money and quantities are integers, in a unit small enough for every      *)
(* amount a configuration uses; quotients (average prices, P&L, signal      *)
(* strengths) are exact fractions.  The code's doubles round where these    *)
(* are exact.  A std::unordered_map is a function whose domain is the set   *)
(* of keys inserted so far.                                                *)
(***************************************************************************)
EXTENDS Integers, Sequences, FiniteSetsExt

CONSTANTS
  InitialCapital,   \* BacktestConfig::initial_capital
  MaxPositions,     \* RiskManager::Config::max_positions
  LossLimitBps,     \* RiskManager::Config::daily_loss_limit, in 1/10000
  SlippageBps,      \* SimulatedExecution::Config::slippage_bps
  CommissionBps,    \* SimulatedExecution::Config::commission_bps
  CommissionFlat    \* SimulatedExecution::Config::commission_flat

\* The API admits only positive capital (api/models.py, gt=0).
ASSUME PortfolioAssumption ==
  /\ InitialCapital \in Nat \ {0}
  /\ MaxPositions \in Nat
  /\ LossLimitBps \in Int
  /\ {SlippageBps, CommissionBps, CommissionFlat} \subseteq Nat

-----------------------------------------------------------------------------
(* Exact fractions [n, d] with d > 0, in lowest terms.                      *)

Fraction == [n : Int, d : Nat \ {0}]

\* A function of both, so that TLC evaluates them once.
Rat(n, d) ==
  LET Lowest == [a \in Int |-> [b \in Nat \ {0} |->
                   LET gcd == Max({c \in 1..b : a % c = 0 /\ b % c = 0})
                   IN  [n |-> a \div gcd, d |-> b \div gcd]]]
  IN  IF d < 0 THEN Lowest[-n][-d] ELSE Lowest[n][d]

Zero == [n |-> 0, d |-> 1]

Plus(a, b) == Rat(a.n * b.d + b.n * a.d, a.d * b.d)

Less(a, b) == a.n * b.d < b.n * a.d

MagnitudeOf(x) == IF x < 0 THEN -x ELSE x

-----------------------------------------------------------------------------
(* class Portfolio.                                                         *)

EmptyMap == [s \in {} |-> 0]

\* map[x] = v on a std::unordered_map
Put(map, x, v) == [s \in DOMAIN map \cup {x} |-> IF s = x THEN v ELSE map[s]]

NewPosition ==
  [quantity |-> 0, avg_price |-> Zero, unrealized_pnl |-> Zero,
   realized_pnl |-> Zero, commission |-> 0]

NewPortfolio ==
  [cash |-> InitialCapital, positions |-> EmptyMap, last_price |-> EmptyMap,
   equity_curve |-> <<>>, fill_history |-> <<>>]

\* Cash plus the market value of the positions that have a known price.
Equity(p) ==
  p.cash + MapThenSumSet(LAMBDA s : p.positions[s].quantity * p.last_price[s],
                         DOMAIN p.positions \cap DOMAIN p.last_price)

\* Mutant: the gain is not measured from the average price.
GainOnZero(quantity, price, avg) == [n |-> quantity * price, d |-> 1]

\* quantity * (price - avg_price)
Gain(quantity, price, avg) ==
  Rat(quantity * (price * avg.d - avg.n), avg.d)

OnMarket(p, e) ==
  [p EXCEPT
     !.last_price = Put(@, e.symbol, e.close),
     !.positions  =
        [s \in DOMAIN p.positions |->
           IF s = e.symbol
           THEN [p.positions[s] EXCEPT
                   !.unrealized_pnl = Gain(p.positions[s].quantity, e.close,
                                           p.positions[s].avg_price)]
           ELSE p.positions[s]]]

\* Mutant: the whole equity is put into one position.
PositionSizeWhole(p, sig) ==
  (Equity(p) * sig.strength.n) \div (sig.strength.d * p.last_price[sig.symbol])

\* floor(equity * strength * 0.05 / price); 0 with no price or a price <= 0.
PositionSize(p, sig) ==
  IF /\ sig.symbol \in DOMAIN p.last_price
     /\ p.last_price[sig.symbol] > 0
  THEN (Equity(p) * sig.strength.n)
         \div (20 * sig.strength.d * p.last_price[sig.symbol])
  ELSE 0

\* Mutant: a signal that buys nothing is put back to be tried again.
OnSignalRetries(p, sig) ==
  IF PositionSize(p, sig) <= 0 THEN <<sig>>
  ELSE <<[type |-> "ORDER", symbol |-> sig.symbol, side |-> "BUY",
          quantity |-> PositionSize(p, sig), timestamp |-> sig.timestamp]>>

\* The events on_signal pushes: none or one MARKET order.  The size is
\* computed first, and a size <= 0 drops the signal whatever its direction.
OnSignal(p, sig) ==
  LET qty == PositionSize(p, sig)
      order(side, quantity) ==
        <<[type |-> "ORDER", symbol |-> sig.symbol, side |-> side,
           quantity |-> quantity, timestamp |-> sig.timestamp]>>
      held == p.positions[sig.symbol].quantity
  IN  CASE qty <= 0 -> <<>>
        [] qty > 0 /\ sig.direction = "LONG"  -> order("BUY", qty)
        [] qty > 0 /\ sig.direction = "SHORT" -> order("SELL", qty)
        [] qty > 0 /\ sig.direction = "FLAT"  ->
             IF sig.symbol \in DOMAIN p.positions
             THEN order(IF held > 0 THEN "SELL" ELSE "BUY", MagnitudeOf(held))
             ELSE <<>>

\* positions_[sym], which inserts a zero position when there is none.
PositionOf(p, s) ==
  IF s \in DOMAIN p.positions THEN p.positions[s] ELSE NewPosition

\* A BUY averages the price in when the position ends up long; a SELL
\* realizes (price - avg_price) on min(quantity, |held|), long or short.
OnFill(p, f) ==
  LET old    == PositionOf(p, f.symbol)
      value  == f.quantity * f.fill_price
      bought == old.quantity + f.quantity
      closed == Min({f.quantity, MagnitudeOf(old.quantity)})
      profit == Gain(closed, f.fill_price, old.avg_price)
      after  ==
        IF f.side = "BUY"
        THEN [old EXCEPT
                !.quantity   = bought,
                !.avg_price  =
                   IF bought > 0
                   THEN Rat(old.quantity * @.n + value * @.d, @.d * bought)
                   ELSE @,
                !.commission = @ + f.commission]
        ELSE [old EXCEPT
                !.quantity     = @ - f.quantity,
                !.realized_pnl = Plus(@, profit),
                !.commission   = @ + f.commission]
  IN  [p EXCEPT
         !.positions    = Put(@, f.symbol, after),
         !.cash         = IF f.side = "BUY" THEN @ - (value + f.commission)
                                            ELSE @ + (value - f.commission),
         !.fill_history = Append(@, f)]

RecordEquity(p, ts) ==
  [p EXCEPT !.equity_curve =
     Append(@, [timestamp |-> ts, equity |-> Equity(p), cash |-> p.cash])]

-----------------------------------------------------------------------------
(* class SimulatedExecution: the FILL execute_order pushes for an order and *)
(* a bar.  The engine owns one and never calls it.                          *)

ExecuteOrder(order, bar) ==
  LET slippage   == (bar.open * SlippageBps) \div 10000
      fill_price == IF order.side = "BUY" THEN bar.open + slippage
                                          ELSE bar.open - slippage
  IN  [type |-> "FILL", symbol |-> order.symbol, side |-> order.side,
       quantity |-> order.quantity, fill_price |-> fill_price,
       commission |-> CommissionFlat
                        + (order.quantity * fill_price * CommissionBps) \div 10000,
       timestamp |-> bar.timestamp]
-----------------------------------------------------------------------------
(* class RiskManager.  Its only state is day_start_equity_, set by the      *)
(* first order it sees and never reset afterwards.                          *)

DayStart(day_start, p) == IF day_start = 0 THEN Equity(p) ELSE day_start

\* Mutant: the limit is only looked at once something has been lost.
LossLimitBreachedAfterLoss(start, current) ==
  start > current /\ (start - current) * 10000 > LossLimitBps * start

\* (start - current) / start > limit, cross-multiplied; 0/0 is NaN and the
\* comparison is then false.
LossLimitBreached(start, current) ==
  \/ start > 0 /\ (start - current) * 10000 > LossLimitBps * start
  \/ start < 0 /\ (start - current) * 10000 < LossLimitBps * start

OpenPositions(p) ==
  Cardinality({s \in DOMAIN p.positions : p.positions[s].quantity # 0})

\* Mutant: the limit is exceeded by one.
AtPositionLimitLate(p) == OpenPositions(p) > MaxPositions

AtPositionLimit(p) == OpenPositions(p) >= MaxPositions

\* Mutants: an approved order is consumed; is also reported as a RISK event;
\* is executed at the last price.
EvaluateConsumes(order, p, day_start) == <<>>

EvaluateReports(order, p, day_start) ==
  <<order, [type |-> "RISK", symbol |-> order.symbol,
            requested_qty |-> order.quantity]>>

EvaluateExecutes(order, p, day_start) ==
  <<ExecuteOrder(order, [open |-> p.last_price[order.symbol],
                         timestamp |-> order.timestamp])>>

\* The events evaluate pushes: a RISK veto, nothing, or the ORDER again.
Evaluate(order, p, day_start) ==
  IF LossLimitBreached(DayStart(day_start, p), Equity(p))
  THEN <<[type |-> "RISK", symbol |-> order.symbol,
          requested_qty |-> order.quantity]>>
  ELSE IF order.side = "BUY" /\ AtPositionLimit(p)
  THEN <<>>
  ELSE <<order>>

=============================================================================
