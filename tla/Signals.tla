------------------------------- MODULE Signals -------------------------------
(***************************************************************************)
(* One strategy and one symbol of the engine over a long history: the       *)
(* closes arrive one by one, each slides the rolling window, and the        *)
(* strategy that make_strategy built answers from the window alone          *)
(* (update_bars of cpp-engine/src/DataHandler.cpp, calculate_signals of      *)
(* cpp-engine/src/Strategy.cpp).                                           *)
(*                                                                         *)
(* Module Backtest has the loop around these calls and takes any strategy;  *)
(* this one has the repository's strategies, at the edges of the parameter  *)
(* ranges that the API's catalogue gives (api/main.py, STRATEGY_CATALOGUE). *)
(***************************************************************************)
EXTENDS Strategy

CONSTANTS
  Configs,          \* the configurations [name, params]
  Prices,           \* the closes that occur
  MaxBars           \* bound: bars delivered

ASSUME SignalsAssumption ==
  /\ \A cfg \in Configs : cfg.name \in {"sma", "rsi", "marsi", "bollinger"}
  /\ Prices \subseteq Nat \ {0} /\ MaxBars \in Nat

VARIABLES
  config,           \* the strategy and its parameters
  window,           \* the closes in the rolling window
  pos,              \* the strategy's remembered position
  seen,             \* history: all closes so far
  signals           \* history: the signals, each with the number of its bar

vars == <<config, window, pos, seen, signals>>

Init ==
  /\ config \in Configs
  /\ window = <<>>
  /\ pos = 0
  /\ seen = <<>>
  /\ signals = <<>>

DeliverBar(close) ==
  /\ Len(seen) < MaxBars
  /\ seen' = Append(seen, close)
  /\ window' = Slide(window, close)
  /\ LET answer == CalculateSignals(config, window', close, pos)
         signal == [bar |-> Len(seen'), direction |-> answer.direction,
                    strength |-> answer.strength]
     IN  /\ pos' = answer.pos
         /\ signals' = IF answer.emit THEN Append(signals, signal) ELSE signals
  /\ UNCHANGED config

Next == \E close \in Prices : DeliverBar(close)

Spec == Init /\ [][Next]_vars

-----------------------------------------------------------------------------
(* Properties.                                                              *)

\* The closes a configured strategy looks back on: an RSI over n changes
\* needs n + 1 of them.
Needed ==
  CASE config.name = "sma" ->
         Max({Param(config, "fast_period", 10), Param(config, "slow_period", 30)})
    [] config.name = "rsi" -> Param(config, "period", 14) + 1
    [] config.name = "marsi" ->
         Max({Param(config, "sma_period", 200), Param(config, "rsi_period", 14) + 1})
    [] config.name = "bollinger" -> Param(config, "period", 20)

\* The window is long enough: whatever has left it, a strategy whose periods
\* fit decides as it would on the whole history (DataHandler.cpp:116-120,
\* kWindowSize).  The longest period of the catalogue is exactly the window.
WindowSuffices ==
  [][Needed <= WindowSize =>
       LET close == seen'[Len(seen')]
       IN  CalculateSignals(config, window', close, pos)
             = CalculateSignals(config, seen', close, pos)]_vars

\* Nothing is signalled before the strategy has all the history it looks back
\* on, and nothing ever when that does not fit the window: the 0 and the
\* neutral 50 that stand for "not enough history" never pass a limit of the
\* catalogue, the 50 itself included (Strategy.cpp:37-38, 59-60).
SilentUntilReady ==
  \A i \in DOMAIN signals : Needed <= signals[i].bar /\ Needed <= WindowSize

\* A strategy does not repeat itself: no two signals in a row have the same
\* direction and FLAT only leaves a position (Strategy.h:82-83), so a signal
\* lost on its way to the market is never sent again.
SignalsAlternate ==
  \A i \in DOMAIN signals :
    IF i = 1 THEN signals[i].direction # "FLAT"
             ELSE signals[i].direction # signals[i - 1].direction

\* Whatever a strategy signals, the order that a portfolio without positions
\* makes of it costs at most a twentieth of the equity: "capped at 5%"
\* (Portfolio.h:93).  The cap is the strength's, not the sizing's.
OrdersCapped ==
  \A i \in DOMAIN signals :
    LET close  == seen[signals[i].bar]
        market == OnMarket(NewPortfolio, [symbol |-> "s", close |-> close])
        orders == OnSignal(market, [symbol |-> "s", direction |-> signals[i].direction,
                                    strength |-> signals[i].strength, timestamp |-> 0])
    IN  \A j \in DOMAIN orders : 20 * orders[j].quantity * close <= Equity(market)
=============================================================================
