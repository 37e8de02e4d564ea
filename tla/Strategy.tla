------------------------------ MODULE Strategy ------------------------------
(***************************************************************************)
(* The indicators and the decisions of cpp-engine/src/Strategy.cpp, as      *)
(* operators on the closes of the rolling window (oldest first), the close  *)
(* of the bar at hand and the strategy's remembered position for the        *)
(* symbol: -1, 0 or 1.  Averages and strengths are exact fractions.         *)
(*                                                                         *)
(* A decision is [emit, direction, strength, pos]: whether a SIGNAL is      *)
(* pushed, what it says, and the position remembered afterwards.            *)
(***************************************************************************)
EXTENDS Portfolio, RollingWindow

Positions == {-1, 0, 1}

Decision == [emit : BOOLEAN, direction : {"LONG", "FLAT", "SHORT"},
             strength : Fraction, pos : Positions]

Quiet(pos) ==
  [emit |-> FALSE, direction |-> "FLAT", strength |-> Zero, pos |-> pos]

\* Mutant: the position signalled is not remembered.
EmitSignalForgets(direction, strength, pos) ==
  [emit |-> TRUE, direction |-> direction, strength |-> strength, pos |-> 0]

EmitSignal(direction, strength, pos) ==
  [emit |-> TRUE, direction |-> direction, strength |-> strength, pos |-> pos]

One == [n |-> 1, d |-> 1]

-----------------------------------------------------------------------------
(* Indicators.                                                              *)

\* Mean of the last n closes, 0 when there are fewer.
Sma(closes, n) ==
  IF Len(closes) < n THEN Zero ELSE Rat(FoldSeq(+, 0, LastN(closes, n)), n)

\* 100 - 100/(1 + gain/loss) over the last n changes; 50 with too little
\* history, 100 when nothing was lost (a flat market included).
Rsi(closes, n) ==
  LET bars      == LastN(closes, n + 1)
      change(i) == bars[i + 1] - bars[i]
      gain      == FoldSeq(+, 0, [i \in 1..n |-> Max({change(i), 0})])
      loss      == FoldSeq(+, 0, [i \in 1..n |-> Max({-change(i), 0})])
  IN  IF Len(closes) < n + 1 THEN [n |-> 50, d |-> 1]
      ELSE IF loss = 0 THEN [n |-> 100, d |-> 1]
      ELSE Rat(100 * gain, gain + loss)

\* Bollinger's bands are mean -+ k * deviation of the last n closes.  To
\* compare without roots: how far c is from the mean, times n, with its sign;
\* and the square of half the width of the bands, times n.
FromMean(closes, n, c) == n * c - FoldSeq(+, 0, LastN(closes, n))

SquaredHalfWidth(closes, n, k) ==
  LET bars    == LastN(closes, n)
      sum     == FoldSeq(+, 0, bars)
      squares == FoldSeq(+, 0, [i \in DOMAIN bars |-> bars[i] * bars[i]])
  IN  k * k * (n * squares - sum * sum)

-----------------------------------------------------------------------------
(* Decisions.                                                               *)

\* Mutant: the strength is not capped.
Uncapped(x) == x

\* std::min(1.0, x)
AtMostOne(x) == IF Less(x, One) THEN x ELSE One

\* Mutant: a value at the limit is taken for one below it.
BelowOrAt(r, limit) == r.n <= limit * r.d

Below(r, limit) == r.n < limit * r.d

SmaStrategy(fast_period, slow_period, closes, close, pos) ==
  LET fast_ma  == Sma(closes, fast_period)
      slow_ma  == Sma(closes, slow_period)
      new_pos  == IF Less(slow_ma, fast_ma) THEN 1 ELSE -1
      gap      == MagnitudeOf(fast_ma.n * slow_ma.d - slow_ma.n * fast_ma.d)
      strength == AtMostOne(Rat(100 * gap, fast_ma.d * slow_ma.n))
  IN  IF fast_ma.n = 0 \/ slow_ma.n = 0 \/ new_pos = pos THEN Quiet(pos)
      ELSE EmitSignal(IF new_pos = 1 THEN "LONG" ELSE "SHORT", strength, new_pos)

\* 1 - r/limit
ShortfallBelow(r, limit) == Rat(limit * r.d - r.n, limit * r.d)

RsiStrategy(period, oversold, overbought, closes, close, pos) ==
  LET r == Rsi(closes, period)
      excess == Rat(r.n - overbought * r.d, r.d * (100 - overbought))
      buys   == Below(r, oversold) /\ pos # 1
  IN  CASE buys -> EmitSignal("LONG", ShortfallBelow(r, oversold), 1)
        [] ~buys /\ r.n > overbought * r.d /\ pos # -1 ->
             EmitSignal("SHORT", excess, -1)
        [] OTHER -> Quiet(pos)

MaRsiStrategy(sma_period, rsi_period, entry_rsi, exit_rsi, closes, close, pos) ==
  LET trend_ma == Sma(closes, sma_period)
      r        == Rsi(closes, rsi_period)
      above    == close * trend_ma.d > trend_ma.n
      enters   == above /\ Below(r, entry_rsi) /\ pos # 1
      leaves   == (~above \/ r.n > exit_rsi * r.d) /\ pos = 1
  IN  CASE trend_ma.n = 0 -> Quiet(pos)
        [] trend_ma.n # 0 /\ enters ->
             EmitSignal("LONG", ShortfallBelow(r, entry_rsi), 1)
        [] trend_ma.n # 0 /\ ~enters /\ leaves -> EmitSignal("FLAT", One, 0)
        [] OTHER -> Quiet(pos)

\* The bands are k deviations wide to each side, k an integer.  The strength,
\* min(1, overshoot / half width), is rounded down to tenths: it is the only
\* irrational figure a decision passes on.
BollingerStrategy(period, k, closes, close, pos) ==
  LET far      == FromMean(closes, period, close)
      half     == SquaredHalfWidth(closes, period, k)
      outside  == far * far > half
      strength == Rat(Max({i \in 0..10 : 100 * far * far >= (10 + i) * (10 + i) * half}), 10)
      ready    == Len(closes) >= period
      leaves   == (far > 0 /\ pos = 1) \/ (far < 0 /\ pos = -1)
  IN  CASE ready /\ outside /\ far < 0 /\ pos # 1  -> EmitSignal("LONG", strength, 1)
        [] ready /\ outside /\ far > 0 /\ pos # -1 -> EmitSignal("SHORT", strength, -1)
        [] ready /\ ~outside /\ leaves             -> EmitSignal("FLAT", One, 0)
        [] OTHER -> Quiet(pos)

-----------------------------------------------------------------------------
(* make_strategy: a configuration [name, params] gives the strategy and its  *)
(* parameters; those that params does not name have their defaults.         *)

Param(cfg, key, default) ==
  IF key \in DOMAIN cfg.params THEN cfg.params[key] ELSE default

CalculateSignals(cfg, closes, close, pos) ==
  CASE cfg.name = "sma" ->
         SmaStrategy(Param(cfg, "fast_period", 10), Param(cfg, "slow_period", 30),
                     closes, close, pos)
    [] cfg.name = "rsi" ->
         RsiStrategy(Param(cfg, "period", 14), Param(cfg, "oversold", 30),
                     Param(cfg, "overbought", 70), closes, close, pos)
    [] cfg.name = "marsi" ->
         MaRsiStrategy(Param(cfg, "sma_period", 200), Param(cfg, "rsi_period", 14),
                       Param(cfg, "entry_rsi", 35), Param(cfg, "exit_rsi", 65),
                       closes, close, pos)
    [] cfg.name = "bollinger" ->
         BollingerStrategy(Param(cfg, "period", 20), Param(cfg, "k", 2),
                           closes, close, pos)
=============================================================================
