------------------------------- MODULE Metrics -------------------------------
(***************************************************************************)
(* Portfolio::compute_metrics of cpp-engine/src/Portfolio.cpp: the figures  *)
(* that are quotients, as exact fractions.  Of those that need roots and    *)
(* powers (volatility, annualized return, Sharpe, Sortino, Calmar) there is *)
(* only whether they are numbers.                                          *)
(***************************************************************************)
EXTENDS Portfolio, SequencesExt

Times(a, b) == Rat(a.n * b.n, a.d * b.d)

Over(a, b) == Rat(a.n * b.d, a.d * b.n)

Sum(Value(_), S) ==
  MapThenFoldSet(Plus, Zero, Value, LAMBDA T : CHOOSE s \in T : TRUE, S)

TotalReturn(curve) ==
  Rat(curve[Len(curve)].equity - curve[1].equity, curve[1].equity)

\* The bar-to-bar returns, each by the point it starts from; those from an
\* equity that is not positive are passed over.
Returns(curve) ==
  [i \in {j \in 1..(Len(curve) - 1) : curve[j].equity > 0} |->
     Rat(curve[i + 1].equity - curve[i].equity, curve[i].equity)]

\* Figures that can come out as NaN: the power of a negative growth, and the
\* spread of no returns.  The ratios made of them follow.
MayBeNaN(curve) ==
  LET growth == Plus([n |-> 1, d |-> 1], TotalReturn(curve))
      empty  == DOMAIN Returns(curve) = {}
  IN  {figure \in {"annualized_return", "volatility"} :
         IF figure = "volatility" THEN empty ELSE ~empty /\ growth.n < 0}

\* Mutant: the fall is measured from the first point, not from the peak.
FallFromStart(curve) ==
  LET falls == {Rat(curve[1].equity - curve[i].equity, curve[1].equity) :
                  i \in DOMAIN curve} \cup {Zero}
  IN  CHOOSE f \in falls : \A g \in falls : ~Less(f, g)

\* One pass over the curve with the highest equity so far.  The peak starts
\* at the first equity, which is positive.
MaxDrawdown(curve) ==
  FoldLeft(LAMBDA acc, pt :
             LET peak == Max({acc.peak, pt.equity})
                 dd   == Rat(peak - pt.equity, peak)
             IN  [peak |-> peak, max_dd |-> IF Less(acc.max_dd, dd) THEN dd ELSE acc.max_dd],
           [peak |-> curve[1].equity, max_dd |-> Zero], curve).max_dd

\* A trade, for these statistics, is a symbol: it has won or lost by the
\* profit realized on it.
Winners(p) == {s \in DOMAIN p.positions : p.positions[s].realized_pnl.n > 0}

Losers(p) == {s \in DOMAIN p.positions : p.positions[s].realized_pnl.n < 0}

TotalWin(p) == Sum(LAMBDA s : p.positions[s].realized_pnl, Winners(p))

\* Mutant: losses are added up with their sign.
TotalLossSigned(p) == Sum(LAMBDA s : p.positions[s].realized_pnl, Losers(p))

TotalLoss(p) == Sum(LAMBDA s : [p.positions[s].realized_pnl EXCEPT !.n = -@], Losers(p))

\* 0 unless there is something to divide by.
Mean(total, count) == IF count = 0 THEN Zero ELSE Over(total, [n |-> count, d |-> 1])

NoMetrics ==
  [total_return |-> Zero, max_drawdown |-> Zero, total_trades |-> 0,
   winning_trades |-> 0, losing_trades |-> 0, win_rate |-> Zero,
   avg_win |-> Zero, avg_loss |-> Zero, profit_factor |-> Zero]

\* Fewer than two snapshots leave every figure 0.
ComputeMetrics(p) ==
  LET winning == Cardinality(Winners(p))
      losing  == Cardinality(Losers(p))
  IN  IF Len(p.equity_curve) < 2 THEN NoMetrics
      ELSE [total_return   |-> TotalReturn(p.equity_curve),
            max_drawdown   |-> MaxDrawdown(p.equity_curve),
            total_trades   |-> Len(p.fill_history),
            winning_trades |-> winning,
            losing_trades  |-> losing,
            win_rate       |-> Mean([n |-> winning, d |-> 1], winning + losing),
            avg_win        |-> Mean(TotalWin(p), winning),
            avg_loss       |-> Mean(TotalLoss(p), losing),
            profit_factor  |-> IF losing = 0 THEN Zero
                               ELSE Over(TotalWin(p), TotalLoss(p))]
=============================================================================
