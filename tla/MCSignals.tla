------------------------------ MODULE MCSignals ------------------------------
(***************************************************************************)
(* Configurations for model checking module Signals with a window of 4.     *)
(* They are the edges of the catalogue's ranges: periods up to the window   *)
(* and beyond it, oversold and overbought next to the neutral 50, and       *)
(* entry_rsi at it.  One leaves its parameters to their defaults.           *)
(***************************************************************************)
EXTENDS Signals

SmaOf(fast, slow) ==
  [name |-> "sma", params |-> "fast_period" :> fast @@ "slow_period" :> slow]

RsiOf(period) ==
  [name |-> "rsi", params |-> "period" :> period @@ "oversold" :> 49 @@ "overbought" :> 51]

MaRsiOf(sma, rsi, exit) ==
  [name |-> "marsi", params |-> "sma_period" :> sma @@ "rsi_period" :> rsi
                                  @@ "entry_rsi" :> 50 @@ "exit_rsi" :> exit]

BandsOf(period) == [name |-> "bollinger", params |-> "period" :> period @@ "k" :> 1]

Edges ==
  {SmaOf(2, 4), SmaOf(4, 2), SmaOf(2, 5), RsiOf(3), RsiOf(4), MaRsiOf(4, 3, 50),
   MaRsiOf(2, 2, 90), MaRsiOf(5, 2, 50), BandsOf(4), BandsOf(5),
   [name |-> "sma", params |-> "fast_period" :> 2]}
=============================================================================
