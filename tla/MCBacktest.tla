----------------------------- MODULE MCBacktest -----------------------------
(***************************************************************************)
(* Values of the constants of module Backtest for model checking.           *)
(*                                                                         *)
(* With 100 of capital a full-strength signal allocates 5: a symbol at 2    *)
(* can be ordered (2 units), one at 8 cannot (0 units).                     *)
(***************************************************************************)
EXTENDS Backtest, Strategy

CONSTANTS
  MaxLines,           \* bound: lines of one file
  MaxTime             \* bound: timestamps are 1..MaxTime

\* A daily loss limit below zero vetoes every order.
BelowZero == -1

\* BRK.PREFERRED.A-1 is longer than 15 characters: events and messages carry
\* it cut to a name that is nobody's ticker.
OneSymbol == <<"AAPL">>
ThreeSymbols == <<"AAPL", "BRK.PREFERRED.A-1", "MSFT">>

Unchanged == [t \in {"AAPL"} |-> t]
Truncated ==
  [t \in Range(ThreeSymbols) |-> IF t = "BRK.PREFERRED.A-1" THEN "BRK.PREFERRED.A" ELSE t]

\* One file: any lines, well-formed or not, in any order, or no file.
RawLines ==
  [kind : {"row"}, timestamp : 1..MaxTime, close : Prices]
    \cup [kind : {"undated", "short", "not_a_number"}, timestamp : {1}, close : {2}]

RawFiles ==
  {[exists |-> TRUE, lines |-> ls] : ls \in UNION {[1..n -> RawLines] : n \in 0..MaxLines}}
    \cup {[exists |-> FALSE, lines |-> <<>>]}

RawDisks == [{"AAPL"} -> RawFiles]

\* Clean files: rows only, timestamps ascending; the times of one file are
\* any of 1..MaxTime, so that two files need not agree on them.
FileOf(prices) ==
  LET times == SetToSortSeq(DOMAIN prices, <)
  IN  [exists |-> TRUE,
       lines  |-> [i \in DOMAIN times |->
                     [kind |-> "row", timestamp |-> times[i], close |-> prices[times[i]]]]]

CleanFiles ==
  {FileOf(prices) : prices \in UNION {[T -> Prices] :
                      T \in {T \in SUBSET (1..MaxTime) : Cardinality(T) <= MaxLines}}}

OneCleanDisk == [{"AAPL"} -> CleanFiles]

\* The third symbol only has to be absent, short or long: its price stays.
Flat(n) == FileOf([t \in 1..n |-> 2])

MixedDisks ==
  {disks @@ ("BRK.PREFERRED.A-1" :> Flat(n)) :
     disks \in [{"AAPL", "MSFT"} -> CleanFiles], n \in {0, 1, MaxTime}}

\* Strategies with periods that the short files reach.
Sma12(closes, close, pos) == SmaStrategy(1, 2, closes, close, pos)
Rsi1(closes, close, pos) == RsiStrategy(1, 30, 70, closes, close, pos)
MaRsi(closes, close, pos) == MaRsiStrategy(3, 1, 35, 65, closes, close, pos)
=============================================================================
