---------------------------- MODULE SignalsProofs ----------------------------
(***************************************************************************)
(* Proofs about the strategies over histories of any length, for windows    *)
(* of any size and every parameter that the catalogue allows.               *)
(*                                                                         *)
(* The window is the end of the history: that is what makes a decision from *)
(* the window the decision from the whole history.                          *)
(***************************************************************************)
EXTENDS Signals, ArithmeticProofs, SequenceTheorems

-----------------------------------------------------------------------------
(* The window.                                                              *)

\* t is the end of s, for sequences over S.
IsEnd(t, s, S) ==
  /\ t \in Seq(S) /\ s \in Seq(S) /\ Len(t) <= Len(s)
  /\ \A i \in 1..Len(t) : t[i] = s[Len(s) - Len(t) + i]

\* Two ends of one length are one end.
LEMMA EndsEqual ==
  ASSUME NEW S, NEW s, NEW t, NEW u, IsEnd(t, s, S), IsEnd(u, s, S), Len(t) = Len(u)
  PROVE  t = u
<1>1. t \in Seq(S) /\ u \in Seq(S) /\ \A i \in 1..Len(t) : t[i] = u[i]
  BY DEF IsEnd
<1> QED
  BY <1>1, SeqEqual

\* The end of an end is an end.
LEMMA EndOfEnd ==
  ASSUME NEW S, NEW s, NEW t, NEW u, IsEnd(t, s, S), IsEnd(u, t, S)
  PROVE  IsEnd(u, s, S)
<1>1. /\ Len(s) \in Nat /\ Len(t) \in Nat /\ Len(u) \in Nat
      /\ Len(u) <= Len(t) /\ Len(t) <= Len(s)
  BY DEF IsEnd
<1>2. ASSUME NEW i \in 1..Len(u) PROVE u[i] = s[Len(s) - Len(u) + i]
  <2>1. PICK j \in 1..Len(t) : j = Len(t) - Len(u) + i
    BY <1>1
  <2>2. u[i] = t[j]
    BY <2>1 DEF IsEnd
  <2>3. t[j] = s[Len(s) - Len(t) + j]
    BY DEF IsEnd
  <2>4. Len(s) - Len(t) + j = Len(s) - Len(u) + i
    BY <1>1, <2>1
  <2> QED
    BY <2>2, <2>3, <2>4
<1> QED
  BY <1>1, <1>2 DEF IsEnd

\* LastN leaves the last n entries, or all when there are fewer.
LEMMA LastEntries ==
  ASSUME NEW S, NEW s \in Seq(S), NEW n \in Nat
  PROVE  /\ IsEnd(LastN(s, n), s, S)
         /\ Len(LastN(s, n)) = IF Len(s) < n THEN Len(s) ELSE n
<1> DEFINE from == IF Len(s) < n THEN 1 ELSE Len(s) - n + 1
<1>1. Len(s) \in Nat
  OBVIOUS
<1>2. LastN(s, n) = SubSeq(s, from, Len(s))
  <2>1. Max({1, Len(s) - n + 1}) = from
    BY <1>1, MaxOfTwo
  <2> QED
    BY <2>1 DEF LastN
<1>3. from \in 1..(Len(s) + 1)
  BY <1>1
<1> HIDE DEF from
<1>4. /\ LastN(s, n) \in Seq(S) /\ Len(LastN(s, n)) = Len(s) - from + 1
      /\ \A i \in 1..Len(LastN(s, n)) : LastN(s, n)[i] = s[from + i - 1]
  BY <1>1, <1>2, <1>3, SubSeqProperties
<1> QED
  BY <1>1, <1>4 DEF from, IsEnd

\* The last n of the last w entries are the last n entries.
LEMMA LastOfLast ==
  ASSUME NEW S, NEW s \in Seq(S), NEW w \in Nat, NEW n \in 0..w
  PROVE  LastN(LastN(s, w), n) = LastN(s, n)
<1>1. PICK t \in Seq(S) : t = LastN(s, w)
  BY LastEntries DEF IsEnd
<1>2. IsEnd(t, s, S) /\ Len(t) = IF Len(s) < w THEN Len(s) ELSE w
  BY <1>1, LastEntries
<1>3. /\ IsEnd(LastN(t, n), t, S)
      /\ Len(LastN(t, n)) = IF Len(t) < n THEN Len(t) ELSE n
  BY LastEntries
<1>4. /\ IsEnd(LastN(s, n), s, S)
      /\ Len(LastN(s, n)) = IF Len(s) < n THEN Len(s) ELSE n
  BY LastEntries
<1>5. IsEnd(LastN(t, n), s, S)
  BY <1>2, <1>3, EndOfEnd
<1>6. Len(LastN(t, n)) = Len(LastN(s, n))
  <2>1. Len(s) \in Nat /\ Len(t) \in Nat
    OBVIOUS
  <2> QED
    BY <1>2, <1>3, <1>4, <2>1
<1> QED
  BY <1>1, <1>4, <1>5, <1>6, EndsEqual

\* An entry pushed at both ends keeps the one the end of the other.
LEMMA AppendedEnd ==
  ASSUME NEW S, NEW s, NEW t, IsEnd(t, s, S), NEW c \in S
  PROVE  IsEnd(Append(t, c), Append(s, c), S)
<1>1. /\ t \in Seq(S) /\ s \in Seq(S) /\ Len(s) \in Nat /\ Len(t) \in Nat
      /\ Len(t) <= Len(s) /\ \A i \in 1..Len(t) : t[i] = s[Len(s) - Len(t) + i]
  BY DEF IsEnd
<1>1a. Append(t, c) \in Seq(S) /\ Append(s, c) \in Seq(S)
  BY <1>1
<1>2. PICK v \in Seq(S) : v = Append(t, c)
  BY <1>1a
<1>3. PICK w \in Seq(S) : w = Append(s, c)
  BY <1>1a
<1>4. /\ Len(v) = Len(t) + 1 /\ v[Len(t) + 1] = c /\ \A i \in 1..Len(t) : v[i] = t[i]
      /\ Len(w) = Len(s) + 1 /\ w[Len(s) + 1] = c /\ \A i \in 1..Len(s) : w[i] = s[i]
  BY <1>1, <1>2, <1>3
<1>5. ASSUME NEW i \in 1..Len(v) PROVE v[i] = w[Len(w) - Len(v) + i]
  <2>1. CASE i = Len(t) + 1
    <3>1. Len(w) - Len(v) + i = Len(s) + 1
      BY <1>1, <1>4, <2>1
    <3> QED
      BY <1>4, <2>1, <3>1
  <2>2. CASE i \in 1..Len(t)
    <3>1. PICK j \in 1..Len(s) : j = Len(s) - Len(t) + i
      BY <1>1, <2>2
    <3>2. Len(w) - Len(v) + i = j
      BY <1>1, <1>4, <2>2, <3>1
    <3> QED
      BY <1>1, <1>4, <2>2, <3>1, <3>2
  <2> QED
    BY <1>1, <1>4, <2>1, <2>2
<1>6. Len(v) <= Len(w)
  BY <1>1, <1>4
<1> QED
  BY <1>2, <1>3, <1>5, <1>6 DEF IsEnd

\* Without its first entry a sequence is still the end of what it was.
LEMMA TailIsEnd ==
  ASSUME NEW S, NEW t \in Seq(S), t # <<>>
  PROVE  IsEnd(Tail(t), t, S) /\ Len(Tail(t)) = Len(t) - 1
<1>1. /\ Len(t) \in Nat \ {0} /\ Tail(t) \in Seq(S) /\ Len(Tail(t)) = Len(t) - 1
      /\ \A i \in 1..Len(Tail(t)) : Tail(t)[i] = t[i + 1]
  BY HeadTailProperties, EmptySeq
<1>2. \A i \in 1..Len(Tail(t)) : Len(t) - Len(Tail(t)) + i = i + 1
  BY <1>1
<1> QED
  BY <1>1, <1>2 DEF IsEnd

\* Sliding an entry in keeps the window the end of the history
\* (DataHandler.cpp:16-21).
LEMMA SlideKeepsEnd ==
  ASSUME NEW S, NEW s \in Seq(S), NEW c \in S
  PROVE  Slide(LastN(s, WindowSize), c) = LastN(Append(s, c), WindowSize)
<1>0. WindowSize \in Nat /\ WindowSize > 0 /\ Len(s) \in Nat
  BY WindowAssumption
<1>1. PICK t \in Seq(S) : t = LastN(s, WindowSize)
  BY <1>0, LastEntries DEF IsEnd
<1>2. /\ IsEnd(t, s, S) /\ Len(t) \in Nat
      /\ Len(t) = IF Len(s) < WindowSize THEN Len(s) ELSE WindowSize
  BY <1>0, <1>1, LastEntries
<1>3. PICK w \in Seq(S) : w = Append(s, c) /\ Len(w) = Len(s) + 1
  <2>1. Append(s, c) \in Seq(S) /\ Len(Append(s, c)) = Len(s) + 1
    OBVIOUS
  <2> QED
    BY <2>1
<1>4. /\ IsEnd(LastN(w, WindowSize), w, S)
      /\ Len(LastN(w, WindowSize)) = IF Len(w) < WindowSize THEN Len(w) ELSE WindowSize
  BY <1>0, LastEntries
<1>5. CASE Len(t) < WindowSize
  <2>1. Slide(t, c) = Append(t, c) /\ Len(Append(t, c)) = Len(t) + 1
    BY <1>5 DEF Slide
  <2>2. IsEnd(Slide(t, c), w, S)
    BY <1>2, <1>3, <2>1, AppendedEnd
  <2>3. Len(Slide(t, c)) = Len(LastN(w, WindowSize))
    BY <1>0, <1>2, <1>3, <1>4, <1>5, <2>1
  <2> QED
    BY <1>1, <1>3, <1>4, <2>2, <2>3, EndsEqual
<1>6. CASE ~(Len(t) < WindowSize)
  <2>1. Len(t) = WindowSize /\ t # <<>>
    BY <1>0, <1>2, <1>6, EmptySeq
  <2>2. IsEnd(Tail(t), t, S) /\ Len(Tail(t)) = Len(t) - 1 /\ Tail(t) \in Seq(S)
    BY <2>1, TailIsEnd DEF IsEnd
  <2>3. IsEnd(Tail(t), s, S)
    BY <1>2, <2>2, EndOfEnd
  <2>4. Slide(t, c) = Append(Tail(t), c) /\ Len(Append(Tail(t), c)) = Len(t)
    BY <1>2, <1>6, <2>2 DEF Slide
  <2>5. IsEnd(Slide(t, c), w, S)
    BY <1>3, <2>3, <2>4, AppendedEnd
  <2>6. Len(Slide(t, c)) = Len(LastN(w, WindowSize))
    BY <1>0, <1>2, <1>3, <1>4, <2>1, <2>4
  <2> QED
    BY <1>1, <1>3, <1>4, <2>5, <2>6, EndsEqual
<1> QED
  BY <1>5, <1>6

-----------------------------------------------------------------------------
(* A decision from the window is the decision from the whole history.        *)

\* The parameters of a configuration are in the ranges of the catalogue, or
\* wider ones: the limits of an RSI are on their own sides of the neutral 50.
InRange(cfg) ==
  /\ cfg.name = "sma" =>
       {Param(cfg, "fast_period", 10), Param(cfg, "slow_period", 30)} \subseteq Nat \ {0}
  /\ cfg.name = "rsi" =>
       /\ Param(cfg, "period", 14) \in Nat \ {0}
       /\ Param(cfg, "oversold", 30) \in 0..50
       /\ Param(cfg, "overbought", 70) \in 50..99
  /\ cfg.name = "marsi" =>
       /\ {Param(cfg, "sma_period", 200), Param(cfg, "rsi_period", 14)} \subseteq Nat \ {0}
       /\ Param(cfg, "entry_rsi", 35) \in 0..50
       /\ Param(cfg, "exit_rsi", 65) \in 0..100
  /\ cfg.name = "bollinger" =>
       Param(cfg, "period", 20) \in Nat \ {0} /\ Param(cfg, "k", 2) \in Nat

Catalogued == \A cfg \in Configs : InRange(cfg)

\* The history is made of prices and the window is its end.
WindowIsEnd ==
  /\ config \in Configs
  /\ seen \in Seq(Prices)
  /\ window = LastN(seen, WindowSize)

LEMMA WindowStaysEnd == WindowIsEnd /\ [Next]_vars => WindowIsEnd'
<1> SUFFICES ASSUME WindowIsEnd, [Next]_vars PROVE WindowIsEnd'
  OBVIOUS
<1>1. ASSUME NEW close \in Prices, DeliverBar(close) PROVE WindowIsEnd'
  <2>1. /\ seen' = Append(seen, close) /\ window' = Slide(window, close)
        /\ config' = config
    BY <1>1 DEF DeliverBar
  <2>2. window' = LastN(seen', WindowSize)
    BY <2>1, SlideKeepsEnd DEF WindowIsEnd
  <2> QED
    BY <2>1, <2>2 DEF WindowIsEnd
<1>2. CASE UNCHANGED vars
  BY <1>2 DEF WindowIsEnd, vars
<1> QED
  BY <1>1, <1>2 DEF Next

LEMMA WindowStartsEmpty == Init => WindowIsEnd
<1> SUFFICES ASSUME Init PROVE WindowIsEnd
  OBVIOUS
<1>1. <<>> \in Seq(Prices) /\ Len(<<>>) = 0 /\ WindowSize \in Nat
  BY WindowAssumption
<1>2. IsEnd(LastN(<<>>, WindowSize), <<>>, Prices)
  BY <1>1, LastEntries
<1>3. LastN(<<>>, WindowSize) \in Seq(Prices) /\ Len(LastN(<<>>, WindowSize)) = 0
  <2>1. Len(LastN(<<>>, WindowSize)) \in Nat
    BY <1>2 DEF IsEnd
  <2> QED
    BY <1>1, <1>2, <2>1 DEF IsEnd
<1> QED
  BY <1>3, EmptySeq DEF Init, WindowIsEnd

\* What looks back on at most a window of closes finds them in the window.
LEMMA IndicatorsOfWindow ==
  ASSUME NEW s \in Seq(Prices), NEW n \in 0..WindowSize
  PROVE  LET w == LastN(s, WindowSize)
         IN  /\ LastN(w, n) = LastN(s, n)
             /\ Len(w) < n <=> Len(s) < n
             /\ Sma(w, n) = Sma(s, n)
             /\ n < WindowSize => Rsi(w, n) = Rsi(s, n)
             /\ \A c : FromMean(w, n, c) = FromMean(s, n, c)
             /\ \A k : SquaredHalfWidth(w, n, k) = SquaredHalfWidth(s, n, k)
<1> DEFINE w == LastN(s, WindowSize)
<1>0. WindowSize \in Nat /\ Len(s) \in Nat
  BY WindowAssumption
<1>1. \A m \in 0..WindowSize : LastN(w, m) = LastN(s, m)
  BY <1>0, LastOfLast
<1>2. \A m \in 0..WindowSize : Len(w) < m <=> Len(s) < m
  BY <1>0, LastEntries
<1> HIDE DEF w
<1>3. Sma(w, n) = Sma(s, n)
  BY <1>1, <1>2 DEF Sma
<1>4. ASSUME n < WindowSize PROVE Rsi(w, n) = Rsi(s, n)
  <2>1. n + 1 \in 0..WindowSize
    BY <1>0, <1>4
  <2>2. LastN(w, n + 1) = LastN(s, n + 1) /\ (Len(w) < n + 1 <=> Len(s) < n + 1)
    BY <1>1, <1>2, <2>1
  <2> QED
    BY <2>2 DEF Rsi
<1>5. \A c : FromMean(w, n, c) = FromMean(s, n, c)
  BY <1>1 DEF FromMean
<1>6. \A k : SquaredHalfWidth(w, n, k) = SquaredHalfWidth(s, n, k)
  BY <1>1 DEF SquaredHalfWidth
<1> QED
  BY <1>1, <1>2, <1>3, <1>4, <1>5, <1>6 DEF w

\* What each strategy looks back on is no more than Needed, which is one of
\* its periods.
LEMMA NeededOf ==
  ASSUME Catalogued, config \in Configs
  PROVE  /\ config.name \in {"sma", "rsi", "marsi", "bollinger"} /\ InRange(config)
         /\ Needed \in Nat
         /\ config.name = "sma" =>
              Needed = IF Param(config, "fast_period", 10) >= Param(config, "slow_period", 30)
                       THEN Param(config, "fast_period", 10)
                       ELSE Param(config, "slow_period", 30)
         /\ config.name = "rsi" => Needed = Param(config, "period", 14) + 1
         /\ config.name = "marsi" =>
              Needed = IF Param(config, "sma_period", 200)
                            >= Param(config, "rsi_period", 14) + 1
                       THEN Param(config, "sma_period", 200)
                       ELSE Param(config, "rsi_period", 14) + 1
         /\ config.name = "bollinger" => Needed = Param(config, "period", 20)
<1>1. config.name \in {"sma", "rsi", "marsi", "bollinger"} /\ InRange(config)
  BY SignalsAssumption DEF Catalogued
<1>2. CASE config.name = "sma"
  <2>1. Param(config, "fast_period", 10) \in Nat /\ Param(config, "slow_period", 30) \in Nat
    BY <1>1, <1>2 DEF InRange
  <2>2. Needed = Max({Param(config, "fast_period", 10), Param(config, "slow_period", 30)})
    BY <1>2 DEF Needed
  <2> QED
    BY <1>1, <1>2, <2>1, <2>2, MaxOfTwo
<1>3. CASE config.name = "rsi"
  BY <1>1, <1>3 DEF Needed, InRange
<1>4. CASE config.name = "marsi"
  <2>1. Param(config, "sma_period", 200) \in Nat /\ Param(config, "rsi_period", 14) \in Nat
    BY <1>1, <1>4 DEF InRange
  <2>2. Needed = Max({Param(config, "sma_period", 200), Param(config, "rsi_period", 14) + 1})
    BY <1>4 DEF Needed
  <2> QED
    BY <1>1, <1>4, <2>1, <2>2, MaxOfTwo
<1>5. CASE config.name = "bollinger"
  BY <1>1, <1>5 DEF Needed, InRange
<1> QED
  BY <1>1, <1>2, <1>3, <1>4, <1>5

\* Strategy by strategy: the indicators are the same, so is the decision.
LEMMA SameDecision ==
  ASSUME Catalogued, config \in Configs, Needed <= WindowSize,
         NEW s \in Seq(Prices), NEW close, NEW p
  PROVE  CalculateSignals(config, LastN(s, WindowSize), close, p)
           = CalculateSignals(config, s, close, p)
<1> DEFINE w == LastN(s, WindowSize)
<1>0. WindowSize \in Nat /\ Needed \in Nat
  BY WindowAssumption, NeededOf
<1>1. CASE config.name = "sma"
  <2> DEFINE fast == Param(config, "fast_period", 10)
             slow == Param(config, "slow_period", 30)
  <2>1. fast \in 0..WindowSize /\ slow \in 0..WindowSize
    BY <1>0, <1>1, NeededOf DEF InRange
  <2>2. \A c : CalculateSignals(config, c, close, p) = SmaStrategy(fast, slow, c, close, p)
    BY <1>1 DEF CalculateSignals
  <2> HIDE DEF fast, slow
  <2>3. Sma(w, fast) = Sma(s, fast) /\ Sma(w, slow) = Sma(s, slow)
    BY <2>1, IndicatorsOfWindow
  <2> HIDE DEF w
  <2>4. SmaStrategy(fast, slow, w, close, p) = SmaStrategy(fast, slow, s, close, p)
    BY <2>3 DEF SmaStrategy
  <2> QED
    BY <2>2, <2>4 DEF w
<1>2. CASE config.name = "rsi"
  <2> DEFINE n    == Param(config, "period", 14)
             low  == Param(config, "oversold", 30)
             high == Param(config, "overbought", 70)
  <2>1. n \in 0..WindowSize /\ n < WindowSize
    BY <1>0, <1>2, NeededOf DEF InRange
  <2>2. \A c : CalculateSignals(config, c, close, p) = RsiStrategy(n, low, high, c, close, p)
    BY <1>2 DEF CalculateSignals
  <2> HIDE DEF n, low, high
  <2>3. Rsi(w, n) = Rsi(s, n)
    BY <2>1, IndicatorsOfWindow
  <2> HIDE DEF w
  <2>4. RsiStrategy(n, low, high, w, close, p) = RsiStrategy(n, low, high, s, close, p)
    BY <2>3 DEF RsiStrategy
  <2> QED
    BY <2>2, <2>4 DEF w
<1>3. CASE config.name = "marsi"
  <2> DEFINE m    == Param(config, "sma_period", 200)
             n    == Param(config, "rsi_period", 14)
             low  == Param(config, "entry_rsi", 35)
             high == Param(config, "exit_rsi", 65)
  <2>1. n \in 0..WindowSize /\ n < WindowSize /\ m \in 0..WindowSize
    BY <1>0, <1>3, NeededOf DEF InRange
  <2>2. \A c : CalculateSignals(config, c, close, p)
                 = MaRsiStrategy(m, n, low, high, c, close, p)
    BY <1>3 DEF CalculateSignals
  <2> HIDE DEF m, n, low, high
  <2>3. Sma(w, m) = Sma(s, m) /\ Rsi(w, n) = Rsi(s, n)
    BY <2>1, IndicatorsOfWindow
  <2> HIDE DEF w
  <2>4. MaRsiStrategy(m, n, low, high, w, close, p) = MaRsiStrategy(m, n, low, high, s, close, p)
    BY <2>3 DEF MaRsiStrategy
  <2> QED
    BY <2>2, <2>4 DEF w
<1>4. CASE config.name = "bollinger"
  <2> DEFINE n == Param(config, "period", 20)
             k == Param(config, "k", 2)
  <2>1. n \in 0..WindowSize
    BY <1>0, <1>4, NeededOf DEF InRange
  <2>2. \A c : CalculateSignals(config, c, close, p) = BollingerStrategy(n, k, c, close, p)
    BY <1>4 DEF CalculateSignals
  <2> HIDE DEF n, k
  <2>3. /\ Len(w) < n <=> Len(s) < n
        /\ FromMean(w, n, close) = FromMean(s, n, close)
        /\ SquaredHalfWidth(w, n, k) = SquaredHalfWidth(s, n, k)
    BY <2>1, IndicatorsOfWindow
  <2>4. Len(w) \in Nat /\ Len(s) \in Nat /\ n \in Nat
    BY <1>0, <2>1, LastEntries DEF IsEnd
  <2> HIDE DEF w
  <2>5. BollingerStrategy(n, k, w, close, p) = BollingerStrategy(n, k, s, close, p)
    BY <2>3, <2>4 DEF BollingerStrategy
  <2> QED
    BY <2>2, <2>5 DEF w
<1> QED
  BY <1>1, <1>2, <1>3, <1>4, NeededOf

\* The window is long enough: a strategy whose periods fit decides from the
\* window as it would from the whole history (DataHandler.cpp:116-120), for
\* windows of every size and every history.
THEOREM WindowIsEnough ==
  ASSUME Catalogued
  PROVE  Spec => WindowSuffices
<1>1. ASSUME WindowIsEnd, Next, Needed <= WindowSize
      PROVE  LET close == seen'[Len(seen')]
             IN  CalculateSignals(config, window', close, pos)
                   = CalculateSignals(config, seen', close, pos)
  <2>1. WindowIsEnd'
    BY <1>1, WindowStaysEnd
  <2>2. config \in Configs /\ seen' \in Seq(Prices) /\ window' = LastN(seen', WindowSize)
    BY <1>1, <2>1 DEF WindowIsEnd
  <2> QED
    BY <1>1, <2>2, SameDecision
<1>2. WindowIsEnd /\ [Next]_vars =>
        [Needed <= WindowSize =>
           LET close == seen'[Len(seen')]
           IN  CalculateSignals(config, window', close, pos)
                 = CalculateSignals(config, seen', close, pos)]_vars
  BY <1>1
<1> QED
  BY <1>2, WindowStartsEmpty, WindowStaysEnd, PTL DEF Spec, WindowSuffices

-----------------------------------------------------------------------------
(* A strategy without its history.                                          *)

\* The lengths of history a configured strategy asks for.
LooksBack(cfg) ==
  CASE cfg.name = "sma" ->
         {Param(cfg, "fast_period", 10), Param(cfg, "slow_period", 30)}
    [] cfg.name = "rsi" -> {Param(cfg, "period", 14) + 1}
    [] cfg.name = "marsi" ->
         {Param(cfg, "sma_period", 200), Param(cfg, "rsi_period", 14) + 1}
    [] cfg.name = "bollinger" -> {Param(cfg, "period", 20)}

\* One indicator short of history is enough to keep a strategy without a
\* position silent: the 0 of an average and the 50 of an RSI pass no limit.
LEMMA ShortHistoryIsQuiet ==
  ASSUME Catalogued, NEW cfg \in Configs, NEW closes, Len(closes) \in Nat, NEW close,
         NEW n \in LooksBack(cfg), Len(closes) < n
  PROVE  CalculateSignals(cfg, closes, close, 0) = Quiet(0)
<1>0. cfg.name \in {"sma", "rsi", "marsi", "bollinger"} /\ InRange(cfg)
  BY SignalsAssumption DEF Catalogued
<1>1. \A m : Len(closes) < m => Sma(closes, m).n = 0
  BY DEF Sma, Zero
<1>2. \A m : Len(closes) < m + 1 => Rsi(closes, m) = [n |-> 50, d |-> 1]
  BY DEF Rsi
<1>3. CASE cfg.name = "sma"
  <2> DEFINE fast == Param(cfg, "fast_period", 10)
             slow == Param(cfg, "slow_period", 30)
  <2>1. CalculateSignals(cfg, closes, close, 0) = SmaStrategy(fast, slow, closes, close, 0)
    BY <1>3 DEF CalculateSignals
  <2>2. n \in {fast, slow}
    BY <1>3 DEF LooksBack
  <2> HIDE DEF fast, slow
  <2>3. Sma(closes, fast).n = 0 \/ Sma(closes, slow).n = 0
    BY <1>1, <2>2
  <2> QED
    BY <2>1, <2>3 DEF SmaStrategy
<1>4. CASE cfg.name = "rsi"
  <2> DEFINE m    == Param(cfg, "period", 14)
             low  == Param(cfg, "oversold", 30)
             high == Param(cfg, "overbought", 70)
  <2>1. CalculateSignals(cfg, closes, close, 0) = RsiStrategy(m, low, high, closes, close, 0)
    BY <1>4 DEF CalculateSignals
  <2>2. n = m + 1 /\ low \in 0..50 /\ high \in 50..99
    BY <1>0, <1>4 DEF LooksBack, InRange
  <2> HIDE DEF m, low, high
  <2>3. Rsi(closes, m) = [n |-> 50, d |-> 1]
    BY <1>2, <2>2
  <2>4. ~Below([n |-> 50, d |-> 1], low) /\ ~(50 > high * 1)
    BY <2>2 DEF Below
  <2> QED
    BY <2>1, <2>3, <2>4 DEF RsiStrategy
<1>5. CASE cfg.name = "marsi"
  <2> DEFINE k    == Param(cfg, "sma_period", 200)
             m    == Param(cfg, "rsi_period", 14)
             low  == Param(cfg, "entry_rsi", 35)
             high == Param(cfg, "exit_rsi", 65)
  <2>1. CalculateSignals(cfg, closes, close, 0)
          = MaRsiStrategy(k, m, low, high, closes, close, 0)
    BY <1>5 DEF CalculateSignals
  <2>2. n \in {k, m + 1} /\ low \in 0..50
    BY <1>0, <1>5 DEF LooksBack, InRange
  <2> HIDE DEF k, m, low, high
  <2>3. CASE n = k
    <3>1. Sma(closes, k).n = 0
      BY <1>1, <2>3
    <3> QED
      BY <2>1, <3>1 DEF MaRsiStrategy
  <2>4. CASE n = m + 1
    <3>1. Rsi(closes, m) = [n |-> 50, d |-> 1]
      BY <1>2, <2>4
    <3>2. ~Below([n |-> 50, d |-> 1], low)
      BY <2>2 DEF Below
    <3> QED
      BY <2>1, <3>1, <3>2 DEF MaRsiStrategy
  <2> QED
    BY <2>2, <2>3, <2>4
<1>6. CASE cfg.name = "bollinger"
  <2> DEFINE m == Param(cfg, "period", 20)
             k == Param(cfg, "k", 2)
  <2>1. CalculateSignals(cfg, closes, close, 0) = BollingerStrategy(m, k, closes, close, 0)
    BY <1>6 DEF CalculateSignals
  <2>2. n = m /\ m \in Nat
    BY <1>0, <1>6 DEF LooksBack, InRange
  <2> HIDE DEF m, k
  <2>3. ~(Len(closes) >= m)
    BY <2>2
  <2> QED
    BY <2>1, <2>3 DEF BollingerStrategy
<1> QED
  BY <1>0, <1>3, <1>4, <1>5, <1>6

\* Without a single close no strategy of the catalogue does anything
\* (Strategy.cpp:37-38, 59-60): what module BacktestProofs assumes of the
\* strategy that a lost symbol is given.
LEMMA QuietOnNothing ==
  ASSUME Catalogued, NEW cfg \in Configs, NEW close
  PROVE  CalculateSignals(cfg, <<>>, close, 0) = Quiet(0)
<1>1. cfg.name \in {"sma", "rsi", "marsi", "bollinger"} /\ InRange(cfg)
  BY SignalsAssumption DEF Catalogued
<1>2. PICK n \in LooksBack(cfg) : n \in Nat \ {0}
  BY <1>1 DEF LooksBack, InRange
<1>3. Len(<<>>) = 0
  OBVIOUS
<1> QED
  BY <1>2, <1>3, ShortHistoryIsQuiet

-----------------------------------------------------------------------------
(* What a decision is.                                                      *)

\* The position that a signal announces.
PositionAfter(direction) ==
  CASE direction = "LONG" -> 1 [] direction = "SHORT" -> -1 [] direction = "FLAT" -> 0

\* A signal changes the remembered position and says to what, with a proper
\* strength; without a signal the position stays.
SoundDecision(answer, p) ==
  /\ answer.emit \in BOOLEAN /\ answer.pos \in Positions
  /\ answer.direction \in {"LONG", "FLAT", "SHORT"}
  /\ answer.emit => /\ answer.pos = PositionAfter(answer.direction) /\ answer.pos # p
                    /\ ProperStrength(answer.strength)
  /\ ~answer.emit => answer.pos = p

LEMMA QuietIsSound ==
  ASSUME NEW p \in Positions
  PROVE  SoundDecision(Quiet(p), p)
BY DEF SoundDecision, Quiet

LEMMA SignalIsSound ==
  ASSUME NEW p \in Positions, NEW direction \in {"LONG", "FLAT", "SHORT"}, NEW strength,
         ProperStrength(strength), p # PositionAfter(direction)
  PROVE  SoundDecision(EmitSignal(direction, strength, PositionAfter(direction)), p)
BY DEF SoundDecision, EmitSignal, PositionAfter, Positions

LEMMA OneIsProper == ProperStrength(One)
BY DEF ProperStrength, One, Fraction

LEMMA CappedIsProper ==
  ASSUME NEW n \in Nat, NEW d \in Nat \ {0}
  PROVE  ProperStrength(AtMostOne(Rat(n, d)))
<1>1. PICK x \in Fraction : x = Rat(n, d) /\ 0 <= x.n
  BY RatReduces, RatProper
<1>2. x.n \in Int /\ x.d \in Int
  BY DEF Fraction
<1>3. CASE Less(x, One)
  <2>1. x.n < x.d
    BY <1>2, <1>3 DEF Less, One
  <2> QED
    BY <1>1, <1>2, <1>3, <2>1 DEF AtMostOne, ProperStrength
<1>4. CASE ~Less(x, One)
  BY <1>1, <1>4, OneIsProper DEF AtMostOne
<1> QED
  BY <1>3, <1>4

-----------------------------------------------------------------------------
(* The values of the indicators.                                            *)

LEMMA LastNPrices ==
  ASSUME NEW closes \in Seq(Nat \ {0}), NEW n \in Nat
  PROVE  LastN(closes, n) \in Seq(Nat)
<1>1. LastN(closes, n) \in Seq(Nat \ {0})
  BY LastEntries DEF IsEnd
<1> QED
  BY <1>1

\* An average of prices is a fraction that is not negative.
LEMMA SmaType ==
  ASSUME NEW closes \in Seq(Nat \ {0}), NEW n \in Nat \ {0}
  PROVE  Sma(closes, n).n \in Nat /\ Sma(closes, n).d \in Nat \ {0}
<1>1. CASE Len(closes) < n
  <2>1. Sma(closes, n) = Zero
    BY <1>1 DEF Sma
  <2>2. Zero.n = 0 /\ Zero.d = 1
    BY DEF Zero
  <2> QED
    BY <2>1, <2>2
<1>2. CASE ~(Len(closes) < n)
  <2>1. FoldSeq(+, 0, LastN(closes, n)) \in Nat
    BY LastNPrices, SequenceSum
  <2>2. PICK sum \in Nat : sum = FoldSeq(+, 0, LastN(closes, n))
    BY <2>1
  <2>3. Sma(closes, n) = Rat(sum, n)
    BY <1>2, <2>2 DEF Sma
  <2>4. 0 <= Rat(sum, n).n /\ Rat(sum, n).n \in Int /\ Rat(sum, n).d \in Nat \ {0}
    BY RatProper
  <2> QED
    BY <2>3, <2>4
<1> QED
  BY <1>1, <1>2

\* An RSI is between 0 and 100 (Strategy.cpp:55-81).
LEMMA RsiRange ==
  ASSUME NEW closes \in Seq(Nat \ {0}), NEW n \in Nat \ {0}
  PROVE  LET r == Rsi(closes, n)
         IN  r.n \in Nat /\ r.d \in Nat \ {0} /\ r.n <= 100 * r.d
<1> DEFINE bars == LastN(closes, n + 1)
           ups == [i \in 1..n |-> Max({bars[i + 1] - bars[i], 0})]
           downs == [i \in 1..n |-> Max({-(bars[i + 1] - bars[i]), 0})]
           gain == FoldSeq(+, 0, ups)
           loss == FoldSeq(+, 0, downs)
<1>0. Len(closes) \in Nat
  OBVIOUS
<1>1. CASE Len(closes) < n + 1
  <2>1. Rsi(closes, n) = [n |-> 50, d |-> 1]
    BY <1>1 DEF Rsi
  <2>2. [n |-> 50, d |-> 1].n = 50 /\ [n |-> 50, d |-> 1].d = 1
    OBVIOUS
  <2> QED
    BY <2>1, <2>2
<1>2. CASE ~(Len(closes) < n + 1)
  <2>1. bars \in Seq(Nat) /\ Len(bars) = n + 1
    BY <1>0, <1>2, LastNPrices, LastEntries
  <2> HIDE DEF bars
  <2>2. \A i \in 1..n : bars[i + 1] - bars[i] \in Int
    <3> SUFFICES ASSUME NEW i \in 1..n PROVE bars[i + 1] - bars[i] \in Int
      OBVIOUS
    <3>1. i \in 1..Len(bars) /\ i + 1 \in 1..Len(bars)
      BY <2>1
    <3> QED
      BY <2>1, <3>1
  <2>3. \A x \in Int : Max({x, 0}) \in Nat
    BY MaxOfTwo
  <2>4. ups \in Seq(Nat) /\ downs \in Seq(Nat)
    <3>1. \A i \in 1..n : /\ Max({bars[i + 1] - bars[i], 0}) \in Nat
                          /\ Max({-(bars[i + 1] - bars[i]), 0}) \in Nat
      BY <2>2, <2>3
    <3>2. ups \in [1..n -> Nat] /\ downs \in [1..n -> Nat]
      BY <3>1
    <3> QED
      BY <3>2
  <2>5. gain \in Nat /\ loss \in Nat
    BY <2>4, SequenceSum
  <2>6. Rsi(closes, n) = IF loss = 0 THEN [n |-> 100, d |-> 1]
                         ELSE Rat(100 * gain, gain + loss)
    BY <1>2 DEF Rsi, bars
  <2> HIDE DEF ups, downs, gain, loss
  <2>7. CASE loss = 0
    <3>1. Rsi(closes, n) = [n |-> 100, d |-> 1]
      BY <2>6, <2>7
    <3>2. [n |-> 100, d |-> 1].n = 100 /\ [n |-> 100, d |-> 1].d = 1
      OBVIOUS
    <3> QED
      BY <3>1, <3>2
  <2>8. CASE loss # 0
    <3>1. PICK r : r = Rsi(closes, n)
      OBVIOUS
    <3>2. r = Rat(100 * gain, gain + loss) /\ gain + loss \in Nat \ {0} /\ 100 * gain \in Nat
      BY <2>5, <2>6, <2>8, <3>1
    <3>3. r.n \in Nat /\ r.d \in Nat \ {0}
      BY <3>2, RatProper
    <3>4. PICK g \in Nat \ {0} : 100 * gain = g * r.n /\ gain + loss = g * r.d
      BY <3>2, RatReduces
    <3>5. g * r.n <= g * (100 * r.d)
      <4>1. g * (100 * r.d) = 100 * (g * r.d)
        BY <3>3
      <4> QED
        BY <2>5, <3>4, <4>1
    <3>6. r.n <= 100 * r.d
      <4>1. r.n \in Int /\ 100 * r.d \in Int
        BY <3>3
      <4> QED
        BY <3>5, <4>1, CommonDivisor
    <3> QED
      BY <3>1, <3>3, <3>6
  <2> QED
    BY <2>7, <2>8
<1> QED
  BY <1>1, <1>2

-----------------------------------------------------------------------------
(* Strategy by strategy, decisions are sound.                               *)

LEMMA SmaStrategySound ==
  ASSUME NEW closes \in Seq(Nat \ {0}), NEW fast \in Nat \ {0}, NEW slow \in Nat \ {0},
         NEW close, NEW p \in Positions
  PROVE  SoundDecision(SmaStrategy(fast, slow, closes, close, p), p)
<1> DEFINE f == Sma(closes, fast)
           s == Sma(closes, slow)
           new_pos == IF Less(s, f) THEN 1 ELSE -1
           gap == MagnitudeOf(f.n * s.d - s.n * f.d)
           strength == AtMostOne(Rat(100 * gap, f.d * s.n))
           quiet == f.n = 0 \/ s.n = 0 \/ new_pos = p
<1>1. f.n \in Nat /\ f.d \in Nat \ {0} /\ s.n \in Nat /\ s.d \in Nat \ {0}
  BY SmaType
<1>2. SmaStrategy(fast, slow, closes, close, p)
        = IF quiet THEN Quiet(p)
          ELSE EmitSignal(IF new_pos = 1 THEN "LONG" ELSE "SHORT", strength, new_pos)
  BY DEF SmaStrategy
<1>3. CASE quiet
  BY <1>2, <1>3, QuietIsSound
<1>4. CASE ~quiet
  <2>1. 100 * gap \in Nat
    <3>1. f.n * s.d - s.n * f.d \in Int
      BY <1>1
    <3> HIDE DEF f, s
    <3> QED
      BY <3>1 DEF MagnitudeOf
  <2>2. f.d * s.n \in Nat \ {0}
    BY <1>1, <1>4, PositiveProduct
  <2> HIDE DEF gap
  <2>3. ProperStrength(strength)
    BY <2>1, <2>2, CappedIsProper
  <2>4. PICK direction \in {"LONG", "SHORT"} :
           /\ direction = IF new_pos = 1 THEN "LONG" ELSE "SHORT"
           /\ new_pos = PositionAfter(direction)
    BY DEF PositionAfter
  <2>5. SmaStrategy(fast, slow, closes, close, p)
          = EmitSignal(direction, strength, PositionAfter(direction))
    BY <1>2, <1>4, <2>4
  <2>6. p # PositionAfter(direction)
    BY <1>4, <2>4
  <2> HIDE DEF strength, new_pos
  <2> QED
    BY <2>3, <2>5, <2>6, SignalIsSound
<1> QED
  BY <1>3, <1>4

\* The two strengths of an RSI are proper on their sides of the limits.
LEMMA RsiStrengths ==
  ASSUME NEW r, r.n \in Nat, r.d \in Nat \ {0}, r.n <= 100 * r.d
  PROVE  /\ \A low \in Nat : Below(r, low) => ProperStrength(ShortfallBelow(r, low))
         /\ \A high \in 0..99 : r.n > high * r.d =>
              ProperStrength(Rat(r.n - high * r.d, r.d * (100 - high)))
<1>1. ASSUME NEW low \in Nat, Below(r, low) PROVE ProperStrength(ShortfallBelow(r, low))
  <2>1. PICK d \in Nat : d = low * r.d
    OBVIOUS
  <2>2. r.n < d
    BY <1>1, <2>1 DEF Below
  <2>3. ProperStrength(Rat(d - r.n, d))
    <3>1. d - r.n \in Nat /\ d \in Nat \ {0} /\ d - r.n <= d
      BY <2>2
    <3> QED
      BY <3>1, RatIsProper
  <2> QED
    BY <2>1, <2>3 DEF ShortfallBelow
<1>2. ASSUME NEW high \in 0..99, r.n > high * r.d
      PROVE  ProperStrength(Rat(r.n - high * r.d, r.d * (100 - high)))
  <2>1. PICK m \in Nat \ {0} : m = 100 - high
    OBVIOUS
  <2>2. r.d * m \in Nat \ {0}
    BY <2>1, PositiveProduct
  <2>3. PICK a \in Nat, b \in Nat : a = high * r.d /\ b = r.d * m
    OBVIOUS
  <2>4. a + b = 100 * r.d
    BY <2>1, <2>3
  <2>5. r.n - a \in Nat /\ r.n - a <= b
    <3>1. PICK x \in Nat : x = r.n
      OBVIOUS
    <3>2. x > a
      BY <1>2, <2>3, <3>1
    <3>3. x <= a + b
      BY <2>4, <3>1
    <3>4. x - a \in Nat /\ x - a <= b
      BY <3>2, <3>3
    <3> QED
      BY <3>1, <3>4
  <2> QED
    BY <2>1, <2>2, <2>3, <2>5, RatIsProper
<1> QED
  BY <1>1, <1>2

LEMMA RsiStrategySound ==
  ASSUME NEW closes \in Seq(Nat \ {0}), NEW period \in Nat \ {0},
         NEW oversold \in Nat, NEW overbought \in 0..99,
         NEW close, NEW p \in Positions
  PROVE  SoundDecision(RsiStrategy(period, oversold, overbought, closes, close, p), p)
<1> DEFINE answer == RsiStrategy(period, oversold, overbought, closes, close, p)
<1>1. PICK r : r = Rsi(closes, period)
  OBVIOUS
<1>2. r.n \in Nat /\ r.d \in Nat \ {0} /\ r.n <= 100 * r.d
  BY <1>1, RsiRange
<1> DEFINE excess == Rat(r.n - overbought * r.d, r.d * (100 - overbought))
           buys == Below(r, oversold) /\ p # 1
           sells == ~buys /\ r.n > overbought * r.d /\ p # -1
<1>3. answer = CASE buys -> EmitSignal("LONG", ShortfallBelow(r, oversold), 1)
                 [] sells -> EmitSignal("SHORT", excess, -1)
                 [] OTHER -> Quiet(p)
  BY <1>1 DEF RsiStrategy
<1>4. PositionAfter("LONG") = 1 /\ PositionAfter("SHORT") = -1
  BY DEF PositionAfter
<1>5. CASE buys
  <2>1. ProperStrength(ShortfallBelow(r, oversold)) /\ p # PositionAfter("LONG")
    BY <1>2, <1>4, <1>5, RsiStrengths
  <2>2. answer = EmitSignal("LONG", ShortfallBelow(r, oversold), PositionAfter("LONG"))
    BY <1>3, <1>4, <1>5
  <2> QED
    BY <2>1, <2>2, SignalIsSound
<1>6. CASE sells
  <2>1. ProperStrength(excess) /\ p # PositionAfter("SHORT")
    BY <1>2, <1>4, <1>6, RsiStrengths
  <2> HIDE DEF excess
  <2>2. answer = EmitSignal("SHORT", excess, PositionAfter("SHORT"))
    BY <1>3, <1>4, <1>6
  <2> QED
    BY <2>1, <2>2, SignalIsSound
<1>7. CASE ~buys /\ ~sells
  <2>1. answer = Quiet(p)
    BY <1>3, <1>7
  <2> QED
    BY <2>1, QuietIsSound
<1> QED
  BY <1>5, <1>6, <1>7

LEMMA MaRsiStrategySound ==
  ASSUME NEW closes \in Seq(Nat \ {0}), NEW sma \in Nat \ {0}, NEW rsi \in Nat \ {0},
         NEW entry \in Nat, NEW exit, NEW close, NEW p \in Positions
  PROVE  SoundDecision(MaRsiStrategy(sma, rsi, entry, exit, closes, close, p), p)
<1> DEFINE answer == MaRsiStrategy(sma, rsi, entry, exit, closes, close, p)
<1>1. PICK r, m : r = Rsi(closes, rsi) /\ m = Sma(closes, sma)
  OBVIOUS
<1>2. r.n \in Nat /\ r.d \in Nat \ {0} /\ r.n <= 100 * r.d
  BY <1>1, RsiRange
<1> DEFINE above == close * m.d > m.n
           enters == above /\ Below(r, entry) /\ p # 1
           leaves == (~above \/ r.n > exit * r.d) /\ p = 1
<1>3. answer = CASE m.n = 0 -> Quiet(p)
                 [] m.n # 0 /\ enters -> EmitSignal("LONG", ShortfallBelow(r, entry), 1)
                 [] m.n # 0 /\ ~enters /\ leaves -> EmitSignal("FLAT", One, 0)
                 [] OTHER -> Quiet(p)
  BY <1>1 DEF MaRsiStrategy
<1>4. PositionAfter("LONG") = 1 /\ PositionAfter("FLAT") = 0
  BY DEF PositionAfter
<1> HIDE DEF answer, above
<1>5. CASE m.n # 0 /\ enters
  <2>1. ProperStrength(ShortfallBelow(r, entry)) /\ p # PositionAfter("LONG")
    BY <1>2, <1>4, <1>5, RsiStrengths
  <2>2. answer = EmitSignal("LONG", ShortfallBelow(r, entry), PositionAfter("LONG"))
    BY <1>3, <1>4, <1>5
  <2> QED
    BY <2>1, <2>2, SignalIsSound DEF answer
<1>6. CASE m.n # 0 /\ ~enters /\ leaves
  <2>1. p # PositionAfter("FLAT")
    BY <1>4, <1>6
  <2>2. answer = EmitSignal("FLAT", One, PositionAfter("FLAT"))
    BY <1>3, <1>4, <1>6
  <2> QED
    BY <2>1, <2>2, SignalIsSound, OneIsProper DEF answer
<1>7. CASE m.n = 0 \/ (~enters /\ ~leaves)
  <2>1. answer = Quiet(p)
    BY <1>3, <1>7
  <2> QED
    BY <2>1, QuietIsSound DEF answer
<1> QED
  BY <1>5, <1>6, <1>7 DEF answer

\* The tenths of a Bollinger strength: 0 of them are always allowed when the
\* close is outside the bands, and never more than 10 are.
LEMMA TenthsProper ==
  ASSUME NEW far \in Int, NEW half \in Int, far * far > half
  PROVE  LET tenths == {i \in 0..10 : 100 * far * far >= (10 + i) * (10 + i) * half}
         IN  ProperStrength(Rat(Max(tenths), 10))
<1> DEFINE tenths == {i \in 0..10 : 100 * far * far >= (10 + i) * (10 + i) * half}
<1>1. 0 \in tenths
  <2>1. 100 * far * far = 100 * (far * far)
    OBVIOUS
  <2>2. (10 + 0) * (10 + 0) * half = 100 * half
    OBVIOUS
  <2>3. PICK q \in Int : q = far * far
    OBVIOUS
  <2> QED
    BY <2>1, <2>2, <2>3
<1>2. tenths \subseteq 0..10
  OBVIOUS
<1> HIDE DEF tenths
<1>3. Max(tenths) \in 0..10
  <2>1. tenths \subseteq Int /\ tenths # {} /\ \A x \in tenths : x <= 10
    BY <1>1, <1>2
  <2>2. 10 \in Int
    OBVIOUS
  <2>3. Max(tenths) \in tenths
    BY <2>1, <2>2, MaxOfBounded
  <2> QED
    BY <1>2, <2>3
<1>4. ProperStrength(Rat(Max(tenths), 10))
  <2>1. PICK m \in 0..10 : m = Max(tenths)
    BY <1>3
  <2>2. m \in Nat /\ m <= 10 /\ 10 \in Nat \ {0}
    OBVIOUS
  <2> QED
    BY <2>1, <2>2, RatIsProper
<1> QED
  BY <1>4 DEF tenths

LEMMA BollingerStrategySound ==
  ASSUME NEW closes \in Seq(Nat \ {0}), NEW n \in Nat \ {0}, NEW k \in Nat,
         NEW close \in Int, NEW p \in Positions
  PROVE  SoundDecision(BollingerStrategy(n, k, closes, close, p), p)
<1> DEFINE answer == BollingerStrategy(n, k, closes, close, p)
<1>1. PICK far, half : far = FromMean(closes, n, close) /\ half = SquaredHalfWidth(closes, n, k)
  OBVIOUS
<1>2. far \in Int
  <2>1. FoldSeq(+, 0, LastN(closes, n)) \in Nat
    BY LastNPrices, SequenceSum
  <2>2. PICK sum \in Nat : sum = FoldSeq(+, 0, LastN(closes, n))
    BY <2>1
  <2>3. far = n * close - sum
    BY <1>1, <2>2 DEF FromMean
  <2> QED
    BY <2>3
<1>3. half \in Int
  <2> DEFINE bars == LastN(closes, n)
             squared == [i \in DOMAIN bars |-> bars[i] * bars[i]]
  <2>1. bars \in Seq(Nat)
    BY LastNPrices
  <2>2. squared \in Seq(Nat)
    <3> HIDE DEF bars
    <3>1. DOMAIN bars = 1..Len(bars) /\ Len(bars) \in Nat
      BY <2>1
    <3>2. \A i \in 1..Len(bars) : bars[i] * bars[i] \in Nat
      BY <2>1
    <3>3. squared \in [1..Len(bars) -> Nat]
      BY <3>1, <3>2
    <3> QED
      BY <3>1, <3>3
  <2>3. FoldSeq(+, 0, bars) \in Nat /\ FoldSeq(+, 0, squared) \in Nat
    BY <2>1, <2>2, SequenceSum
  <2>4. PICK sum \in Nat, squares \in Nat :
           sum = FoldSeq(+, 0, bars) /\ squares = FoldSeq(+, 0, squared)
    BY <2>3
  <2>5. half = k * k * (n * squares - sum * sum)
    BY <1>1, <2>4 DEF SquaredHalfWidth
  <2>6. n * squares - sum * sum \in Int /\ k * k \in Int
    OBVIOUS
  <2> QED
    BY <2>5, <2>6
<1> DEFINE outside == far * far > half
           strength == Rat(Max({i \in 0..10 :
                                  100 * far * far >= (10 + i) * (10 + i) * half}), 10)
           ready == Len(closes) >= n
           leaves == (far > 0 /\ p = 1) \/ (far < 0 /\ p = -1)
           buys == ready /\ outside /\ far < 0 /\ p # 1
           sells == ready /\ outside /\ far > 0 /\ p # -1
           flattens == ready /\ ~outside /\ leaves
<1>4. answer = CASE buys -> EmitSignal("LONG", strength, 1)
                 [] sells -> EmitSignal("SHORT", strength, -1)
                 [] flattens -> EmitSignal("FLAT", One, 0)
                 [] OTHER -> Quiet(p)
  BY <1>1 DEF BollingerStrategy
<1>5. PositionAfter("LONG") = 1 /\ PositionAfter("SHORT") = -1 /\ PositionAfter("FLAT") = 0
  BY DEF PositionAfter
<1>6. outside => ProperStrength(strength)
  BY <1>2, <1>3, TenthsProper
<1>7. ~(buys /\ sells) /\ ~(buys /\ flattens) /\ ~(sells /\ flattens)
  BY <1>2
<1> HIDE DEF strength, answer
<1>8. CASE buys
  <2>1. answer = EmitSignal("LONG", strength, PositionAfter("LONG"))
    BY <1>4, <1>5, <1>7, <1>8
  <2> QED
    BY <1>5, <1>6, <1>8, <2>1, SignalIsSound DEF answer
<1>9. CASE sells
  <2>1. answer = EmitSignal("SHORT", strength, PositionAfter("SHORT"))
    BY <1>4, <1>5, <1>7, <1>9
  <2> QED
    BY <1>5, <1>6, <1>9, <2>1, SignalIsSound DEF answer
<1>10. CASE flattens
  <2>1. answer = EmitSignal("FLAT", One, PositionAfter("FLAT"))
    BY <1>4, <1>5, <1>7, <1>10
  <2> QED
    BY <1>5, <1>10, <2>1, SignalIsSound, OneIsProper DEF answer
<1>11. CASE ~buys /\ ~sells /\ ~flattens
  <2>1. answer = Quiet(p)
    BY <1>4, <1>11
  <2> QED
    BY <2>1, QuietIsSound DEF answer
<1> QED
  BY <1>8, <1>9, <1>10, <1>11 DEF answer

\* Whatever make_strategy builds decides soundly.
LEMMA DecisionsSound ==
  ASSUME Catalogued, NEW cfg \in Configs, NEW closes \in Seq(Prices),
         NEW close \in Prices, NEW p \in Positions
  PROVE  SoundDecision(CalculateSignals(cfg, closes, close, p), p)
<1>0. cfg.name \in {"sma", "rsi", "marsi", "bollinger"} /\ InRange(cfg)
  BY SignalsAssumption DEF Catalogued
<1>1. closes \in Seq(Nat \ {0}) /\ close \in Int
  <2>1. Prices \subseteq Nat \ {0}
    BY SignalsAssumption
  <2>2. closes \in [1..Len(closes) -> Prices] /\ Len(closes) \in Nat
    OBVIOUS
  <2>3. closes \in [1..Len(closes) -> Nat \ {0}]
    BY <2>1, <2>2
  <2> QED
    BY <2>1, <2>2, <2>3
<1>2. CASE cfg.name = "sma"
  <2> DEFINE fast == Param(cfg, "fast_period", 10)
             slow == Param(cfg, "slow_period", 30)
  <2>1. fast \in Nat \ {0} /\ slow \in Nat \ {0}
    BY <1>0, <1>2 DEF InRange
  <2>2. CalculateSignals(cfg, closes, close, p) = SmaStrategy(fast, slow, closes, close, p)
    BY <1>2 DEF CalculateSignals
  <2> HIDE DEF fast, slow
  <2> QED
    BY <1>1, <2>1, <2>2, SmaStrategySound
<1>3. CASE cfg.name = "rsi"
  <2> DEFINE m    == Param(cfg, "period", 14)
             low  == Param(cfg, "oversold", 30)
             high == Param(cfg, "overbought", 70)
  <2>1. m \in Nat \ {0} /\ low \in 0..50 /\ high \in 50..99
    BY <1>0, <1>3 DEF InRange
  <2>2. CalculateSignals(cfg, closes, close, p) = RsiStrategy(m, low, high, closes, close, p)
    BY <1>3 DEF CalculateSignals
  <2> HIDE DEF m, low, high
  <2>3. low \in Nat /\ high \in 0..99
    BY <2>1
  <2> QED
    BY <1>1, <2>1, <2>2, <2>3, RsiStrategySound
<1>4. CASE cfg.name = "marsi"
  <2> DEFINE m    == Param(cfg, "sma_period", 200)
             n    == Param(cfg, "rsi_period", 14)
             low  == Param(cfg, "entry_rsi", 35)
             high == Param(cfg, "exit_rsi", 65)
  <2>1. m \in Nat \ {0} /\ n \in Nat \ {0} /\ low \in 0..50
    BY <1>0, <1>4 DEF InRange
  <2>2. CalculateSignals(cfg, closes, close, p)
          = MaRsiStrategy(m, n, low, high, closes, close, p)
    BY <1>4 DEF CalculateSignals
  <2> HIDE DEF m, n, low, high
  <2>3. low \in Nat
    BY <2>1
  <2> QED
    BY <1>1, <2>1, <2>2, <2>3, MaRsiStrategySound
<1>5. CASE cfg.name = "bollinger"
  <2> DEFINE n == Param(cfg, "period", 20)
             k == Param(cfg, "k", 2)
  <2>1. n \in Nat \ {0} /\ k \in Nat
    BY <1>0, <1>5 DEF InRange
  <2>2. CalculateSignals(cfg, closes, close, p) = BollingerStrategy(n, k, closes, close, p)
    BY <1>5 DEF CalculateSignals
  <2> HIDE DEF n, k
  <2> QED
    BY <1>1, <2>1, <2>2, BollingerStrategySound
<1> QED
  BY <1>0, <1>2, <1>3, <1>4, <1>5

-----------------------------------------------------------------------------
(* The history of signals.                                                  *)

SignalRecord == [bar : Nat, direction : {"LONG", "FLAT", "SHORT"}, strength : Fraction]

\* The window is the end of the history, the signals are proper and at bars of
\* the history, and the remembered position is what the last one announced.
SignalsInv ==
  /\ WindowIsEnd
  /\ pos \in Positions
  /\ signals \in Seq(SignalRecord)
  /\ \A i \in DOMAIN signals :
       signals[i].bar \in DOMAIN seen /\ ProperStrength(signals[i].strength)
  /\ pos = IF signals = <<>> THEN 0 ELSE PositionAfter(signals[Len(signals)].direction)

\* A strategy that holds a position or has signalled had its history then.
ReadyInv ==
  pos # 0 \/ signals # <<>> => Needed <= Len(seen) /\ Needed <= WindowSize

\* What a bar does: one sound decision on a window of prices.
LEMMA DeliveredDecision ==
  ASSUME Catalogued, SignalsInv, NEW close \in Prices, DeliverBar(close)
  PROVE  \E answer :
           /\ answer = CalculateSignals(config, window', close, pos)
           /\ SoundDecision(answer, pos)
           /\ pos' = answer.pos /\ config' = config /\ seen' = Append(seen, close)
           /\ ~answer.emit => signals' = signals
           /\ answer.emit =>
                signals' = Append(signals, [bar |-> Len(seen'), direction |-> answer.direction,
                                            strength |-> answer.strength])
<1>1. PICK answer : answer = CalculateSignals(config, window', close, pos)
  OBVIOUS
<1>2. WindowIsEnd'
  BY WindowStaysEnd DEF SignalsInv, Next
<1>3. window' \in Seq(Prices)
  <2>1. IsEnd(window', seen', Prices)
    BY <1>2, LastEntries, WindowAssumption DEF WindowIsEnd
  <2> QED
    BY <2>1 DEF IsEnd
<1>4. SoundDecision(answer, pos)
  BY <1>1, <1>3, DecisionsSound DEF SignalsInv, WindowIsEnd
<1> QED
  BY <1>1, <1>4 DEF DeliverBar

\* The record of a signal is a proper entry of the history.
LEMMA SignalRecorded ==
  ASSUME NEW n \in Nat, NEW answer, NEW p, SoundDecision(answer, p), answer.emit
  PROVE  [bar |-> n, direction |-> answer.direction, strength |-> answer.strength]
           \in SignalRecord
BY DEF SoundDecision, ProperStrength, SignalRecord

LEMMA SignalsInvStarts == Init => SignalsInv /\ ReadyInv
<1> SUFFICES ASSUME Init PROVE SignalsInv /\ ReadyInv
  OBVIOUS
<1>1. <<>> \in Seq(SignalRecord) /\ DOMAIN <<>> = {}
  OBVIOUS
<1> QED
  BY <1>1, WindowStartsEmpty DEF Init, SignalsInv, ReadyInv, Positions

LEMMA SignalsInvStays == ASSUME Catalogued PROVE SignalsInv /\ [Next]_vars => SignalsInv'
<1> SUFFICES ASSUME SignalsInv, [Next]_vars PROVE SignalsInv'
  OBVIOUS
<1>1. ASSUME NEW close \in Prices, DeliverBar(close) PROVE SignalsInv'
  <2>1. PICK answer :
           /\ SoundDecision(answer, pos)
           /\ pos' = answer.pos /\ seen' = Append(seen, close)
           /\ ~answer.emit => signals' = signals
           /\ answer.emit =>
                signals' = Append(signals, [bar |-> Len(seen'), direction |-> answer.direction,
                                            strength |-> answer.strength])
    BY <1>1, DeliveredDecision
  <2>2. WindowIsEnd' /\ pos' \in Positions
    BY <1>1, <2>1, WindowStaysEnd DEF SignalsInv, Next, SoundDecision
  <2>3. PICK m \in Nat : m = Len(seen) /\ DOMAIN seen = 1..m /\ Len(seen') = m + 1
                          /\ DOMAIN seen' = 1..(m + 1)
    <3>1. seen \in Seq(Prices) /\ seen' \in Seq(Prices)
      BY <2>2 DEF SignalsInv, WindowIsEnd
    <3>2. Len(seen) \in Nat /\ DOMAIN seen = 1..Len(seen) /\ DOMAIN seen' = 1..Len(seen')
          /\ Len(seen') = Len(seen) + 1
      BY <2>1, <3>1
    <3> QED
      BY <3>2
  <2>4. CASE ~answer.emit
    <3>1. signals' = signals /\ pos' = pos
      BY <2>1, <2>4 DEF SoundDecision
    <3>2. DOMAIN seen \subseteq DOMAIN seen'
      BY <2>3
    <3> QED
      BY <2>2, <3>1, <3>2 DEF SignalsInv
  <2>5. CASE answer.emit
    <3>1. PICK signal \in SignalRecord :
             /\ signal = [bar |-> m + 1, direction |-> answer.direction,
                          strength |-> answer.strength]
             /\ signals' = Append(signals, signal)
      BY <2>1, <2>3, <2>5, SignalRecorded
    <3>2. signal.bar = m + 1 /\ signal.direction = answer.direction
          /\ ProperStrength(signal.strength)
      BY <2>1, <2>5, <3>1 DEF SoundDecision
    <3>3. PICK n \in Nat : n = Len(signals) /\ DOMAIN signals = 1..n
      BY DEF SignalsInv
    <3>4. /\ signals' \in Seq(SignalRecord) /\ signals' # <<>> /\ Len(signals') = n + 1
          /\ DOMAIN signals' = 1..(n + 1) /\ signals'[n + 1] = signal
          /\ \A i \in 1..n : signals'[i] = signals[i]
      <4>1. signals \in Seq(SignalRecord)
        BY DEF SignalsInv
      <4>2. /\ signals' \in Seq(SignalRecord) /\ signals' # <<>> /\ Len(signals') = n + 1
            /\ signals'[n + 1] = signal /\ \A i \in 1..n : signals'[i] = signals[i]
        BY <3>1, <3>3, <4>1, AppendProperties
      <4> QED
        BY <4>2
    <3>5. ASSUME NEW i \in DOMAIN signals'
          PROVE  signals'[i].bar \in DOMAIN seen' /\ ProperStrength(signals'[i].strength)
      <4>1. CASE i = n + 1
        BY <2>3, <3>2, <3>4, <4>1
      <4>2. CASE i \in 1..n
        <5>1. signals[i].bar \in DOMAIN seen /\ ProperStrength(signals[i].strength)
          BY <3>3, <4>2 DEF SignalsInv
        <5>2. signals[i].bar \in DOMAIN seen'
          BY <2>3, <5>1
        <5> QED
          BY <3>4, <4>2, <5>1, <5>2
      <4> QED
        BY <3>4, <4>1, <4>2
    <3>6. pos' = PositionAfter(signals'[Len(signals')].direction)
      BY <2>1, <2>5, <3>2, <3>4 DEF SoundDecision
    <3> QED
      BY <2>2, <3>4, <3>5, <3>6 DEF SignalsInv
  <2> QED
    BY <2>4, <2>5
<1>2. CASE UNCHANGED vars
  BY <1>2 DEF SignalsInv, WindowIsEnd, vars
<1> QED
  BY <1>1, <1>2 DEF Next

LEMMA SignalsInvariance == ASSUME Catalogued PROVE Spec => []SignalsInv
<1>1. SignalsInv /\ [Next]_vars => SignalsInv'
  BY SignalsInvStays
<1> QED
  BY <1>1, SignalsInvStarts, PTL DEF Spec

\* A strategy that has neither a position nor a signal behind it starts only
\* when the window has all it looks back on.
LEMMA ReadyStays ==
  ASSUME Catalogued
  PROVE  SignalsInv /\ ReadyInv /\ [Next]_vars => ReadyInv'
<1> SUFFICES ASSUME SignalsInv, ReadyInv, [Next]_vars PROVE ReadyInv'
  OBVIOUS
<1>1. ASSUME NEW close \in Prices, DeliverBar(close) PROVE ReadyInv'
  <2>1. PICK answer :
           /\ answer = CalculateSignals(config, window', close, pos)
           /\ SoundDecision(answer, pos)
           /\ pos' = answer.pos /\ config' = config /\ seen' = Append(seen, close)
           /\ ~answer.emit => signals' = signals
    BY <1>1, DeliveredDecision
  <2>2. Needed' = Needed
    BY <2>1 DEF Needed
  <2>3. Needed \in Nat /\ WindowSize \in Nat /\ Len(seen) \in Nat /\ Len(seen') = Len(seen) + 1
    BY <2>1, NeededOf, WindowAssumption DEF SignalsInv, WindowIsEnd
  <2>4. CASE pos # 0 \/ signals # <<>>
    BY <2>2, <2>3, <2>4 DEF ReadyInv
  <2>5. CASE pos = 0 /\ signals = <<>>
    <3>1. seen' \in Seq(Prices) /\ window' = LastN(seen', WindowSize)
      BY <1>1, WindowStaysEnd DEF SignalsInv, Next, WindowIsEnd
    <3>2. Len(window') = IF Len(seen') < WindowSize THEN Len(seen') ELSE WindowSize
      BY <2>3, <3>1, LastEntries
    <3>3. CASE Len(window') < Needed
      <4>1. Needed \in LooksBack(config) /\ config \in Configs
        <5>1. config \in Configs
          BY DEF SignalsInv, WindowIsEnd
        <5> QED
          BY <5>1, NeededOf DEF LooksBack
      <4>2. Len(window') \in Nat
        BY <2>3, <3>2
      <4>3. answer = Quiet(0)
        BY <2>1, <2>5, <3>3, <4>1, <4>2, ShortHistoryIsQuiet
      <4>4. answer.emit = FALSE /\ answer.pos = 0
        BY <4>3 DEF Quiet
      <4> QED
        BY <2>1, <2>5, <4>4 DEF ReadyInv
    <3>4. CASE ~(Len(window') < Needed)
      <4>1. Needed <= Len(seen') /\ Needed <= WindowSize
        BY <2>3, <3>2, <3>4
      <4> QED
        BY <2>2, <4>1 DEF ReadyInv
    <3> QED
      BY <3>3, <3>4
  <2> QED
    BY <2>4, <2>5
<1>2. CASE UNCHANGED vars
  BY <1>2 DEF ReadyInv, Needed, vars
<1> QED
  BY <1>1, <1>2 DEF Next

\* The bar of a signal is the last one delivered, so what the entry needs at
\* its bar is what the strategy needs now.
LEMMA SignalsAtTheEnd ==
  ASSUME Catalogued, SignalsInv, NEW close \in Prices, DeliverBar(close)
  PROVE  /\ Len(seen') \in Nat /\ Len(signals) \in Nat
         /\ \/ signals' = signals
            \/ /\ Len(signals') = Len(signals) + 1
               /\ DOMAIN signals' = 1..(Len(signals) + 1) /\ DOMAIN signals = 1..Len(signals)
               /\ \A i \in 1..Len(signals) : signals'[i] = signals[i]
               /\ signals' # <<>>
               /\ signals'[Len(signals) + 1].bar = Len(seen')
               /\ pos' # pos
               /\ pos' = PositionAfter(signals'[Len(signals) + 1].direction)
<1>1. PICK answer :
         /\ SoundDecision(answer, pos)
         /\ pos' = answer.pos /\ seen' = Append(seen, close)
         /\ ~answer.emit => signals' = signals
         /\ answer.emit =>
              signals' = Append(signals, [bar |-> Len(seen'), direction |-> answer.direction,
                                          strength |-> answer.strength])
  BY DeliveredDecision
<1>2. Len(seen') \in Nat /\ signals \in Seq(SignalRecord) /\ Len(signals) \in Nat
  BY <1>1 DEF SignalsInv, WindowIsEnd
<1>3. CASE answer.emit
  <2>1. PICK signal \in SignalRecord :
           /\ signal = [bar |-> Len(seen'), direction |-> answer.direction,
                        strength |-> answer.strength]
           /\ signals' = Append(signals, signal)
    BY <1>1, <1>2, <1>3, SignalRecorded
  <2>2. /\ signals' \in Seq(SignalRecord) /\ signals' # <<>>
        /\ Len(signals') = Len(signals) + 1
        /\ signals'[Len(signals) + 1] = signal
        /\ \A i \in 1..Len(signals) : signals'[i] = signals[i]
    BY <1>2, <2>1, AppendProperties
  <2>3. DOMAIN signals' = 1..(Len(signals) + 1) /\ DOMAIN signals = 1..Len(signals)
    BY <1>2, <2>2
  <2>4. signal.bar = Len(seen') /\ signal.direction = answer.direction
    BY <2>1
  <2> QED
    BY <1>1, <1>2, <1>3, <2>2, <2>3, <2>4 DEF SoundDecision
<1> QED
  BY <1>1, <1>2, <1>3

\* Nothing is signalled before the strategy has all the history it looks back
\* on, and nothing ever when that does not fit the window (Strategy.cpp:37-38,
\* 59-60): for every parameter of the catalogue and windows of every size.
THEOREM NoSignalBeforeReady ==
  ASSUME Catalogued
  PROVE  Spec => []SilentUntilReady
<1>1. SignalsInv /\ ReadyInv /\ SilentUntilReady /\ [Next]_vars => SilentUntilReady'
  <2> SUFFICES ASSUME SignalsInv, ReadyInv, SilentUntilReady, [Next]_vars
               PROVE  SilentUntilReady'
    OBVIOUS
  <2>1. ASSUME NEW close \in Prices, DeliverBar(close) PROVE SilentUntilReady'
    <3>1. ReadyInv' /\ Needed' = Needed
      BY <2>1, ReadyStays DEF Next, Needed, DeliverBar
    <3>2. CASE signals' = signals
      BY <3>1, <3>2 DEF SilentUntilReady
    <3>3. CASE signals' # signals
      <4>1. /\ DOMAIN signals' = 1..(Len(signals) + 1) /\ DOMAIN signals = 1..Len(signals)
            /\ \A i \in 1..Len(signals) : signals'[i] = signals[i]
            /\ signals' # <<>> /\ signals'[Len(signals) + 1].bar = Len(seen')
            /\ Len(signals) \in Nat
        BY <2>1, <3>3, SignalsAtTheEnd
      <4>2. Needed <= Len(seen') /\ Needed <= WindowSize
        BY <3>1, <4>1 DEF ReadyInv
      <4>3. ASSUME NEW i \in DOMAIN signals'
            PROVE  Needed <= signals'[i].bar /\ Needed <= WindowSize
        <5>1. CASE i = Len(signals) + 1
          BY <4>1, <4>2, <5>1
        <5>2. CASE i \in 1..Len(signals)
          BY <4>1, <5>2 DEF SilentUntilReady
        <5> QED
          BY <4>1, <5>1, <5>2
      <4> QED
        BY <3>1, <4>3 DEF SilentUntilReady
    <3> QED
      BY <3>2, <3>3
  <2>2. CASE UNCHANGED vars
    BY <2>2 DEF SilentUntilReady, Needed, vars
  <2> QED
    BY <2>1, <2>2 DEF Next
<1>2. Init => SilentUntilReady
  BY DEF Init, SilentUntilReady
<1>3. SignalsInv /\ ReadyInv /\ [Next]_vars => ReadyInv'
  BY ReadyStays
<1> QED
  BY <1>1, <1>2, <1>3, SignalsInvStarts, SignalsInvariance, PTL DEF Spec

\* Two signals in a row never say the same and the first is no FLAT
\* (Strategy.h:82-83), for every strategy of the catalogue.
THEOREM NoSignalTwice ==
  ASSUME Catalogued
  PROVE  Spec => []SignalsAlternate
<1>1. SignalsInv /\ SignalsAlternate /\ [Next]_vars => SignalsAlternate'
  <2> SUFFICES ASSUME SignalsInv, SignalsAlternate, [Next]_vars
               PROVE  SignalsAlternate'
    OBVIOUS
  <2>1. ASSUME NEW close \in Prices, DeliverBar(close), signals' # signals
        PROVE  SignalsAlternate'
    <3>1. PICK n \in Nat : n = Len(signals)
      BY DEF SignalsInv
    <3>2. /\ DOMAIN signals' = 1..(n + 1) /\ DOMAIN signals = 1..n
          /\ \A i \in 1..n : signals'[i] = signals[i]
          /\ pos' # pos /\ pos' = PositionAfter(signals'[n + 1].direction)
      BY <2>1, <3>1, SignalsAtTheEnd
    <3>3. pos = IF n = 0 THEN 0 ELSE PositionAfter(signals[n].direction)
      <4>1. signals = <<>> <=> n = 0
        BY <3>1, EmptySeq DEF SignalsInv
      <4> QED
        BY <3>1, <4>1 DEF SignalsInv
    <3>4. ASSUME NEW i \in DOMAIN signals'
          PROVE  IF i = 1 THEN signals'[i].direction # "FLAT"
                          ELSE signals'[i].direction # signals'[i - 1].direction
      <4>1. CASE i \in 1..n
        <5>1. IF i = 1 THEN signals[i].direction # "FLAT"
                       ELSE signals[i].direction # signals[i - 1].direction
          BY <3>2, <4>1 DEF SignalsAlternate
        <5>2. i # 1 => i - 1 \in 1..n
          BY <4>1
        <5> QED
          BY <3>2, <4>1, <5>1, <5>2
      <4>2. CASE i = n + 1 /\ n = 0
        <5>1. PositionAfter("FLAT") = 0
          BY DEF PositionAfter
        <5> QED
          BY <3>2, <3>3, <4>2, <5>1
      <4>3. CASE i = n + 1 /\ n # 0
        <5>1. i - 1 = n /\ n \in 1..n /\ i # 1
          BY <4>3
        <5>2. signals'[i - 1] = signals[n]
          BY <3>2, <5>1
        <5>3. PositionAfter(signals'[i].direction) # PositionAfter(signals[n].direction)
          BY <3>2, <3>3, <4>3
        <5> QED
          BY <5>1, <5>2, <5>3
      <4> QED
        BY <3>2, <4>1, <4>2, <4>3
    <3> QED
      BY <3>4 DEF SignalsAlternate
  <2>2. CASE signals' = signals
    BY <2>2 DEF SignalsAlternate
  <2> QED
    BY <2>1, <2>2 DEF Next, vars
<1>2. Init => SignalsAlternate
  BY DEF Init, SignalsAlternate
<1> QED
  BY <1>1, <1>2, SignalsInvariance, PTL DEF Spec

-----------------------------------------------------------------------------
(* What a signal may cost.                                                  *)

\* A portfolio without positions that has seen one close.
LEMMA FreshMarket ==
  ASSUME NEW close \in Nat \ {0}
  PROVE  LET market == OnMarket(NewPortfolio, [symbol |-> "s", close |-> close])
         IN  /\ DOMAIN market.positions = {} /\ Equity(market) = InitialCapital
             /\ DOMAIN market.last_price = {"s"} /\ market.last_price["s"] = close
<1> DEFINE e == [symbol |-> "s", close |-> close]
           market == OnMarket(NewPortfolio, e)
<1>1. market.last_price = Put(NewPortfolio.last_price, "s", close)
  BY DEF OnMarket, NewPortfolio
<1>2. DOMAIN market.last_price = {"s"} /\ market.last_price["s"] = close
  BY <1>1 DEF Put, NewPortfolio, EmptyMap
<1>3. DOMAIN market.positions = {} /\ market.cash = InitialCapital
  BY DEF OnMarket, NewPortfolio, EmptyMap
<1> HIDE DEF market
<1>4. Equity(market) = market.cash + 0
  BY <1>3 DEF Equity, MapThenSumSet, MapThenFoldSet
<1>5. Equity(market) = InitialCapital
  BY <1>3, <1>4, PortfolioAssumption
<1> QED
  BY <1>2, <1>3, <1>5 DEF market

LEMMA OrderWithinCap ==
  ASSUME NEW close \in Nat \ {0}, NEW direction \in {"LONG", "FLAT", "SHORT"}, NEW x,
         ProperStrength(x)
  PROVE  LET market == OnMarket(NewPortfolio, [symbol |-> "s", close |-> close])
             orders == OnSignal(market, [symbol |-> "s", direction |-> direction,
                                         strength |-> x, timestamp |-> 0])
         IN  \A j \in DOMAIN orders : 20 * orders[j].quantity * close <= Equity(market)
<1> DEFINE sig == [symbol |-> "s", direction |-> direction, strength |-> x, timestamp |-> 0]
           qty == (InitialCapital * x.n) \div (20 * x.d * close)
           order(side) == [type |-> "ORDER", symbol |-> "s", side |-> side,
                           quantity |-> qty, timestamp |-> 0]
<1>1. PICK market : /\ market = OnMarket(NewPortfolio, [symbol |-> "s", close |-> close])
                    /\ DOMAIN market.positions = {} /\ Equity(market) = InitialCapital
                    /\ DOMAIN market.last_price = {"s"} /\ market.last_price["s"] = close
  BY FreshMarket
<1>2. sig.symbol = "s" /\ sig.direction = direction /\ sig.strength = x /\ sig.timestamp = 0
  OBVIOUS
<1> HIDE DEF sig
<1>3. PositionSize(market, sig) = qty
  BY <1>1, <1>2 DEF PositionSize
<1>4. InitialCapital \in Nat
  BY PortfolioAssumption
<1>5. qty \in Int /\ 20 * qty * close <= InitialCapital
  BY <1>4, SizeWithinCap
<1> HIDE DEF qty
<1>6. OnSignal(market, sig) \in {<<>>, <<order("BUY")>>, <<order("SELL")>>}
  BY <1>1, <1>2, <1>3, <1>5 DEF OnSignal
<1>7. \A side : DOMAIN <<order(side)>> = {1} /\ <<order(side)>>[1].quantity = qty
  OBVIOUS
<1>8. \A j \in DOMAIN OnSignal(market, sig) : OnSignal(market, sig)[j].quantity = qty
  BY <1>6, <1>7
<1>9. \A j \in DOMAIN OnSignal(market, sig) :
        20 * OnSignal(market, sig)[j].quantity * close <= Equity(market)
  BY <1>1, <1>5, <1>8
<1> QED
  BY <1>1, <1>9 DEF sig

\* Whatever a strategy of the catalogue signals, the order that a portfolio
\* without positions makes of it costs at most a twentieth of the equity:
\* "capped at 5%" (Portfolio.h:93), for every capital and every price.
THEOREM NoOrderAboveCap ==
  ASSUME Catalogued
  PROVE  Spec => []OrdersCapped
<1>1. SignalsInv => OrdersCapped
  <2> SUFFICES ASSUME SignalsInv, NEW i \in DOMAIN signals
               PROVE  LET close  == seen[signals[i].bar]
                          market == OnMarket(NewPortfolio, [symbol |-> "s", close |-> close])
                          orders == OnSignal(market,
                                      [symbol |-> "s", direction |-> signals[i].direction,
                                       strength |-> signals[i].strength, timestamp |-> 0])
                      IN  \A j \in DOMAIN orders :
                            20 * orders[j].quantity * close <= Equity(market)
    BY DEF OrdersCapped
  <2>1. signals[i].direction \in {"LONG", "FLAT", "SHORT"}
    <3>1. signals \in Seq(SignalRecord)
      BY DEF SignalsInv
    <3>2. signals[i] \in SignalRecord
      BY <3>1
    <3> QED
      BY <3>2 DEF SignalRecord
  <2>2. ProperStrength(signals[i].strength) /\ signals[i].bar \in DOMAIN seen
    BY DEF SignalsInv
  <2>3. seen[signals[i].bar] \in Nat \ {0}
    <3>1. seen \in Seq(Prices) /\ Prices \subseteq Nat \ {0}
      BY SignalsAssumption DEF SignalsInv, WindowIsEnd
    <3>2. seen[signals[i].bar] \in Prices
      BY <2>2, <3>1
    <3> QED
      BY <3>1, <3>2
  <2> QED
    BY <2>1, <2>2, <2>3, OrderWithinCap
<1> QED
  BY <1>1, SignalsInvariance, PTL
=============================================================================
