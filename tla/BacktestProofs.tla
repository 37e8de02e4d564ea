---------------------------- MODULE BacktestProofs ----------------------------
(***************************************************************************)
(* Proofs about module Backtest for every list of symbols, every file,      *)
(* every strategy and every configuration: type correctness, the bound of   *)
(* the queue, and that orders are queued and never executed.                *)
(*                                                                         *)
(* The invariant IInv says that the portfolio is untraded and that only the *)
(* four kinds of event are queued; one lemma per action shows it is kept.   *)
(***************************************************************************)
EXTENDS Backtest, SequenceTheorems, FiniteSetTheorems, TLAPS

\* With no position, equity is cash.
LEMMA EquityOfCash ==
  ASSUME NEW p, p.cash \in Int, p.positions = EmptyMap
  PROVE  Equity(p) = p.cash
<1>1. DOMAIN p.positions \cap DOMAIN p.last_price = {}
  BY DEF EmptyMap
<1>2. Equity(p) = p.cash + 0
  BY <1>1 DEF Equity, MapThenSumSet, MapThenFoldSet
<1> QED
  BY <1>2

\* Writing one key keeps a map a map (std::unordered_map::operator[]).
LEMMA PutInMap ==
  ASSUME NEW K, NEW V, NEW f, IsMap(f, K, V), NEW x \in K, NEW v \in V
  PROVE  IsMap(Put(f, x, v), K, V)
<1>1. PICK s \in SUBSET K : f \in [s -> V]
  BY DEF IsMap
<1>2. Put(f, x, v) \in [s \cup {x} -> V]
  BY <1>1 DEF Put
<1>3. s \cup {x} \in SUBSET K
  BY <1>1
<1> QED
  BY <1>2, <1>3 DEF IsMap

\* What is loaded from a file is a sequence of rows in ascending order.
LEMMA LoadedRows ==
  ASSUME NEW file \in [exists : BOOLEAN, lines : Seq(Line)], NEW r \in Loads(file)
  PROVE  r \in Seq(Row) /\ Ascending(r)
<1> DEFINE kept == {i \in DOMAIN file.lines : file.lines[i].kind \in {"row", "undated"}}
           size == Cardinality(kept)
<1>1. size \in Nat
  <2>1. file.lines \in Seq(Line)
    OBVIOUS
  <2>2. kept \subseteq 1..Len(file.lines) /\ Len(file.lines) \in Nat
    BY <2>1
  <2>3. IsFiniteSet(kept)
    BY <2>2, FS_Interval, FS_Subset
  <2> QED
    BY <2>3, FS_CardinalityType
<1>2. PICK order \in Bijection(1..size, kept) :
        r = [i \in 1..size |-> [timestamp |-> TimeOf(file.lines[order[i]]),
                                close     |-> file.lines[order[i]].close]]
  BY DEF Loads
<1>3. \A i \in 1..size : file.lines[order[i]] \in Line
  <2>1. order \in [1..size -> kept]
    BY <1>2 DEF Bijection, Injection
  <2>2. \A i \in kept : file.lines[i] \in Line
    OBVIOUS
  <2> QED
    BY <2>1, <2>2
<1>4. r \in [1..size -> Row]
  BY <1>2, <1>3 DEF Line, Row, TimeOf, NoDate
<1>5. r \in Seq(Row)
  <2> HIDE DEF size
  <2> QED
    BY <1>1, <1>4, SeqDef
<1>6. Ascending(r)
  BY DEF Loads
<1> QED
  BY <1>5, <1>6

\* Sliding a window appends the row and keeps only older rows before it.
LEMMA SlidWindow ==
  ASSUME NEW w \in Seq(Row), NEW row \in Row, Len(w) <= WindowSize
  PROVE  /\ Slide(w, row) \in Seq(Row)
         /\ Len(Slide(w, row)) \in 1..WindowSize
         /\ Slide(w, row)[Len(Slide(w, row))] = row
         /\ \A i \in DOMAIN Slide(w, row) :
              Slide(w, row)[i] = row \/ \E j \in DOMAIN w : Slide(w, row)[i] = w[j]
<1>1. WindowSize \in Nat \ {0}
  BY WindowAssumption
<1>2. CASE Len(w) < WindowSize
  BY <1>1, <1>2, AppendProperties DEF Slide
<1>3. CASE ~(Len(w) < WindowSize)
  <2>1. w # <<>> /\ Len(w) = WindowSize
    BY <1>1, <1>3
  <2>2. /\ Tail(w) \in Seq(Row) /\ Len(Tail(w)) = Len(w) - 1
        /\ \A i \in 1..(Len(w) - 1) : Tail(w)[i] = w[i + 1]
    BY <2>1, HeadTailProperties
  <2>3. Slide(w, row) = Append(Tail(w), row)
    BY <1>3 DEF Slide
  <2> QED
    BY <1>1, <2>1, <2>2, <2>3, AppendProperties
<1> QED
  BY <1>2, <1>3

\* Handling the head of the queue and leaving at most one event behind.
LEMMA HeadHandled ==
  ASSUME NEW q \in Seq(Events), q # <<>>, NEW s \in Seq(Events), Len(s) <= 1
  PROVE  /\ Head(q) \in Events /\ Head(q) = q[1]
         /\ Tail(q) \o s \in Seq(Events)
         /\ Len(Tail(q) \o s) <= Len(q)
         /\ \A i \in DOMAIN (Tail(q) \o s) :
              \/ i + 1 \in DOMAIN q /\ (Tail(q) \o s)[i] = q[i + 1]
              \/ Len(s) = 1 /\ (Tail(q) \o s)[i] = s[1]
         /\ \A i \in DOMAIN q : i = 1 \/ \E j \in DOMAIN (Tail(q) \o s) :
                                           (Tail(q) \o s)[j] = q[i]
         /\ Len(s) = 1 => \E j \in DOMAIN (Tail(q) \o s) : (Tail(q) \o s)[j] = s[1]
<1> DEFINE t == Tail(q) \o s
<1>1. /\ Tail(q) \in Seq(Events) /\ Len(Tail(q)) = Len(q) - 1
      /\ Head(q) \in Events /\ Head(q) = q[1]
      /\ Len(q) \in Nat \ {0} /\ Len(s) \in Nat
      /\ \A i \in 1..Len(Tail(q)) : Tail(q)[i] = q[i + 1]
  BY HeadTailProperties, EmptySeq
<1>2. /\ t \in Seq(Events) /\ Len(t) = Len(Tail(q)) + Len(s)
      /\ \A i \in 1..Len(t) : t[i] = IF i <= Len(Tail(q)) THEN Tail(q)[i]
                                     ELSE s[i - Len(Tail(q))]
  BY <1>1, ConcatProperties
<1>3. DOMAIN t = 1..Len(t) /\ DOMAIN q = 1..Len(q)
  BY <1>2
<1>4. Len(t) <= Len(q)
  BY <1>1, <1>2
<1> HIDE DEF t
<1>5. ASSUME NEW i \in DOMAIN t
      PROVE  \/ i + 1 \in DOMAIN q /\ t[i] = q[i + 1]
             \/ Len(s) = 1 /\ t[i] = s[1]
  <2>1. CASE i <= Len(Tail(q))
    BY <1>1, <1>2, <1>3, <2>1
  <2>2. CASE ~(i <= Len(Tail(q)))
    <3>1. /\ i \in Nat /\ i <= Len(Tail(q)) + Len(s) /\ i > Len(Tail(q))
          /\ Len(s) \in Nat /\ Len(s) <= 1 /\ Len(Tail(q)) \in Nat
      BY <1>1, <1>2, <1>3, <2>2
    <3>2. \A a, b, c \in Nat : a <= b + c /\ a > b /\ c <= 1 => c = 1 /\ a - b = 1
      OBVIOUS
    <3>3. Len(s) = 1 /\ i - Len(Tail(q)) = 1
      BY <3>1, <3>2
    <3> QED
      BY <1>2, <1>3, <2>2, <3>3
  <2> QED
    BY <2>1, <2>2
<1>6. ASSUME NEW i \in DOMAIN q, i # 1
      PROVE  \E j \in DOMAIN t : t[j] = q[i]
  <2>1. i - 1 \in DOMAIN t /\ t[i - 1] = Tail(q)[i - 1] /\ Tail(q)[i - 1] = q[i]
    BY <1>1, <1>2, <1>3, <1>6
  <2> QED
    BY <2>1
<1>7. ASSUME Len(s) = 1
      PROVE  \E j \in DOMAIN t : t[j] = s[1]
  <2>1. Len(t) \in DOMAIN t /\ t[Len(t)] = s[1]
    BY <1>1, <1>2, <1>3, <1>7
  <2> QED
    BY <2>1
<1> QED
  BY <1>1, <1>2, <1>4, <1>5, <1>6, <1>7 DEF t

-----------------------------------------------------------------------------
(* Lemmas about the portfolio and the risk manager.                         *)

\* A portfolio that has never traded.
Untraded(p) ==
  /\ IsPortfolio(p)
  /\ p.positions = EmptyMap
  /\ p.fill_history = <<>>
  /\ p.cash = InitialCapital

\* A map without keys is a map.
LEMMA EmptyIsMap ==
  ASSUME NEW K, NEW V
  PROVE  IsMap(EmptyMap, K, V)
<1>1. EmptyMap \in [{} -> V]
  BY DEF EmptyMap
<1> QED
  BY <1>1 DEF IsMap

\* A portfolio starts untraded.
LEMMA NewIsUntraded == Untraded(NewPortfolio)
<1>1. InitialCapital \in Int
  BY PortfolioAssumption
<1>2. IsPortfolio(NewPortfolio)
  BY <1>1, EmptyIsMap, EmptySeq DEF IsPortfolio, NewPortfolio
<1> QED
  BY <1>2 DEF Untraded, NewPortfolio

\* An untraded portfolio is worth the capital it started with, so it is positive.
LEMMA UntradedEquity ==
  ASSUME NEW p, Untraded(p)
  PROVE  Equity(p) = InitialCapital /\ Equity(p) \in Nat \ {0}
  BY PortfolioAssumption, EquityOfCash DEF Untraded

\* Marking a price keeps a portfolio untraded and its equity curve as it is
\* (Portfolio.cpp:35-43).
LEMMA MarkedUntraded ==
  ASSUME NEW p, Untraded(p), NEW e \in MarketEvents
  PROVE  /\ Untraded(OnMarket(p, e))
         /\ OnMarket(p, e).equity_curve = p.equity_curve
<1> DEFINE o == OnMarket(p, e)
<1>1. p = [cash |-> p.cash, positions |-> p.positions, last_price |-> p.last_price,
           equity_curve |-> p.equity_curve, fill_history |-> p.fill_history]
  BY DEF Untraded, IsPortfolio
<1> DEFINE marked ==
             [s \in DOMAIN p.positions |->
                IF s = e.symbol
                THEN [p.positions[s] EXCEPT
                        !.unrealized_pnl = Gain(p.positions[s].quantity, e.close,
                                                p.positions[s].avg_price)]
                ELSE p.positions[s]]
<1>a. o = [p EXCEPT !.last_price = Put(p.last_price, e.symbol, e.close),
                    !.positions  = marked]
  BY <1>1 DEF OnMarket
<1>b. marked = EmptyMap
  BY DEF EmptyMap, Untraded
<1> HIDE DEF marked, o
<1>2. o = [cash |-> p.cash, positions |-> marked,
           last_price |-> Put(p.last_price, e.symbol, e.close),
           equity_curve |-> p.equity_curve, fill_history |-> p.fill_history]
  BY <1>1, <1>a
<1>3. o.positions = EmptyMap
  BY <1>2, <1>b
<1>4. IsMap(o.last_price, Names, Prices)
  <2>1. e.symbol \in Names /\ e.close \in Prices
    BY DEF MarketEvents
  <2>2. IsMap(p.last_price, Names, Prices)
    BY DEF Untraded, IsPortfolio
  <2> QED
    BY <1>2, <2>1, <2>2, PutInMap
<1>5. /\ o.cash = p.cash /\ o.equity_curve = p.equity_curve
      /\ o.fill_history = p.fill_history
  BY <1>2
<1>6. IsPortfolio(o)
  BY <1>2, <1>3, <1>4, <1>5, EmptyIsMap DEF IsPortfolio, Untraded
<1> QED
  BY <1>3, <1>5, <1>6 DEF Untraded, o

\* A snapshot keeps a portfolio untraded and records the initial capital
\* (Portfolio.cpp:109-111).
LEMMA RecordedUntraded ==
  ASSUME NEW p, Untraded(p), NEW ts \in Int
  PROVE  /\ Untraded(RecordEquity(p, ts))
         /\ p.equity_curve \in Seq(Snapshots)
         /\ RecordEquity(p, ts).equity_curve =
              Append(p.equity_curve, [timestamp |-> ts, equity |-> InitialCapital,
                                      cash |-> InitialCapital])
<1> DEFINE o == RecordEquity(p, ts)
           pt == [timestamp |-> ts, equity |-> Equity(p), cash |-> p.cash]
<1>1. p = [cash |-> p.cash, positions |-> p.positions, last_price |-> p.last_price,
           equity_curve |-> p.equity_curve, fill_history |-> p.fill_history]
  BY DEF Untraded, IsPortfolio
<1>2. o = [cash |-> p.cash, positions |-> p.positions, last_price |-> p.last_price,
           equity_curve |-> Append(p.equity_curve, pt), fill_history |-> p.fill_history]
  BY <1>1, SMTT(30) DEF RecordEquity
<1>3. pt \in Snapshots /\ p.equity_curve \in Seq(Snapshots)
  BY UntradedEquity DEF Untraded, IsPortfolio, Snapshots
<1>4. Append(p.equity_curve, pt) \in Seq(Snapshots)
  BY <1>3, AppendProperties
<1>5. IsPortfolio(o)
  BY <1>2, <1>4 DEF Untraded, IsPortfolio
<1> QED
  BY <1>2, <1>3, <1>5, UntradedEquity DEF Untraded

\* At most one event.
LEMMA OneEvent ==
  ASSUME NEW e \in Events, NEW s, s = <<>> \/ s = <<e>>
  PROVE  /\ s \in Seq(Events) /\ Len(s) <= 1
         /\ \A i \in DOMAIN s : s[i] = e
<1>1. CASE s = <<>>
  BY <1>1
<1>2. CASE s = <<e>>
  BY <1>2
<1> QED
  BY <1>1, <1>2

\* Prices are integers, whatever set of them the files draw from.
LEMMA PricesAreIntegers == Prices \subseteq Int
  BY BacktestAssumption

\* The position size is an integer: the divisor is positive, since a price
\* that is absent or not positive gives 0 (Portfolio.cpp:45-52).
LEMMA SizeIsInteger ==
  ASSUME NEW p, Untraded(p), NEW sig \in SignalEvents
  PROVE  PositionSize(p, sig) \in Int
<1> DEFINE price == p.last_price[sig.symbol]
           strength == sig.strength
<1>1. CASE sig.symbol \in DOMAIN p.last_price /\ price > 0
  <2>1. price \in Nat \ {0}
    <3>1. p.last_price[sig.symbol] \in Prices
      BY <1>1 DEF Untraded, IsPortfolio, IsMap
    <3>2. price \in Int
      BY <3>1, PricesAreIntegers
    <3> QED
      BY <1>1, <3>2
  <2>2. strength.n \in Int /\ strength.d \in Nat \ {0}
    BY DEF SignalEvents, Fraction
  <2>3. \A a, b \in Nat \ {0} : 20 * a * b \in Nat \ {0}
    OBVIOUS
  <2>4. \A a \in Int, b \in Nat \ {0} : a \div b \in Int
    OBVIOUS
  <2>5. Equity(p) * strength.n \in Int
    BY <2>2, UntradedEquity
  <2>6. 20 * strength.d * price \in Nat \ {0}
    BY <2>1, <2>2, <2>3
  <2> QED
    BY <1>1, <2>4, <2>5, <2>6 DEF PositionSize
<1>2. CASE ~(sig.symbol \in DOMAIN p.last_price /\ price > 0)
  BY <1>2 DEF PositionSize
<1> QED
  BY <1>1, <1>2

\* A signal leaves nothing or one order.
LEMMA SignalLeavesOrder ==
  ASSUME NEW p, Untraded(p), NEW sig \in SignalEvents
  PROVE  /\ OnSignal(p, sig) \in Seq(Events)
         /\ Len(OnSignal(p, sig)) <= 1
         /\ \A i \in DOMAIN OnSignal(p, sig) : OnSignal(p, sig)[i].type = "ORDER"
<1> DEFINE qty == PositionSize(p, sig)
           order(side, quantity) ==
             [type |-> "ORDER", symbol |-> sig.symbol, side |-> side,
              quantity |-> quantity, timestamp |-> sig.timestamp]
<1>1. qty \in Int /\ sig.symbol \in Names /\ sig.timestamp \in Int
      /\ sig.direction \in Direction
  BY SizeIsInteger DEF SignalEvents
<1>2. sig.symbol \notin DOMAIN p.positions
  BY DEF Untraded, EmptyMap
<1>3. \/ OnSignal(p, sig) = <<>>
      \/ qty > 0 /\ \E side \in Side : OnSignal(p, sig) = <<order(side, qty)>>
  <2>1. CASE qty <= 0
    <3>1. OnSignal(p, sig) = <<>>
      BY <1>1, <2>1 DEF OnSignal
    <3> QED
      BY <3>1
  <2>2. CASE qty > 0 /\ sig.direction = "LONG"
    BY <1>1, <2>2 DEF OnSignal, Side
  <2>3. CASE qty > 0 /\ sig.direction = "SHORT"
    BY <1>1, <2>3 DEF OnSignal, Side
  <2>4. CASE qty > 0 /\ sig.direction = "FLAT"
    <3>1. OnSignal(p, sig) = <<>>
      BY <1>1, <1>2, <2>4 DEF OnSignal
    <3> QED
      BY <3>1
  <2> QED
    BY <1>1, <2>1, <2>2, <2>3, <2>4 DEF Direction
<1>4. ASSUME NEW side \in Side, qty > 0
      PROVE  order(side, qty) \in OrderEvents
  BY <1>1, <1>4 DEF OrderEvents
<1>5. CASE OnSignal(p, sig) = <<>>
  BY <1>5
<1>6. ASSUME NEW side \in Side, qty > 0, OnSignal(p, sig) = <<order(side, qty)>>
      PROVE  /\ OnSignal(p, sig) \in Seq(Events)
             /\ Len(OnSignal(p, sig)) <= 1
             /\ \A i \in DOMAIN OnSignal(p, sig) : OnSignal(p, sig)[i].type = "ORDER"
  <2>1. order(side, qty) \in Events /\ order(side, qty).type = "ORDER"
    BY <1>4, <1>6 DEF Events
  <2> HIDE DEF order
  <2> QED
    BY <1>6, <2>1, OneEvent
<1> QED
  BY <1>3, <1>5, <1>6

\* Nothing has been lost, so only a limit below zero is breached.
LEMMA NothingLost ==
  ASSUME NEW p, Untraded(p), NEW start \in {0, InitialCapital}
  PROVE  /\ DayStart(start, p) = InitialCapital
         /\ LossLimitBreached(DayStart(start, p), Equity(p)) => LossLimitBps < 0
<1>1. DayStart(start, p) = InitialCapital
  BY UntradedEquity DEF DayStart
<1>2. InitialCapital \in Nat \ {0} /\ LossLimitBps \in Int
  BY PortfolioAssumption
<1>3. \A c \in Nat \ {0}, l \in Int : (c - c) * 10000 > l * c => l < 0
  OBVIOUS
<1> QED
  BY <1>1, <1>2, <1>3, UntradedEquity DEF LossLimitBreached

\* An order leaves nothing, a veto or the order itself, and with usable
\* limits it always leaves the order itself.
LEMMA OrderEvaluated ==
  ASSUME NEW p, Untraded(p), NEW order \in OrderEvents,
         NEW start \in {0, InitialCapital}
  PROVE  /\ Evaluate(order, p, start) \in Seq(Events)
         /\ Len(Evaluate(order, p, start)) <= 1
         /\ LossLimitBps >= 0 /\ MaxPositions > 0 =>
              Evaluate(order, p, start) = <<order>>
         /\ \A i \in DOMAIN Evaluate(order, p, start) :
              Evaluate(order, p, start)[i].type \in {"ORDER", "RISK"}
<1> DEFINE veto == [type |-> "RISK", symbol |-> order.symbol,
                    requested_qty |-> order.quantity]
<1>1. veto \in Events /\ order \in Events /\ order.type = "ORDER"
  BY DEF OrderEvents, RiskEvents, Events
<1>2. OpenPositions(p) = 0
  <2>1. {s \in DOMAIN p.positions : p.positions[s].quantity # 0} = {}
    BY DEF Untraded, EmptyMap
  <2> QED
    BY <2>1, FS_EmptySet DEF OpenPositions
<1>3. \/ Evaluate(order, p, start) = <<veto>>
      \/ Evaluate(order, p, start) = <<>>
      \/ Evaluate(order, p, start) = <<order>>
  BY DEF Evaluate
<1>4. ASSUME LossLimitBps >= 0, MaxPositions > 0
      PROVE  Evaluate(order, p, start) = <<order>>
  <2>1. ~LossLimitBreached(DayStart(start, p), Equity(p))
    BY <1>4, NothingLost, PortfolioAssumption
  <2>2. ~AtPositionLimit(p)
    BY <1>2, <1>4, PortfolioAssumption DEF AtPositionLimit
  <2> QED
    BY <2>1, <2>2 DEF Evaluate
<1> HIDE DEF veto
<1>5. veto.type = "RISK"
  BY DEF veto
<1> DEFINE left == Evaluate(order, p, start)
<1> HIDE DEF left
<1>8. /\ left \in Seq(Events) /\ Len(left) <= 1
      /\ \A i \in DOMAIN left : left[i].type \in {"ORDER", "RISK"}
  <2>1. left = <<veto>> \/ left = <<>> \/ left = <<order>>
    BY <1>3 DEF left
  <2>2. CASE left = <<veto>>
    <3>1. left \in Seq(Events) /\ Len(left) <= 1 /\ \A i \in DOMAIN left : left[i] = veto
      BY <1>1, <2>2, OneEvent
    <3> QED
      BY <3>1, <1>5
  <2>3. CASE left = <<>> \/ left = <<order>>
    <3>1. left \in Seq(Events) /\ Len(left) <= 1 /\ \A i \in DOMAIN left : left[i] = order
      BY <1>1, <2>3, OneEvent
    <3> QED
      BY <3>1, <1>1
  <2> QED
    BY <2>1, <2>2, <2>3
<1> QED
  BY <1>4, <1>8 DEF left

-----------------------------------------------------------------------------
(* Types, and the account nobody touches.                                   *)

\* The inductive invariant: while symbols are being advanced the queue holds
\* at most one event per symbol already visited.
IInv ==
  /\ TypeOK
  /\ Untraded(portfolio)
  /\ day_start \in {0, InitialCapital}
  /\ QueueBounded
  /\ pc = "construct" => k = 1
  /\ pc \in {"construct", "bars"} => Len(event_queue) <= k - 1

\* There is a first symbol, and every listed symbol has an event name.
LEMMA SymbolsListed ==
  /\ Len(Symbols) \in Nat \ {0}
  /\ \A i \in 1..Len(Symbols) : Symbols[i] \in Listed
  /\ \A t \in Listed : t \in Tickers /\ CopySymbol[t] \in Names
<1>1. Symbols \in Seq(Tickers) /\ Symbols # <<>>
  BY BacktestAssumption
<1>2. DOMAIN Symbols = 1..Len(Symbols) /\ Len(Symbols) \in Nat \ {0}
  BY <1>1, EmptySeq
<1>3. \A i \in 1..Len(Symbols) : Symbols[i] \in Tickers
  BY <1>1
<1> QED
  BY <1>2, <1>3, CopyAssumption DEF Listed, Names, Range

\* The engine starts in the invariant.
LEMMA InitIInv == Init => IInv
<1> SUFFICES ASSUME Init PROVE IInv
  OBVIOUS
<1>1. TypeOK
  <2>1. belief \in [Names -> Belief]
    BY DEF Init, Names, Belief
  <2>2. Untraded(portfolio)
    BY NewIsUntraded DEF Init
  <2>3. \A t \in Listed : Len(bar_window[t]) <= WindowSize
    <3>1. WindowSize \in Nat /\ Len(<<>>) = 0
      BY WindowAssumption
    <3> QED
      BY <3>1 DEF Init
  <2>4. k \in 1..(Len(Symbols) + 1)
    BY SymbolsListed DEF Init
  <2>5. /\ event_queue \in Seq(Events)
        /\ all_data \in [Listed -> Seq(Row)]
        /\ bar_window \in [Listed -> Seq(Row)]
        /\ cursors \in [Listed -> Nat]
    BY DEF Init
  <2>6. /\ disk \in Disks /\ pc = "construct" /\ any_advanced \in BOOLEAN
        /\ day_start = 0 /\ bar_count = 0 /\ progress = 0
    BY DEF Init
  <2>7. IsPortfolio(portfolio)
    BY <2>2 DEF Untraded
  <2> QED
    BY <2>1, <2>3, <2>4, <2>5, <2>6, <2>7 DEF TypeOK
<1>2. Untraded(portfolio)
  BY NewIsUntraded DEF Init
<1>3. Len(event_queue) = 0 /\ k = 1
  BY DEF Init
<1> QED
  BY <1>1, <1>2, <1>3, SymbolsListed DEF Init, IInv, QueueBounded

\* Loading the files keeps the invariant.
LEMMA ConstructIInv == IInv /\ Construct => IInv'
<1> SUFFICES ASSUME IInv, Construct PROVE IInv'
  OBVIOUS
<1>1. all_data' \in [Listed -> Seq(Row)]
  <2>1. \A t \in Listed : disk[t] \in [exists : BOOLEAN, lines : Seq(Line)]
    BY SymbolsListed, BacktestAssumption DEF IInv, TypeOK
  <2>2. \A t \in Listed : all_data'[t] \in Seq(Row)
    BY <2>1, LoadedRows DEF Construct
  <2> QED
    BY <2>2 DEF Construct
<1>2. TypeOK'
  BY <1>1 DEF IInv, TypeOK, Construct, account_vars
<1> QED
  BY <1>2 DEF IInv, Construct, account_vars, QueueBounded

\* A symbol that advances queues one bar, in the place the loop index leaves.
LEMMA AdvanceIInv == IInv /\ AdvanceSymbol => IInv'
<1> SUFFICES ASSUME IInv, AdvanceSymbol PROVE IInv'
  OBVIOUS
<1> DEFINE t == Symbols[k]
           row == all_data[t][cursors[t] + 1]
           e == MarketEvent(t, row)
<1>1. t \in Listed /\ k \in 1..Len(Symbols) /\ CopySymbol[t] \in Names
  BY SymbolsListed DEF IInv, TypeOK, AdvanceSymbol
<1>2. row \in Row
  BY <1>1 DEF IInv, TypeOK, AdvanceSymbol
<1>3. e \in Events
  BY <1>1, <1>2 DEF MarketEvent, MarketEvents, Events, Row
<1>4. /\ event_queue' = Append(event_queue, e)
      /\ event_queue' \in Seq(Events) /\ Len(event_queue') = Len(event_queue) + 1
  BY <1>3, AppendProperties DEF IInv, TypeOK, AdvanceSymbol
<1>5. bar_window' = [bar_window EXCEPT ![t] = Slide(bar_window[t], row)]
      /\ cursors' = [cursors EXCEPT ![t] = cursors[t] + 1]
  BY DEF AdvanceSymbol
<1>6. /\ Slide(bar_window[t], row) \in Seq(Row)
      /\ Len(Slide(bar_window[t], row)) <= WindowSize
  <2>1. bar_window[t] \in Seq(Row) /\ Len(bar_window[t]) <= WindowSize
    BY <1>1 DEF IInv, TypeOK
  <2>2. WindowSize \in Nat
    BY WindowAssumption
  <2> HIDE DEF row, t
  <2>3. row \in Row
    BY <1>2
  <2>4. Len(Slide(bar_window[t], row)) \in 1..WindowSize
    BY <2>1, <2>3, SlidWindow
  <2>5. Slide(bar_window[t], row) \in Seq(Row)
    BY <2>1, <2>3, SlidWindow
  <2> QED
    BY <2>2, <2>4, <2>5
<1>7. /\ bar_window' \in [Listed -> Seq(Row)]
      /\ \A u \in Listed : Len(bar_window'[u]) <= WindowSize
      /\ cursors' \in [Listed -> Nat]
  BY <1>1, <1>5, <1>6 DEF IInv, TypeOK
<1>8. k' \in 1..(Len(Symbols) + 1) /\ k' = k + 1
  BY <1>1, SymbolsListed DEF AdvanceSymbol
<1>9. TypeOK'
  BY <1>4, <1>7, <1>8 DEF IInv, TypeOK, AdvanceSymbol, account_vars
<1>10. QueueBounded' /\ Len(event_queue') <= k' - 1
  BY <1>1, <1>4, <1>8, SymbolsListed DEF IInv, AdvanceSymbol, QueueBounded, TypeOK
<1> QED
  BY <1>9, <1>10 DEF IInv, AdvanceSymbol, account_vars

\* The event at the head is replaced by at most one other at the tail, which
\* is not a bar: only update_bars queues bars.
HeadReplaced ==
  \E s \in Seq(Events) :
    /\ Len(s) <= 1
    /\ \A i \in DOMAIN s : s[i].type # "MARKET"
    /\ event_queue' = Tail(event_queue) \o s

\* A bar leaves at most one signal, and no bar, in its place.
LEMMA MarketIInv == IInv /\ ProcessMarket => IInv' /\ HeadReplaced
<1> SUFFICES ASSUME IInv, ProcessMarket PROVE IInv' /\ HeadReplaced
  OBVIOUS
<1> DEFINE e == Head(event_queue)
           bars == WindowOf(e.symbol)
           closes == [i \in DOMAIN bars |-> bars[i].close]
           answer == Decide(closes, e.close, belief[e.symbol])
           signal == [type |-> "SIGNAL", symbol |-> e.symbol,
                      direction |-> answer.direction,
                      strength |-> answer.strength, timestamp |-> e.timestamp]
           left == IF answer.emit THEN <<signal>> ELSE <<>>
<1>1. e \in MarketEvents
  <2>1. e \in Events /\ e.type = "MARKET"
    BY HeadTailProperties DEF IInv, TypeOK, ProcessMarket, Draining
  <2> QED
    BY <2>1 DEF Events, MarketEvents, SignalEvents, OrderEvents, RiskEvents
<1>2. closes \in [1..Len(bars) -> Prices] /\ Len(bars) \in 0..WindowSize
  <2>1. bars \in Seq(Row) /\ Len(bars) <= WindowSize
    BY WindowAssumption DEF IInv, TypeOK, WindowOf
  <2> HIDE DEF bars
  <2>2. Len(bars) \in Nat /\ DOMAIN bars = 1..Len(bars)
    BY <2>1
  <2>3. \A i \in 1..Len(bars) : bars[i].close \in Prices
    <3>1. \A i \in 1..Len(bars) : bars[i] \in Row
      BY <2>1
    <3> QED
      BY <3>1 DEF Row
  <2>4. WindowSize \in Nat
    BY WindowAssumption
  <2> QED
    BY <2>1, <2>2, <2>3, <2>4
<1>3. e.symbol \in Names /\ e.close \in Prices /\ e.timestamp \in Int
  BY <1>1 DEF MarketEvents
<1>4. belief[e.symbol] \in Belief
  BY <1>3 DEF IInv, TypeOK
<1>5. answer \in [emit : BOOLEAN, direction : Direction, strength : Fraction, pos : Belief]
  <2> HIDE DEF closes, bars, e
  <2> QED
    BY <1>2, <1>3, <1>4, DecideAssumption
<1> HIDE DEF answer
<1>6. signal \in Events /\ signal.type # "MARKET"
  BY <1>3, <1>5 DEF SignalEvents, Events
<1>7. /\ portfolio' = OnMarket(portfolio, e)
      /\ belief' = [belief EXCEPT ![e.symbol] = answer.pos]
      /\ event_queue' = Tail(event_queue) \o left
  BY DEF ProcessMarket, answer
<1> HIDE DEF signal
<1>8. /\ left \in Seq(Events) /\ Len(left) <= 1
      /\ \A i \in DOMAIN left : left[i].type # "MARKET"
  BY <1>6, OneEvent
<1> HIDE DEF left
<1>9. event_queue' \in Seq(Events) /\ Len(event_queue') <= Len(event_queue)
  <2>1. event_queue \in Seq(Events) /\ event_queue # <<>>
    BY DEF IInv, TypeOK, ProcessMarket, Draining
  <2>2. event_queue' = Tail(event_queue) \o left
    BY <1>7
  <2> QED
    BY <1>8, <2>1, <2>2, HeadHandled
<1>10. Untraded(portfolio')
  BY <1>1, <1>7, MarkedUntraded DEF IInv
<1>11. belief' \in [Names -> Belief]
  BY <1>3, <1>5, <1>7 DEF IInv, TypeOK
<1>12. TypeOK'
  BY <1>9, <1>10, <1>11
     DEF IInv, TypeOK, ProcessMarket, Untraded, loop_vars, data_vars
<1>13. QueueBounded'
  BY <1>9, SymbolsListed DEF IInv, QueueBounded, TypeOK
<1>14. HeadReplaced
  BY <1>7, <1>8 DEF HeadReplaced
<1> QED
  BY <1>10, <1>12, <1>13, <1>14 DEF IInv, ProcessMarket, Draining, loop_vars

\* A signal leaves at most one order in its place.
LEMMA SignalIInv == IInv /\ ProcessSignal => IInv' /\ HeadReplaced
<1> SUFFICES ASSUME IInv, ProcessSignal PROVE IInv' /\ HeadReplaced
  OBVIOUS
<1> DEFINE left == OnSignal(portfolio, Head(event_queue))
<1>1. Head(event_queue) \in SignalEvents
  <2>1. Head(event_queue) \in Events /\ Head(event_queue).type = "SIGNAL"
    BY HeadTailProperties DEF IInv, TypeOK, ProcessSignal, Draining
  <2> QED
    BY <2>1 DEF Events, MarketEvents, SignalEvents, OrderEvents, RiskEvents
<1>2. /\ left \in Seq(Events) /\ Len(left) <= 1
      /\ \A i \in DOMAIN left : left[i].type # "MARKET"
  BY <1>1, SignalLeavesOrder DEF IInv
<1>3. event_queue' = Tail(event_queue) \o left
  BY DEF ProcessSignal
<1> HIDE DEF left
<1>4. event_queue' \in Seq(Events) /\ Len(event_queue') <= Len(event_queue)
  BY <1>2, <1>3, HeadHandled DEF IInv, TypeOK, ProcessSignal, Draining
<1>5. TypeOK'
  BY <1>4 DEF IInv, TypeOK, ProcessSignal, loop_vars, data_vars, account_vars
<1>6. QueueBounded'
  BY <1>4, SymbolsListed DEF IInv, QueueBounded, TypeOK
<1>7. HeadReplaced
  BY <1>2, <1>3 DEF HeadReplaced
<1> QED
  BY <1>5, <1>6, <1>7 DEF IInv, ProcessSignal, Draining, loop_vars, account_vars

\* An order leaves at most one order or veto in its place, and the risk
\* manager's memory stays 0 or the initial capital.
LEMMA OrderIInv == IInv /\ ProcessOrder => IInv' /\ HeadReplaced
<1> SUFFICES ASSUME IInv, ProcessOrder PROVE IInv' /\ HeadReplaced
  OBVIOUS
<1> DEFINE left == Evaluate(Head(event_queue), portfolio, day_start)
<1>1. Head(event_queue) \in OrderEvents
  <2>1. Head(event_queue) \in Events /\ Head(event_queue).type = "ORDER"
    BY HeadTailProperties DEF IInv, TypeOK, ProcessOrder, Draining
  <2> QED
    BY <2>1 DEF Events, MarketEvents, SignalEvents, OrderEvents, RiskEvents
<1>2. /\ left \in Seq(Events) /\ Len(left) <= 1
      /\ \A i \in DOMAIN left : left[i].type # "MARKET"
  BY <1>1, OrderEvaluated DEF IInv
<1>3. event_queue' = Tail(event_queue) \o left
  BY DEF ProcessOrder
<1> HIDE DEF left
<1>4. event_queue' \in Seq(Events) /\ Len(event_queue') <= Len(event_queue)
  BY <1>2, <1>3, HeadHandled DEF IInv, TypeOK, ProcessOrder, Draining
<1>5. day_start' = InitialCapital /\ InitialCapital \in Int
  BY NothingLost, PortfolioAssumption DEF IInv, ProcessOrder
<1>6. TypeOK'
  BY <1>4, <1>5 DEF IInv, TypeOK, ProcessOrder, loop_vars, data_vars
<1>7. QueueBounded'
  BY <1>4, SymbolsListed DEF IInv, QueueBounded, TypeOK
<1>8. HeadReplaced
  BY <1>2, <1>3 DEF HeadReplaced
<1> QED
  BY <1>5, <1>6, <1>7, <1>8 DEF IInv, ProcessOrder, Draining, loop_vars

\* A veto leaves nothing in its place; a FILL is never at the head.
LEMMA FillOrRiskIInv == IInv /\ ProcessFillOrRisk => IInv' /\ HeadReplaced
<1> SUFFICES ASSUME IInv, ProcessFillOrRisk PROVE IInv' /\ HeadReplaced
  OBVIOUS
<1>1. pc = "drain" /\ event_queue # <<>> /\ event_queue \in Seq(Events)
  BY DEF IInv, TypeOK, ProcessFillOrRisk, Draining
<1>2. portfolio' = portfolio
  <2>1. Head(event_queue) \in Events
    BY <1>1, HeadTailProperties
  <2>2. Head(event_queue).type # "FILL"
    BY <2>1 DEF Events, MarketEvents, SignalEvents, OrderEvents, RiskEvents
  <2> QED
    BY <2>2 DEF ProcessFillOrRisk
<1>3. event_queue' \in Seq(Events) /\ Len(event_queue') <= Len(event_queue)
  BY <1>1, HeadTailProperties, EmptySeq DEF ProcessFillOrRisk
<1>4. TypeOK'
  BY <1>2, <1>3 DEF IInv, TypeOK, ProcessFillOrRisk, loop_vars, data_vars
<1>5. QueueBounded'
  BY <1>1, <1>3, SymbolsListed DEF IInv, QueueBounded, TypeOK
<1>6. HeadReplaced
  <2>1. PICK s : s = <<>>
    OBVIOUS
  <2>2. s \in Seq(Events) /\ Len(s) <= 1 /\ event_queue' = Tail(event_queue) \o s
    BY <1>1, <2>1, HeadTailProperties, ConcatEmptySeq DEF ProcessFillOrRisk
  <2>3. \A i \in DOMAIN s : s[i].type # "MARKET"
    BY <2>1
  <2> QED
    BY <2>2, <2>3 DEF HeadReplaced
<1> QED
  BY <1>1, <1>2, <1>4, <1>5, <1>6 DEF IInv, ProcessFillOrRisk, loop_vars

\* The end of a bar finds the queue empty and keeps the portfolio untraded.
LEMMA EndBarIInv == IInv /\ EndBar => IInv'
<1> SUFFICES ASSUME IInv, EndBar PROVE IInv'
  OBVIOUS
<1> DEFINE bars == WindowOf(Symbols[1])
<1>1. Untraded(portfolio')
  <2>1. CASE bars = <<>>
    BY <2>1 DEF IInv, EndBar, Snapshot
  <2>2. CASE bars # <<>>
    <3>1. bars \in Seq(Row)
      BY DEF IInv, TypeOK, WindowOf
    <3>2. bars[Len(bars)].timestamp \in Int
      <4> HIDE DEF bars
      <4>1. Len(bars) \in 1..Len(bars)
        BY <2>2, <3>1, EmptySeq
      <4>2. bars[Len(bars)] \in Row
        BY <3>1, <4>1
      <4> QED
        BY <4>2 DEF Row
    <3> QED
      BY <2>2, <3>2, RecordedUntraded DEF IInv, EndBar, Snapshot
  <2> QED
    BY <2>1, <2>2
<1>2. progress' \in Nat
  <2>1. /\ ProgressEvery \in Nat \ {0} /\ ProgressWrap \in Nat \ {0}
        /\ bar_count \in Nat /\ progress \in Nat
    BY BacktestAssumption DEF IInv, TypeOK
  <2>2. \A a \in Nat, b \in Nat \ {0} : a % b \in Nat /\ a \div b \in Nat
    OBVIOUS
  <2> QED
    BY <2>1, <2>2 DEF EndBar, EstimatedProgress
<1>3. pc' \in {"bars", "failed"} /\ k' = 1 /\ event_queue' = <<>> /\ event_queue = <<>>
  BY DEF EndBar, AfterCallback
<1>4. TypeOK'
  <2>1. k' \in 1..(Len(Symbols) + 1) /\ event_queue' \in Seq(Events)
    BY <1>3, SymbolsListed
  <2>2. /\ any_advanced' = FALSE /\ UNCHANGED <<disk, bar_count, data_vars, belief, day_start>>
    BY DEF EndBar
  <2>3. IsPortfolio(portfolio')
    BY <1>1 DEF Untraded
  <2> QED
    BY <1>2, <1>3, <2>1, <2>2, <2>3 DEF IInv, TypeOK, data_vars
<1>5. QueueBounded' /\ Len(event_queue') <= k' - 1
  BY <1>3, SymbolsListed DEF QueueBounded
<1> QED
  BY <1>1, <1>3, <1>4, <1>5 DEF IInv, EndBar

\* The end of the replay keeps the invariant.
LEMMA FinishIInv == IInv /\ Finish => IInv'
<1> SUFFICES ASSUME IInv, Finish PROVE IInv'
  OBVIOUS
<1>1. progress' \in Nat
  <2>1. ProgressEvery \in Nat \ {0} /\ ProgressWrap \in Nat \ {0}
    BY BacktestAssumption
  <2>2. \A a \in Nat, b \in Nat \ {0} : a \div b \in Nat
    OBVIOUS
  <2> QED
    BY <2>1, <2>2 DEF Finish, FullProgress
<1>2. pc' \in {"done", "failed"}
  BY DEF Finish, AfterCallback
<1>3. TypeOK'
  BY <1>1, <1>2 DEF IInv, TypeOK, Finish, data_vars, account_vars
<1> QED
  BY <1>2, <1>3 DEF IInv, Finish, account_vars, QueueBounded

\* Every step keeps the invariant.
LEMMA NextIInv == IInv /\ [Next]_vars => IInv'
<1> SUFFICES ASSUME IInv, [Next]_vars PROVE IInv'
  OBVIOUS
<1>1. CASE ConstructThrows
  BY <1>1 DEF IInv, TypeOK, ConstructThrows, data_vars, account_vars, QueueBounded
<1>2. CASE SkipExhaustedSymbol
  <2>1. k' = k + 1 /\ k' \in 1..(Len(Symbols) + 1)
    BY <1>2, SymbolsListed DEF IInv, TypeOK, SkipExhaustedSymbol
  <2>2. Len(event_queue) \in Nat
    BY DEF IInv, TypeOK
  <2>3. Len(event_queue) <= k' - 1 /\ event_queue' = event_queue /\ pc' = pc /\ pc = "bars"
    BY <1>2, <2>1, <2>2 DEF IInv, TypeOK, SkipExhaustedSymbol
  <2>4. TypeOK'
    BY <1>2, <2>1 DEF IInv, TypeOK, SkipExhaustedSymbol, data_vars, account_vars
  <2> QED
    BY <1>2, <2>3, <2>4 DEF IInv, SkipExhaustedSymbol, account_vars, QueueBounded
<1>3. CASE StartDraining
  BY <1>3 DEF IInv, TypeOK, StartDraining, data_vars, account_vars, QueueBounded
<1>4. CASE UNCHANGED vars
  BY <1>4 DEF IInv, TypeOK, vars, loop_vars, data_vars, account_vars, QueueBounded
<1> QED
  BY <1>1, <1>2, <1>3, <1>4, ConstructIInv, AdvanceIInv, MarketIInv, SignalIInv,
     OrderIInv, FillOrRiskIInv, EndBarIInv, FinishIInv DEF Next, Step, Terminated

\* The invariant holds in every reachable state.
LEMMA Invariance == Spec => []IInv
  BY InitIInv, NextIInv, PTL DEF Spec

\* Every variable keeps its type and no event outside the four kinds is
\* ever queued: no step of the engine can produce a FILL.
THEOREM TypeCorrect == Spec => []TypeOK
<1>1. IInv => TypeOK
  BY DEF IInv
<1> QED
  BY <1>1, Invariance, PTL

\* The queue is bounded by the number of listed symbols.
THEOREM QueueStaysBounded == Spec => []QueueBounded
<1>1. IInv => QueueBounded
  BY DEF IInv
<1> QED
  BY <1>1, Invariance, PTL

\* Whatever the data and the strategy, no run ever trades.
THEOREM NoRunTrades == Spec => []NeverTrades
<1>1. IInv => NeverTrades
  BY DEF IInv, Untraded, NeverTrades
<1> QED
  BY <1>1, Invariance, PTL

\* With a loss limit of at least zero and room for a position, an order once
\* queued never leaves the queue.
THEOREM OrdersStay ==
  ASSUME LossLimitBps >= 0, MaxPositions > 0
  PROVE  Spec => OrderNeverLeaves
<1>1. ASSUME IInv, [Next]_vars, HasOrder PROVE HasOrder'
  <2>1. PICK i \in DOMAIN event_queue : event_queue[i].type = "ORDER"
    BY <1>1 DEF HasOrder
  <2>2. event_queue \in Seq(Events)
    BY <1>1 DEF IInv, TypeOK
  <2>3. event_queue # <<>> /\ Head(event_queue) = event_queue[1]
    BY <2>1, <2>2
  <2>4. CASE ProcessMarket \/ ProcessSignal \/ ProcessFillOrRisk
    <3>1. Head(event_queue).type # "ORDER"
      BY <2>4 DEF ProcessMarket, ProcessSignal, ProcessFillOrRisk, Draining
    <3>2. PICK s \in Seq(Events) : Len(s) <= 1 /\ event_queue' = Tail(event_queue) \o s
      BY <1>1, <2>4, MarketIInv, SignalIInv, FillOrRiskIInv DEF HeadReplaced
    <3>3. \E j \in DOMAIN (Tail(event_queue) \o s) :
            (Tail(event_queue) \o s)[j] = event_queue[i]
      BY <2>1, <2>2, <2>3, <3>1, <3>2, HeadHandled
    <3> QED
      BY <2>1, <3>2, <3>3 DEF HasOrder
  <2>5. CASE ProcessOrder
    <3> DEFINE order == Head(event_queue)
    <3>1. order \in OrderEvents /\ order \in Events /\ order.type = "ORDER"
      <4>1. order \in Events /\ order.type = "ORDER"
        BY <2>2, <2>3, <2>5, HeadTailProperties DEF ProcessOrder, Draining
      <4> QED
        BY <4>1 DEF Events, MarketEvents, SignalEvents, OrderEvents, RiskEvents
    <3>2. Evaluate(order, portfolio, day_start) = <<order>>
      BY <1>1, <3>1, OrderEvaluated DEF IInv
    <3>3. event_queue' = Tail(event_queue) \o <<order>>
      BY <2>5, <3>2 DEF ProcessOrder
    <3> HIDE DEF order
    <3>4. PICK s : s = <<order>>
      OBVIOUS
    <3>5. s \in Seq(Events) /\ Len(s) = 1 /\ Len(s) <= 1 /\ s[1] = order
      BY <3>1, <3>4
    <3>6. \E j \in DOMAIN (Tail(event_queue) \o s) : (Tail(event_queue) \o s)[j] = order
      BY <2>2, <2>3, <3>5, HeadHandled
    <3> QED
      BY <3>1, <3>3, <3>4, <3>6 DEF HasOrder
  <2>7. CASE AdvanceSymbol
    <3>1. PICK e : event_queue' = Append(event_queue, e)
      BY <2>7 DEF AdvanceSymbol
    <3>2. event_queue'[i] = event_queue[i] /\ i \in DOMAIN event_queue'
      BY <2>1, <2>2, <3>1
    <3> QED
      BY <2>1, <3>2 DEF HasOrder
  <2>8. CASE event_queue' = event_queue
    BY <1>1, <2>8 DEF HasOrder
  <2>9. \/ ProcessMarket \/ ProcessSignal \/ ProcessOrder \/ ProcessFillOrRisk
        \/ AdvanceSymbol \/ event_queue' = event_queue
    BY <1>1 DEF Next, Step, Construct, ConstructThrows, SkipExhaustedSymbol,
       StartDraining, EndBar, Finish, Terminated, vars
  <2> QED
    BY <2>4, <2>5, <2>7, <2>8, <2>9
<1>2. IInv /\ [Next]_vars => [HasOrder => HasOrder']_vars
  BY <1>1
<1> QED
  BY <1>2, Invariance, PTL DEF Spec, OrderNeverLeaves

-----------------------------------------------------------------------------
(* Names that do not survive the copy.                                      *)

\* A strategy that has no window and no position takes none.
SilentOnNothing == \A close \in Prices : Decide(<<>>, close, 0).pos = 0

\* A symbol whose name does not survive the copy into a char[16] never moves
\* the strategy (Strategy.cpp:36-38, DataHandler.cpp:24-28): for every list
\* of symbols, repeats allowed, and every strategy that a missing window
\* leaves silent, as every strategy of the repository is.
THEOREM LongNamesStaySilent ==
  ASSUME SilentOnNothing
  PROVE  Spec => []LongNamesNeverSignal
<1>1. ASSUME IInv, LongNamesNeverSignal, [Next]_vars PROVE LongNamesNeverSignal'
  <2>1. CASE ProcessMarket
    <3> DEFINE e == Head(event_queue)
               bars == WindowOf(e.symbol)
               answer == Decide([i \in DOMAIN bars |-> bars[i].close], e.close,
                                belief[e.symbol])
    <3>1. e.symbol \in Names /\ e.close \in Prices
      <4>1. e \in Events /\ e.type = "MARKET"
        BY <1>1, <2>1, HeadTailProperties DEF IInv, TypeOK, ProcessMarket, Draining
      <4> QED
        BY <4>1 DEF Events, MarketEvents, SignalEvents, OrderEvents, RiskEvents
    <3>2. belief' = [belief EXCEPT ![e.symbol] = answer.pos] /\ belief \in [Names -> Belief]
      BY <1>1, <2>1 DEF ProcessMarket, IInv, TypeOK
    <3>3. ASSUME NEW t \in Listed, CopySymbol[t] \notin Listed, CopySymbol[t] = e.symbol
          PROVE  answer.pos = 0
      <4>1. bars = <<>> /\ belief[e.symbol] = 0
        BY <1>1, <3>3 DEF WindowOf, LongNamesNeverSignal
      <4>2. [i \in DOMAIN bars |-> bars[i].close] = <<>>
        BY <4>1
      <4> QED
        BY <3>1, <4>1, <4>2 DEF SilentOnNothing
    <3> HIDE DEF e, answer
    <3>4. ASSUME NEW t \in Listed, CopySymbol[t] \notin Listed
          PROVE  belief'[CopySymbol[t]] = 0
      <4>1. CopySymbol[t] \in Names /\ belief[CopySymbol[t]] = 0
        BY <1>1, <3>4, SymbolsListed DEF LongNamesNeverSignal
      <4> QED
        BY <3>2, <3>3, <3>4, <4>1
    <3> QED
      BY <3>4 DEF LongNamesNeverSignal
  <2>2. CASE ~ProcessMarket
    <3>1. belief' = belief
      BY <1>1, <2>2 DEF Next, Step, Construct, ConstructThrows, AdvanceSymbol,
         SkipExhaustedSymbol, StartDraining, ProcessSignal, ProcessOrder, ProcessFillOrRisk,
         EndBar, Finish, Terminated, account_vars, vars
    <3> QED
      BY <1>1, <3>1 DEF LongNamesNeverSignal
  <2> QED
    BY <2>1, <2>2
<1>2. IInv /\ LongNamesNeverSignal /\ [Next]_vars => LongNamesNeverSignal'
  BY <1>1
<1>3. Init => LongNamesNeverSignal
  BY SymbolsListed DEF Init, LongNamesNeverSignal, Names
<1> QED
  BY <1>2, <1>3, Invariance, PTL DEF Spec
=============================================================================
