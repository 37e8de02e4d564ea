---------------------------- MODULE TradingProofs ----------------------------
(***************************************************************************)
(* Proofs about the portfolio, the risk manager and the simulated           *)
(* execution used together, for any prices, capital, limits and costs.      *)
(*                                                                         *)
(* A bar marks every symbol in turn.  First what that fold does to a        *)
(* portfolio: it moves prices and unrealized gains and nothing else.  Then  *)
(* equity, the sizes of orders, the limit and the drawdown; then the books, *)
(* and what of the metrics follows from them.                               *)
(***************************************************************************)
EXTENDS Trading, ArithmeticProofs, SequenceTheorems

-----------------------------------------------------------------------------
(* Portfolios.                                                              *)

Position ==
  [quantity : Int, avg_price : Fraction, unrealized_pnl : Fraction,
   realized_pnl : Fraction, commission : Int]

\* The maps from some of the symbols.
Maps(V) == UNION {[D -> V] : D \in SUBSET Symbols}

Fill == [type : {"FILL"}, symbol : Symbols, side : {"BUY", "SELL"}, quantity : Nat,
         fill_price : Int, commission : Int, timestamp : Int]

Snapshot == [timestamp : Int, equity : Int, cash : Int]

Portfolios ==
  [cash : Int, positions : Maps(Position), last_price : Maps(Prices),
   equity_curve : Seq(Snapshot), fill_history : Seq(Fill)]

LEMMA MapType ==
  ASSUME NEW V, NEW f
  PROVE  f \in Maps(V) <=> DOMAIN f \subseteq Symbols /\ f \in [DOMAIN f -> V]
BY DEF Maps

\* map[x] = v keeps a map a map.
LEMMA PutInMap ==
  ASSUME NEW V, NEW f \in Maps(V), NEW x \in Symbols, NEW v \in V
  PROVE  Put(f, x, v) \in Maps(V)
<1>1. DOMAIN f \subseteq Symbols /\ f \in [DOMAIN f -> V]
  BY MapType
<1>2. Put(f, x, v) \in [DOMAIN f \cup {x} -> V]
  BY <1>1 DEF Put
<1> QED
  BY <1>1, <1>2, MapType

\* A gain is a fraction.
LEMMA GainType ==
  ASSUME NEW quantity \in Int, NEW price \in Int, NEW avg \in Fraction
  PROVE  Gain(quantity, price, avg) \in Fraction
<1>1. avg.n \in Int /\ avg.d \in Nat \ {0}
  BY DEF Fraction
<1>2. quantity * (price * avg.d - avg.n) \in Int
  BY <1>1
<1> QED
  BY <1>1, <1>2, RatReduces DEF Gain

-----------------------------------------------------------------------------
(* Marking.                                                                 *)

\* q is p with other prices and unrealized gains.
SameBooks(p, q) ==
  /\ q.cash = p.cash /\ q.equity_curve = p.equity_curve /\ q.fill_history = p.fill_history
  /\ DOMAIN q.positions = DOMAIN p.positions
  /\ \A s \in DOMAIN p.positions :
       /\ q.positions[s].quantity = p.positions[s].quantity
       /\ q.positions[s].avg_price = p.positions[s].avg_price
       /\ q.positions[s].realized_pnl = p.positions[s].realized_pnl
       /\ q.positions[s].commission = p.positions[s].commission

\* on_market for one symbol (Portfolio.cpp:35-43).
LEMMA MarkOne ==
  ASSUME NEW p \in Portfolios, NEW s \in Symbols, NEW close \in Prices
  PROVE  LET q == OnMarket(p, [symbol |-> s, close |-> close])
         IN  q \in Portfolios /\ SameBooks(p, q)
<1> DEFINE e == [symbol |-> s, close |-> close]
           marked(x) == [p.positions[x] EXCEPT
                           !.unrealized_pnl = Gain(p.positions[x].quantity, close,
                                                   p.positions[x].avg_price)]
           after == [x \in DOMAIN p.positions |-> IF x = s THEN marked(x) ELSE p.positions[x]]
           q == OnMarket(p, e)
<1>1. /\ p.positions \in Maps(Position) /\ p.last_price \in Maps(Prices)
      /\ p.cash \in Int /\ p.equity_curve \in Seq(Snapshot) /\ p.fill_history \in Seq(Fill)
  BY DEF Portfolios
<1>2. q = [p EXCEPT !.last_price = Put(p.last_price, s, close), !.positions = after]
  BY DEF OnMarket
<1>3. /\ DOMAIN p.positions \subseteq Symbols
      /\ \A x \in DOMAIN p.positions : p.positions[x] \in Position
  BY <1>1, MapType
<1>4. ASSUME NEW x \in DOMAIN p.positions
      PROVE  /\ marked(x) \in Position
             /\ marked(x).quantity = p.positions[x].quantity
             /\ marked(x).avg_price = p.positions[x].avg_price
             /\ marked(x).realized_pnl = p.positions[x].realized_pnl
             /\ marked(x).commission = p.positions[x].commission
  <2>1. PICK b \in Position : b = p.positions[x]
    BY <1>3
  <2>2. close \in Int
    BY TradingAssumption
  <2>3. PICK g \in Fraction : g = Gain(b.quantity, close, b.avg_price)
    BY <2>2, GainType DEF Position
  <2>4. marked(x) = [b EXCEPT !.unrealized_pnl = g]
    BY <2>1, <2>3
  <2> HIDE DEF marked
  <2> QED
    BY <2>1, <2>4 DEF Position
<1> HIDE DEF marked
<1>5. after \in Maps(Position) /\ DOMAIN after = DOMAIN p.positions
  <2>1. after \in [DOMAIN p.positions -> Position]
    BY <1>3, <1>4
  <2> QED
    BY <1>3, <2>1, MapType
<1>6. Put(p.last_price, s, close) \in Maps(Prices)
  BY <1>1, PutInMap
<1>7. \A x \in DOMAIN p.positions :
        /\ after[x].quantity = p.positions[x].quantity
        /\ after[x].avg_price = p.positions[x].avg_price
        /\ after[x].realized_pnl = p.positions[x].realized_pnl
        /\ after[x].commission = p.positions[x].commission
  BY <1>4
<1> HIDE DEF after, q, e
<1>8. /\ q.cash = p.cash /\ q.equity_curve = p.equity_curve
      /\ q.fill_history = p.fill_history /\ q.positions = after
  BY <1>2 DEF Portfolios
<1>9. q \in Portfolios
  BY <1>2, <1>5, <1>6 DEF Portfolios
<1> QED
  BY <1>5, <1>7, <1>8, <1>9 DEF SameBooks, q, e

\* it[s] is the portfolio p with the symbols of s marked, one by one.
MarksUp(it, closes, p, D) ==
  it = [s \in D |-> IF s = {} THEN p
                    ELSE OnMarket(it[s \ {Picked(s)}],
                                  [symbol |-> Picked(s), close |-> closes[Picked(s)]])]

\* The portfolio that a bar leaves.
Marked(q, closes) ==
  FoldSet(LAMBDA s, p : OnMarket(p, [symbol |-> s, close |-> closes[s]]), q, Symbols)

LEMMA BarUnfolds ==
  ASSUME NEW closes, NEW p
  PROVE  Marked(p, closes) = (CHOOSE it : MarksUp(it, closes, p, SUBSET Symbols))[Symbols]
BY DEF Marked, FoldSet, MapThenFoldSet, MarksUp, Picked

\* The recursion has a solution: it is built for the sets of at most n
\* symbols, n by n.
LEMMA MarksExist ==
  ASSUME NEW closes, NEW p, IsFiniteSet(Symbols)
  PROVE  \E it : MarksUp(it, closes, p, SUBSET Symbols)
<1> DEFINE Small(n) == {s \in SUBSET Symbols : Cardinality(s) <= n}
           Solved(n) == \E it : MarksUp(it, closes, p, Small(n))
           Bad == {n \in Nat : ~Solved(n)}
           Mark(q, x) == OnMarket(q, [symbol |-> x, close |-> closes[x]])
<1>1. \A s \in SUBSET Symbols : IsFiniteSet(s) /\ Cardinality(s) \in Nat
  BY FS_Subset, FS_CardinalityType
<1>2. Solved(0)
  <2>1. \A s \in Small(0) : s = {}
    BY <1>1, FS_EmptySet
  <2> DEFINE it == [s \in Small(0) |-> p]
  <2>2. MarksUp(it, closes, p, Small(0))
    BY <2>1 DEF MarksUp
  <2> QED
    BY <2>2
<1>3. ASSUME NEW n \in Nat, Solved(n) PROVE Solved(n + 1)
  <2>1. PICK it : MarksUp(it, closes, p, Small(n))
    BY <1>3
  <2>2. it = [s \in Small(n) |-> IF s = {} THEN p ELSE Mark(it[s \ {Picked(s)}], Picked(s))]
    BY <2>1 DEF MarksUp
  <2> DEFINE next == [s \in Small(n + 1) |->
                        IF s = {} THEN p ELSE Mark(it[s \ {Picked(s)}], Picked(s))]
  <2> HIDE DEF Mark
  <2>3. ASSUME NEW s \in Small(n) PROVE next[s] = it[s]
    <3>1. s \in Small(n + 1)
      BY <1>1
    <3> QED
      BY <2>2, <3>1
  <2>4. ASSUME NEW s \in Small(n + 1), s # {}
        PROVE  s \ {Picked(s)} \in Small(n)
    BY <1>1, <2>4, PickedAway
  <2>5. next = [s \in Small(n + 1) |->
                  IF s = {} THEN p ELSE Mark(next[s \ {Picked(s)}], Picked(s))]
    <3> HIDE DEF Small
    <3> QED
      BY <2>3, <2>4
  <2>6. MarksUp(next, closes, p, Small(n + 1))
    <3> HIDE DEF next, Small
    <3> QED
      BY <2>5 DEF MarksUp, Mark
  <2> QED
    BY <2>6
<1> HIDE DEF Solved
<1>4. Bad = {}
  <2> SUFFICES ASSUME Bad # {} PROVE FALSE
    OBVIOUS
  <2>1. PICK n \in Bad : \A m \in Bad : n <= m
    BY LeastNatural
  <2>2. n \in Nat /\ ~Solved(n) /\ n # 0
    BY <1>2
  <2>3. n - 1 \in Nat /\ n - 1 \notin Bad /\ (n - 1) + 1 = n
    BY <2>1, <2>2
  <2>4. Solved(n - 1)
    BY <2>3
  <2>5. Solved((n - 1) + 1)
    BY <1>3, <2>3, <2>4
  <2> QED
    BY <2>2, <2>3, <2>5
<1>5. Cardinality(Symbols) \in Nat /\ Solved(Cardinality(Symbols))
  BY <1>4, FS_CardinalityType
<1>6. Small(Cardinality(Symbols)) = SUBSET Symbols
  BY FS_Subset
<1> QED
  BY <1>5, <1>6 DEF Solved

LEMMA SameBooksAgain ==
  ASSUME NEW p, NEW q, NEW r, SameBooks(p, q), SameBooks(q, r)
  PROVE  SameBooks(p, r)
BY DEF SameBooks

\* A bar leaves a portfolio whose books are the same, however many symbols
\* there are and in whatever order they are marked.
LEMMA BarKeepsBooks ==
  ASSUME IsFiniteSet(Symbols), NEW closes \in [Symbols -> Prices], NEW p \in Portfolios
  PROVE  Marked(p, closes) \in Portfolios /\ SameBooks(p, Marked(p, closes))
<1> DEFINE it == CHOOSE it : MarksUp(it, closes, p, SUBSET Symbols)
<1>1. MarksUp(it, closes, p, SUBSET Symbols)
  BY MarksExist
<1> HIDE DEF it
<1> DEFINE Kept(q) == q \in Portfolios /\ SameBooks(p, q)
           Bad == {n \in Nat : \E s \in SUBSET Symbols : Cardinality(s) = n /\ ~Kept(it[s])}
<1>2. \A s \in SUBSET Symbols : IsFiniteSet(s) /\ Cardinality(s) \in Nat
  BY FS_Subset, FS_CardinalityType
<1>3. \A s \in SUBSET Symbols :
        it[s] = IF s = {} THEN p
                ELSE OnMarket(it[s \ {Picked(s)}],
                              [symbol |-> Picked(s), close |-> closes[Picked(s)]])
  BY <1>1 DEF MarksUp
<1>4. Kept(p)
  BY DEF SameBooks
<1>5. Bad = {}
  <2> SUFFICES ASSUME Bad # {} PROVE FALSE
    OBVIOUS
  <2>1. PICK n \in Bad : \A m \in Bad : n <= m
    BY LeastNatural
  <2>2. PICK s \in SUBSET Symbols : Cardinality(s) = n /\ ~Kept(it[s])
    OBVIOUS
  <2>3. s # {}
    BY <1>3, <1>4, <2>2
  <2> DEFINE rest == s \ {Picked(s)}
             e == [symbol |-> Picked(s), close |-> closes[Picked(s)]]
  <2>4. /\ Picked(s) \in Symbols /\ rest \in SUBSET Symbols
        /\ Cardinality(rest) \in Nat /\ Cardinality(rest) < n
    BY <1>2, <2>2, <2>3, PickedAway
  <2>5. Kept(it[rest])
    BY <2>1, <2>4
  <2>6. it[s] = OnMarket(it[rest], e)
    BY <1>3, <2>3
  <2>7. closes[Picked(s)] \in Prices
    BY <2>4
  <2>8. OnMarket(it[rest], e) \in Portfolios /\ SameBooks(it[rest], OnMarket(it[rest], e))
    BY <2>4, <2>5, <2>7, MarkOne
  <2> QED
    BY <2>2, <2>5, <2>6, <2>8, SameBooksAgain
<1>6. Kept(it[Symbols])
  <2>1. Cardinality(Symbols) \in Nat /\ Symbols \in SUBSET Symbols
    BY <1>2
  <2> QED
    BY <1>5, <2>1
<1> QED
  BY <1>6, BarUnfolds DEF it

-----------------------------------------------------------------------------
(* Equity.                                                                  *)

Priced(p) == DOMAIN p.positions \cap DOMAIN p.last_price

\* The market values of the positions that have a price.
Values(p) == [s \in Priced(p) |-> p.positions[s].quantity * p.last_price[s]]

LEMMA EquityIs ==
  ASSUME NEW p
  PROVE  Equity(p) = p.cash + Total(Values(p), Priced(p))
<1> DEFINE S == Priced(p)
           f == [s \in S |-> p.positions[s].quantity * p.last_price[s]]
           Direct(it) ==
             it = [s \in SUBSET S |->
                     IF s = {} THEN 0
                     ELSE p.positions[Picked(s)].quantity * p.last_price[Picked(s)]
                            + it[s \ {Picked(s)}]]
<1>1. Equity(p) = p.cash + (CHOOSE it : Direct(it))[S]
  BY DEF Equity, MapThenSumSet, MapThenFoldSet, Picked, Priced
<1>2. \A it : Direct(it) <=> SumsUp(it, f, SUBSET S)
  <2>1. \A s \in SUBSET S : s # {} =>
          f[Picked(s)] = p.positions[Picked(s)].quantity * p.last_price[Picked(s)]
    BY DEF Picked
  <2> HIDE DEF f, S
  <2> QED
    BY <2>1 DEF SumsUp
<1> HIDE DEF Direct, f
<1>3. (CHOOSE it : Direct(it)) = (CHOOSE it : SumsUp(it, f, SUBSET S))
  BY <1>2, Zenon
<1> QED
  BY <1>1, <1>3 DEF Total, f, Values

LEMMA MarketValues ==
  ASSUME NEW p \in Portfolios
  PROVE  /\ IsFiniteSet(Priced(p)) /\ p.cash \in Int
         /\ \A s \in Priced(p) :
              /\ Values(p)[s] \in Int
              /\ p.positions[s].quantity >= 0 => Values(p)[s] \in Nat
<1>1. /\ DOMAIN p.positions \subseteq Symbols /\ p.positions \in [DOMAIN p.positions -> Position]
      /\ p.last_price \in [DOMAIN p.last_price -> Prices] /\ p.cash \in Int
  BY MapType DEF Portfolios
<1>2. IsFiniteSet(Priced(p))
  BY <1>1, TradingAssumption, FS_Subset DEF Priced
<1>3. ASSUME NEW s \in Priced(p)
      PROVE  /\ Values(p)[s] \in Int
             /\ p.positions[s].quantity >= 0 => Values(p)[s] \in Nat
  <2>1. PICK b \in Position, price \in Prices :
           b = p.positions[s] /\ price = p.last_price[s]
    BY <1>1 DEF Priced
  <2>2. PICK n \in Int, c \in Nat : n = b.quantity /\ c = price
    BY TradingAssumption DEF Position
  <2>3. Values(p)[s] = n * c
    BY <2>1, <2>2 DEF Values
  <2>4. n * c \in Int /\ (n >= 0 => n * c \in Nat)
    OBVIOUS
  <2> QED
    BY <2>1, <2>2, <2>3, <2>4
<1> QED
  BY <1>1, <1>2, <1>3

\* Equity is whole money (Portfolio.cpp:25-33).
LEMMA EquityType ==
  ASSUME NEW p \in Portfolios
  PROVE  Equity(p) \in Int
<1>1. Total(Values(p), Priced(p)) \in Int
  BY MarketValues, TotalInt
<1> QED
  BY <1>1, MarketValues, EquityIs

\* What is not short is worth something.
LEMMA EquityAboveCash ==
  ASSUME NEW p \in Portfolios, \A s \in DOMAIN p.positions : p.positions[s].quantity >= 0
  PROVE  Equity(p) >= p.cash
<1>1. \A s \in Priced(p) : Values(p)[s] \in Nat
  BY MarketValues DEF Priced
<1>2. Total(Values(p), Priced(p)) \in Nat
  BY <1>1, MarketValues, TotalIn
<1> QED
  BY <1>2, MarketValues, EquityIs

-----------------------------------------------------------------------------
(* Orders.                                                                  *)

Signal == [type : {"SIGNAL"}, symbol : Symbols, direction : {"LONG", "SHORT", "FLAT"},
           strength : Strengths, timestamp : Int]

Orders(type) == [type : {type}, symbol : Symbols, side : {"BUY", "SELL"}, quantity : Nat,
                 timestamp : Int]

Order == Orders("ORDER")

Approved == Orders("APPROVED")

Veto == [type : {"RISK"}, symbol : Symbols, requested_qty : Nat]

\* The order closes what p holds of its symbol, or its cost is capped.
Sized(order, p) ==
  LET held == PositionOf(p, order.symbol).quantity
  IN  \/ /\ order.quantity = MagnitudeOf(held)
         /\ order.side = IF held > 0 THEN "SELL" ELSE "BUY"
      \/ 20 * order.quantity * p.last_price[order.symbol] <= Equity(p)

\* The strengths that the strategies of the catalogue signal: module
\* SignalsProofs has the proof (DecisionsSound).
ProperStrengths == \A x \in Strengths : ProperStrength(x)

\* A portfolio worth less than nothing buys nothing.
LEMMA NoSizeInDebt ==
  ASSUME NEW equity \in Int, equity < 0, NEW n \in Nat, NEW d \in Nat \ {0}
  PROVE  (equity * n) \div d \in Int /\ (equity * n) \div d <= 0
<1>1. PICK a \in Int : a = equity * n
  OBVIOUS
<1>2. a <= 0
  BY <1>1
<1>3. a \div d \in Int /\ a \div d <= 0
  BY <1>2
<1> QED
  BY <1>1, <1>3

\* The size that on_signal computes (Portfolio.cpp:45-52).
LEMMA SizeType ==
  ASSUME NEW p \in Portfolios, NEW sig, NEW x, ProperStrength(x), sig.strength = x,
         sig.symbol \in Symbols
  PROVE  /\ PositionSize(p, sig) \in Int
         /\ PositionSize(p, sig) > 0 =>
              20 * PositionSize(p, sig) * p.last_price[sig.symbol] <= Equity(p)
<1>1. CASE ~(sig.symbol \in DOMAIN p.last_price /\ p.last_price[sig.symbol] > 0)
  <2>1. PositionSize(p, sig) = 0
    BY <1>1 DEF PositionSize
  <2> QED
    BY <2>1
<1>2. CASE sig.symbol \in DOMAIN p.last_price /\ p.last_price[sig.symbol] > 0
  <2>1. PICK price \in Nat \ {0} : price = p.last_price[sig.symbol]
    <3>1. p.last_price \in [DOMAIN p.last_price -> Prices] /\ Prices \subseteq Nat \ {0}
      BY MapType, TradingAssumption DEF Portfolios
    <3> QED
      BY <1>2, <3>1
  <2>2. PICK equity \in Int : equity = Equity(p)
    BY EquityType
  <2>3. PositionSize(p, sig) = (equity * x.n) \div (20 * x.d * price)
    BY <1>2, <2>1, <2>2 DEF PositionSize
  <2>4. CASE equity < 0
    <3>1. PICK n \in Nat, d \in Nat \ {0} : n = x.n /\ d = 20 * x.d * price
      <4>1. x.n \in Nat /\ x.d \in Nat \ {0}
        BY DEF ProperStrength, Fraction
      <4>2. 20 * x.d \in Nat \ {0}
        BY <4>1
      <4>3. 20 * x.d * price \in Nat \ {0}
        BY <4>2, PositiveProduct
      <4> QED
        BY <4>1, <4>3
    <3>2. PositionSize(p, sig) = (equity * n) \div d
      BY <2>3, <3>1
    <3>3. PositionSize(p, sig) \in Int /\ PositionSize(p, sig) <= 0
      BY <2>4, <3>2, NoSizeInDebt
    <3> QED
      BY <3>3
  <2>5. CASE ~(equity < 0)
    <3>1. equity \in Nat
      BY <2>5
    <3>2. /\ PositionSize(p, sig) \in Int
          /\ 20 * PositionSize(p, sig) * price <= equity
      BY <2>3, <3>1, SizeWithinCap
    <3> QED
      BY <2>1, <2>2, <3>2
  <2> QED
    BY <2>4, <2>5
<1> QED
  BY <1>1, <1>2

LEMMA PositionType ==
  ASSUME NEW p \in Portfolios, NEW s \in Symbols
  PROVE  PositionOf(p, s) \in Position
<1>1. p.positions \in [DOMAIN p.positions -> Position]
  BY MapType DEF Portfolios
<1>2. NewPosition \in Position
  BY DEF NewPosition, Position, Zero, Fraction
<1> QED
  BY <1>1, <1>2 DEF PositionOf

\* A signal becomes no order or one that is sized (Portfolio.cpp:54-81).
LEMMA SignalOrders ==
  ASSUME ProperStrengths, NEW p \in Portfolios, NEW sig \in Signal
  PROVE  LET orders == OnSignal(p, sig)
         IN  orders = <<>> \/ \E o \in Order : orders = <<o>> /\ Sized(o, p)
<1>0. PICK s \in Symbols, direction \in {"LONG", "SHORT", "FLAT"}, x \in Strengths, ts \in Int :
         /\ sig.symbol = s /\ sig.timestamp = ts /\ sig.direction = direction
         /\ sig.strength = x
  BY DEF Signal
<1> DEFINE order(side, quantity) ==
             [type |-> "ORDER", symbol |-> s, side |-> side, quantity |-> quantity,
              timestamp |-> ts]
           held == p.positions[s].quantity
           closing == IF held > 0 THEN "SELL" ELSE "BUY"
<1>1. /\ sig.symbol = s /\ sig.timestamp = ts /\ sig.direction = direction
      /\ sig.strength = x
  BY <1>0
<1>2. PICK qty \in Int : /\ qty = PositionSize(p, sig)
                         /\ qty > 0 => 20 * qty * p.last_price[s] <= Equity(p)
  BY <1>1, SizeType DEF ProperStrengths
<1>3. \A side \in {"BUY", "SELL"}, quantity \in Nat :
        /\ order(side, quantity) \in Order /\ order(side, quantity).symbol = s
        /\ order(side, quantity).quantity = quantity /\ order(side, quantity).side = side
  BY DEF Order, Orders
<1>4. CASE qty <= 0
  BY <1>2, <1>4 DEF OnSignal
<1>5. CASE qty > 0 /\ direction \in {"LONG", "SHORT"}
  <2>1. PICK side \in {"BUY", "SELL"} : OnSignal(p, sig) = <<order(side, qty)>>
    <3>1. OnSignal(p, sig) = IF direction = "LONG" THEN <<order("BUY", qty)>>
                                                   ELSE <<order("SELL", qty)>>
      BY <1>1, <1>2, <1>5 DEF OnSignal
    <3> QED
      BY <3>1
  <2>2. Sized(order(side, qty), p)
    BY <1>2, <1>3, <1>5 DEF Sized
  <2> HIDE DEF order
  <2> QED
    BY <1>3, <1>5, <2>1, <2>2
<1>6. CASE qty > 0 /\ direction = "FLAT" /\ s \notin DOMAIN p.positions
  BY <1>1, <1>2, <1>6 DEF OnSignal
<1>7. CASE qty > 0 /\ direction = "FLAT" /\ s \in DOMAIN p.positions
  <2>1. OnSignal(p, sig) = <<order(closing, MagnitudeOf(held))>>
    BY <1>1, <1>2, <1>7 DEF OnSignal
  <2>2. PositionOf(p, s).quantity = held /\ held \in Int
    BY <1>7, PositionType DEF PositionOf, Position
  <2>3. MagnitudeOf(held) \in Nat
    BY <2>2 DEF MagnitudeOf
  <2>4. order(closing, MagnitudeOf(held)) \in Order
    BY <1>3, <2>3
  <2>5. Sized(order(closing, MagnitudeOf(held)), p)
    BY <1>3, <2>2, <2>3 DEF Sized
  <2> HIDE DEF order
  <2> QED
    BY <2>1, <2>4, <2>5
<1> QED
  BY <1>4, <1>5, <1>6, <1>7

-----------------------------------------------------------------------------
(* Fills.                                                                   *)

LEMMA MinOfTwo ==
  ASSUME NEW a \in Int, NEW b \in Int
  PROVE  Min({a, b}) = IF a <= b THEN a ELSE b
BY DEF Min

LEMMA PlusType ==
  ASSUME NEW a \in Fraction, NEW b \in Fraction
  PROVE  Plus(a, b) \in Fraction
<1>1. a.n \in Int /\ b.n \in Int /\ a.d \in Nat \ {0} /\ b.d \in Nat \ {0}
  BY DEF Fraction
<1>2. a.n * b.d + b.n * a.d \in Int /\ a.d * b.d \in Nat \ {0}
  BY <1>1, PositiveProduct
<1> QED
  BY <1>2, RatReduces DEF Plus

\* on_fill moves the position of the fill's symbol by the quantity filled,
\* into existence if need be, and no other (Portfolio.cpp:83-107).
LEMMA FillMoves ==
  ASSUME NEW p \in Portfolios, NEW f \in Fill
  PROVE  LET q == OnFill(p, f)
             held == PositionOf(p, f.symbol).quantity
         IN  /\ q \in Portfolios /\ f.symbol \in Symbols
             /\ DOMAIN q.positions = DOMAIN p.positions \cup {f.symbol}
             /\ held \in Int
             /\ f.side = "BUY" => q.positions[f.symbol].quantity = held + f.quantity
             /\ f.side = "SELL" => q.positions[f.symbol].quantity = held - f.quantity
             /\ \A s \in DOMAIN p.positions : s # f.symbol => q.positions[s] = p.positions[s]
<1> DEFINE q == OnFill(p, f)
<1>1. PICK old \in Position : old = PositionOf(p, f.symbol)
  BY PositionType DEF Fill
<1>2. /\ f.symbol \in Symbols /\ f.side \in {"BUY", "SELL"} /\ f.quantity \in Nat
      /\ f.fill_price \in Int /\ f.commission \in Int
  BY DEF Fill
<1>3. /\ old.quantity \in Int /\ old.avg_price \in Fraction /\ old.unrealized_pnl \in Fraction
      /\ old.realized_pnl \in Fraction /\ old.commission \in Int
  BY DEF Position
<1>4. PICK value \in Int : value = f.quantity * f.fill_price
  BY <1>2
<1>5. PICK bought \in Int : bought = old.quantity + f.quantity
  BY <1>2, <1>3
<1>6. PICK average \in Fraction :
         average = IF bought > 0
                   THEN Rat(old.quantity * old.avg_price.n + value * old.avg_price.d,
                            old.avg_price.d * bought)
                   ELSE old.avg_price
  <2>1. CASE bought > 0
    <3>1. old.avg_price.n \in Int /\ old.avg_price.d \in Nat \ {0} /\ bought \in Nat \ {0}
      BY <1>3, <2>1 DEF Fraction
    <3>2. old.avg_price.d * bought \in Nat \ {0}
      BY <3>1, PositiveProduct
    <3>3. old.quantity * old.avg_price.n + value * old.avg_price.d \in Int
      BY <1>3, <3>1
    <3> QED
      BY <2>1, <3>2, <3>3, RatReduces
  <2>2. CASE ~(bought > 0)
    BY <1>3, <2>2
  <2> QED
    BY <2>1, <2>2
<1>7. PICK realized \in Fraction :
         realized = Plus(old.realized_pnl,
                         Gain(Min({f.quantity, MagnitudeOf(old.quantity)}), f.fill_price,
                              old.avg_price))
  <2>1. MagnitudeOf(old.quantity) \in Int
    BY <1>3 DEF MagnitudeOf
  <2>2. Min({f.quantity, MagnitudeOf(old.quantity)}) \in Int
    BY <1>2, <2>1, MinOfTwo
  <2> QED
    BY <1>2, <1>3, <2>2, GainType, PlusType
<1> DEFINE after == IF f.side = "BUY"
                    THEN [old EXCEPT !.quantity = bought, !.avg_price = average,
                                     !.commission = old.commission + f.commission]
                    ELSE [old EXCEPT !.quantity = old.quantity - f.quantity,
                                     !.realized_pnl = realized,
                                     !.commission = old.commission + f.commission]
           cash == IF f.side = "BUY" THEN p.cash - (value + f.commission)
                                     ELSE p.cash + (value - f.commission)
<1>8. q = [p EXCEPT !.positions = Put(p.positions, f.symbol, after), !.cash = cash,
                    !.fill_history = Append(p.fill_history, f)]
  BY <1>1, <1>4, <1>5, <1>6, <1>7 DEF OnFill
<1>9. /\ after \in Position
      /\ f.side = "BUY" => after.quantity = old.quantity + f.quantity
      /\ f.side = "SELL" => after.quantity = old.quantity - f.quantity
  <2>1. PICK paid \in Int : paid = old.commission + f.commission
    BY <1>2, <1>3
  <2>2. PICK left \in Int : left = old.quantity - f.quantity
    BY <1>2, <1>3
  <2>3. CASE f.side = "BUY"
    <3>1. after = [old EXCEPT !.quantity = bought, !.avg_price = average,
                              !.commission = paid]
      BY <2>1, <2>3
    <3> HIDE DEF after
    <3>2. after \in Position /\ after.quantity = bought
      BY <3>1 DEF Position
    <3> QED
      BY <1>5, <2>3, <3>2
  <2>4. CASE f.side = "SELL"
    <3>1. after = [old EXCEPT !.quantity = left, !.realized_pnl = realized,
                              !.commission = paid]
      BY <2>1, <2>2, <2>4
    <3> HIDE DEF after
    <3>2. after \in Position /\ after.quantity = left
      BY <3>1 DEF Position
    <3> QED
      BY <2>2, <2>4, <3>2
  <2> QED
    BY <1>2, <2>3, <2>4
<1> HIDE DEF after
<1>10. /\ p.positions \in Maps(Position) /\ p.cash \in Int /\ p.fill_history \in Seq(Fill)
  BY DEF Portfolios
<1>11. Put(p.positions, f.symbol, after) \in Maps(Position)
  BY <1>2, <1>9, <1>10, PutInMap
<1>12. /\ DOMAIN Put(p.positions, f.symbol, after) = DOMAIN p.positions \cup {f.symbol}
       /\ Put(p.positions, f.symbol, after)[f.symbol] = after
       /\ \A s \in DOMAIN p.positions :
            s # f.symbol => Put(p.positions, f.symbol, after)[s] = p.positions[s]
  BY DEF Put
<1>13. cash \in Int /\ Append(p.fill_history, f) \in Seq(Fill)
  BY <1>2, <1>4, <1>10
<1> HIDE DEF cash, q
<1>14. q \in Portfolios
  BY <1>8, <1>11, <1>13 DEF Portfolios
<1>15. q.positions = Put(p.positions, f.symbol, after)
  BY <1>8 DEF Portfolios
<1> QED
  BY <1>1, <1>2, <1>3, <1>9, <1>12, <1>14, <1>15 DEF q

\* What execute_order makes of an order is a fill of it (Portfolio.cpp:247-276).
LEMMA ExecutedFill ==
  ASSUME NEW order \in Approved, NEW open \in Prices, NEW ts \in Int
  PROVE  LET f == ExecuteOrder(order, [open |-> open, timestamp |-> ts])
         IN  f \in Fill /\ f.side = order.side /\ f.timestamp = ts
<1>1. /\ order.symbol \in Symbols /\ order.side \in {"BUY", "SELL"} /\ order.quantity \in Nat
  BY DEF Approved, Orders
<1>2. open \in Int /\ SlippageBps \in Int /\ CommissionBps \in Int /\ CommissionFlat \in Int
  BY TradingAssumption, PortfolioAssumption
<1> DEFINE bar == [open |-> open, timestamp |-> ts]
<1>3. bar.open = open /\ bar.timestamp = ts
  OBVIOUS
<1> HIDE DEF bar
<1>4. PICK slippage \in Int : slippage = (open * SlippageBps) \div 10000
  BY <1>2
<1>5. PICK price \in Int :
         price = IF order.side = "BUY" THEN open + slippage ELSE open - slippage
  BY <1>2
<1>6. PICK commission \in Int :
         commission = CommissionFlat + (order.quantity * price * CommissionBps) \div 10000
  <2>1. order.quantity * price * CommissionBps \in Int
    BY <1>1, <1>2
  <2> QED
    BY <1>2, <2>1
<1>7. ExecuteOrder(order, bar) =
        [type |-> "FILL", symbol |-> order.symbol, side |-> order.side,
         quantity |-> order.quantity, fill_price |-> price, commission |-> commission,
         timestamp |-> ts]
  BY <1>3, <1>4, <1>5, <1>6 DEF ExecuteOrder
<1> QED
  BY <1>1, <1>7 DEF Fill, bar

-----------------------------------------------------------------------------
(* The invariant.                                                           *)

Event == Signal \cup Order \cup Approved \cup Veto \cup Fill

\* How far an event is on the way from a signal to a fill.
Stage(e) ==
  IF e.type = "SIGNAL" THEN 1
  ELSE IF e.type = "ORDER" THEN 2
  ELSE IF e.type = "FILL" THEN 4 ELSE 3

\* The queue holds the events of one stage and, behind them, what has been
\* made of those in front of them.
InOrder(q) ==
  \A i, j \in DOMAIN q :
    i <= j => Stage(q[i]) <= Stage(q[j]) /\ Stage(q[j]) <= Stage(q[i]) + 1

AllSized(q, p) ==
  \A i \in DOMAIN q : q[i].type \in {"ORDER", "APPROVED"} => Sized(q[i], p)

FillsAt(q, ts) == \A i \in DOMAIN q : q[i].type = "FILL" => q[i].timestamp = ts

QueueInv ==
  /\ queue \in Seq(Event) /\ InOrder(queue) /\ FillsAt(queue, Now)
  /\ queue # <<>> => bar_open

TradingInv ==
  /\ portfolio \in Portfolios /\ bar_open \in BOOLEAN
  /\ QueueInv /\ AllSized(queue, portfolio)

LEMMA SizedOrders == AllSized(queue, portfolio) => OrdersSized
BY DEF AllSized, OrdersSized, Sized

LEMMA EventTypes ==
  ASSUME NEW e \in Event
  PROVE  /\ Stage(e) \in 1..4
         /\ e.type = "SIGNAL" => e \in Signal /\ Stage(e) = 1
         /\ e.type = "ORDER" => e \in Order /\ Stage(e) = 2
         /\ e.type = "APPROVED" => e \in Approved /\ Stage(e) = 3
         /\ e.type = "RISK" => e \in Veto /\ Stage(e) = 3
         /\ e.type = "FILL" <=> Stage(e) = 4
         /\ e.type = "FILL" => e \in Fill
BY DEF Event, Stage, Signal, Order, Approved, Orders, Veto, Fill

\* A handler takes the head of the queue and pushes an event or none.
Handled(q, r, e) == q # <<>> /\ (r = Tail(q) \/ r = Append(Tail(q), e))

LEMMA HandledQueue ==
  ASSUME NEW q \in Seq(Event), NEW r, NEW e \in Event, Handled(q, r, e)
  PROVE  /\ r \in Seq(Event) /\ Head(q) \in Event /\ Head(q) = q[1] /\ 1 \in DOMAIN q
         /\ Len(q) \in Nat \ {0} /\ DOMAIN q = 1..Len(q) /\ DOMAIN r \subseteq 1..Len(q)
         /\ \A i \in DOMAIN r : \/ i + 1 \in DOMAIN q /\ r[i] = q[i + 1]
                                \/ i = Len(q) /\ r = Append(Tail(q), e) /\ r[i] = e
<1>1. /\ Len(q) \in Nat \ {0} /\ DOMAIN q = 1..Len(q) /\ Head(q) = q[1]
      /\ \A i \in 1..Len(q) : q[i] \in Event
  BY DEF Handled
<1>2. /\ Tail(q) \in Seq(Event) /\ Len(Tail(q)) = Len(q) - 1
      /\ \A i \in 1..(Len(q) - 1) : Tail(q)[i] = q[i + 1]
  BY <1>1 DEF Handled
<1>3. r = Tail(q) => DOMAIN r = 1..(Len(q) - 1)
  BY <1>1, <1>2
<1>4. r = Append(Tail(q), e) =>
        /\ r \in Seq(Event) /\ DOMAIN r = 1..Len(q) /\ r[Len(q)] = e
        /\ \A i \in 1..(Len(q) - 1) : r[i] = Tail(q)[i]
  BY <1>1, <1>2
<1>5. r \in Seq(Event) /\ DOMAIN r \subseteq 1..Len(q)
  BY <1>1, <1>2, <1>3, <1>4 DEF Handled
<1>6. ASSUME NEW i \in DOMAIN r
      PROVE  \/ i + 1 \in DOMAIN q /\ r[i] = q[i + 1]
             \/ i = Len(q) /\ r = Append(Tail(q), e) /\ r[i] = e
  <2>1. CASE i = Len(q)
    <3>1. r # Tail(q)
      BY <1>1, <1>3, <2>1
    <3> QED
      BY <1>4, <2>1, <3>1 DEF Handled
  <2>2. CASE i # Len(q)
    <3>1. i \in 1..(Len(q) - 1) /\ i + 1 \in DOMAIN q
      BY <1>1, <1>5, <2>2
    <3>2. Tail(q)[i] = q[i + 1]
      BY <1>2, <3>1
    <3> QED
      BY <1>4, <3>1, <3>2 DEF Handled
  <2> QED
    BY <2>1, <2>2
<1>7. Head(q) \in Event /\ 1 \in DOMAIN q
  BY <1>1
<1> QED
  BY <1>1, <1>5, <1>6, <1>7

\* What is pushed is one stage ahead of what is taken, so the order is kept.
LEMMA OrderKept ==
  ASSUME NEW q \in Seq(Event), NEW r, NEW e \in Event, Handled(q, r, e), InOrder(q),
         r = Append(Tail(q), e) => Stage(e) = Stage(Head(q)) + 1
  PROVE  InOrder(r)
<1> SUFFICES ASSUME NEW i \in DOMAIN r, NEW j \in DOMAIN r, i <= j
             PROVE  Stage(r[i]) <= Stage(r[j]) /\ Stage(r[j]) <= Stage(r[i]) + 1
  BY DEF InOrder
<1>1. /\ Head(q) = q[1] /\ 1 \in DOMAIN q /\ DOMAIN q = 1..Len(q) /\ Len(q) \in Nat
      /\ i \in 1..Len(q) /\ j \in 1..Len(q)
      /\ \/ i + 1 \in DOMAIN q /\ r[i] = q[i + 1]
         \/ i = Len(q) /\ r = Append(Tail(q), e) /\ r[i] = e
      /\ \/ j + 1 \in DOMAIN q /\ r[j] = q[j + 1]
         \/ j = Len(q) /\ r = Append(Tail(q), e) /\ r[j] = e
  BY HandledQueue
<1>2. \A x \in Event : Stage(x) \in Int
  BY EventTypes
<1>3. \A m \in DOMAIN q : /\ q[m] \in Event
                          /\ Stage(q[1]) <= Stage(q[m]) /\ Stage(q[m]) <= Stage(q[1]) + 1
  BY <1>1 DEF InOrder
<1>4. CASE i + 1 \in DOMAIN q /\ r[i] = q[i + 1] /\ j + 1 \in DOMAIN q /\ r[j] = q[j + 1]
  <2>1. i + 1 <= j + 1
    BY <1>1
  <2> QED
    BY <1>4, <2>1 DEF InOrder
<1>5. CASE i + 1 \in DOMAIN q /\ r[i] = q[i + 1] /\ r = Append(Tail(q), e) /\ r[j] = e
  BY <1>1, <1>2, <1>3, <1>5
<1>6. CASE r = Append(Tail(q), e) /\ r[i] = e /\ r[j] = e
  BY <1>2, <1>6
<1>7. i = Len(q) => ~(j + 1 \in DOMAIN q)
  BY <1>1
<1> QED
  BY <1>1, <1>4, <1>5, <1>6, <1>7

\* A handler that leaves the portfolio alone keeps the invariant, if what it
\* pushes is one stage ahead, a fill of this bar or an order of the right size.
LEMMA HandlerKeeps ==
  ASSUME TradingInv, NEW e \in Event, Handled(queue, queue', e),
         portfolio' = portfolio, bar_open' = bar_open,
         queue' = Append(Tail(queue), e) =>
           /\ Stage(e) = Stage(Head(queue)) + 1
           /\ e.type = "FILL" => e.timestamp = Now
           /\ e.type \in {"ORDER", "APPROVED"} => Sized(e, portfolio)
  PROVE  TradingInv'
<1>1. queue \in Seq(Event) /\ InOrder(queue) /\ FillsAt(queue, Now) /\ bar_open
  BY DEF TradingInv, QueueInv, Handled
<1>2. /\ queue' \in Seq(Event)
      /\ \A i \in DOMAIN queue' : \/ i + 1 \in DOMAIN queue /\ queue'[i] = queue[i + 1]
                                  \/ queue' = Append(Tail(queue), e) /\ queue'[i] = e
  BY <1>1, HandledQueue
<1>3. InOrder(queue')
  BY <1>1, OrderKept
<1>4. Now' = Now
  BY DEF Now
<1>5. FillsAt(queue', Now) /\ AllSized(queue', portfolio)
  BY <1>1, <1>2 DEF TradingInv, FillsAt, AllSized
<1> QED
  BY <1>1, <1>2, <1>3, <1>4, <1>5 DEF TradingInv, QueueInv

\* What evaluate pushes, and what becomes of it; it lets a purchase through
\* only below the limit (Portfolio.cpp:201-241).
LEMMA Evaluated ==
  ASSUME NEW order \in Order, NEW p \in Portfolios, NEW start
  PROVE  LET pushed == Approve(Evaluate(order, p, start))
             approved == [order EXCEPT !.type = "APPROVED"]
         IN  \/ pushed = <<>>
             \/ \E v \in Veto : pushed = <<v>>
             \/ pushed = <<approved>> /\ (order.side = "BUY" => ~AtPositionLimit(p))
<1> DEFINE v == [type |-> "RISK", symbol |-> order.symbol, requested_qty |-> order.quantity]
           approved == [order EXCEPT !.type = "APPROVED"]
<1>1. v \in Veto /\ v.type = "RISK" /\ order.type = "ORDER"
  BY DEF Order, Orders, Veto
<1>2. Approve(<<>>) = <<>>
  BY DEF Approve
<1>3. Approve(<<order>>) = <<approved>>
  BY <1>1 DEF Approve
<1> HIDE DEF approved
<1>4. Approve(<<v>>) = <<v>>
  BY <1>1 DEF Approve
<1>5. \/ Evaluate(order, p, start) = <<v>>
      \/ Evaluate(order, p, start) = <<>>
      \/ Evaluate(order, p, start) = <<order>> /\ (order.side = "BUY" => ~AtPositionLimit(p))
  BY DEF Evaluate
<1> HIDE DEF v
<1> QED
  BY <1>1, <1>2, <1>3, <1>4, <1>5 DEF approved

LEMMA Pushed ==
  ASSUME NEW q \in Seq(Event), NEW e \in Event
  PROVE  q \o <<>> = q /\ q \o <<e>> = Append(q, e)
OBVIOUS

-----------------------------------------------------------------------------
(* The invariant holds.                                                     *)

LEMMA StartsInTradingInv == Init => TradingInv
<1> SUFFICES ASSUME Init PROVE TradingInv
  OBVIOUS
<1>1. EmptyMap \in Maps(Position) /\ EmptyMap \in Maps(Prices) /\ DOMAIN EmptyMap = {}
  <2>1. DOMAIN EmptyMap = {} /\ \A V : EmptyMap \in [{} -> V]
    BY DEF EmptyMap
  <2> QED
    BY <2>1, MapType
<1>2. portfolio \in Portfolios
  <2>1. <<>> \in Seq(Snapshot) /\ <<>> \in Seq(Fill) /\ InitialCapital \in Int
    BY PortfolioAssumption
  <2> QED
    BY <1>1, <2>1 DEF Init, NewPortfolio, Portfolios
<1>3. queue \in Seq(Event) /\ DOMAIN queue = {} /\ queue = <<>> /\ bar_open = FALSE
  BY DEF Init
<1> QED
  BY <1>2, <1>3 DEF TradingInv, QueueInv, InOrder, FillsAt, AllSized

LEMMA CurveLength ==
  ASSUME TradingInv
  PROVE  Len(portfolio.equity_curve) \in Nat /\ Now \in Int
BY DEF TradingInv, Portfolios, Now

LEMMA BarStep ==
  ASSUME TradingInv, Bar
  PROVE  /\ TradingInv' /\ Now' = Now
         /\ portfolio' \in Portfolios /\ SameBooks(portfolio, portfolio')
         /\ \A i \in DOMAIN queue' : queue'[i] \in Signal
<1>1. PICK closes \in [Symbols -> Prices] : portfolio' = Marked(portfolio, closes)
  BY DEF Bar, Marked
<1>2. portfolio' \in Portfolios /\ SameBooks(portfolio, portfolio')
  BY <1>1, BarKeepsBooks, TradingAssumption DEF TradingInv
<1>3. Now' = Now
  BY <1>2 DEF SameBooks, Now
<1>4. PICK signals \in Announcements : queue' = signals /\ bar_open' = TRUE
  BY DEF Bar
<1>5. PICK n \in Nat : signals \in [1..n -> Signals]
  BY TradingAssumption, FS_CardinalityType DEF Announcements
<1>6. \A x \in Signals : x \in Signal
  BY CurveLength DEF Signals, Signal
<1>7. signals \in [1..n -> Signal] /\ DOMAIN signals = 1..n
  BY <1>5, <1>6
<1>8. queue' \in Seq(Event) /\ DOMAIN queue' = 1..n
  <2>1. signals \in [1..n -> Event]
    BY <1>7 DEF Event
  <2> QED
    BY <1>4, <2>1
<1>9. \A i \in DOMAIN queue' : queue'[i] \in Signal
  BY <1>4, <1>7
<1>10. \A i \in DOMAIN queue' : queue'[i].type = "SIGNAL" /\ Stage(queue'[i]) = 1
  BY <1>9 DEF Signal, Stage
<1> QED
  BY <1>2, <1>3, <1>4, <1>8, <1>9, <1>10 DEF TradingInv, QueueInv, InOrder, FillsAt, AllSized

LEMMA SignalStep ==
  ASSUME ProperStrengths, TradingInv, ProcessSignal
  PROVE  TradingInv'
<1>1. queue \in Seq(Event) /\ queue # <<>> /\ Head(queue).type = "SIGNAL"
  BY DEF ProcessSignal, Holds, TradingInv, QueueInv
<1>2. Head(queue) \in Event /\ Tail(queue) \in Seq(Event)
  BY <1>1
<1>3. Head(queue) \in Signal /\ Stage(Head(queue)) = 1
  BY <1>1, <1>2, EventTypes
<1>4. portfolio' = portfolio /\ bar_open' = bar_open
  BY DEF ProcessSignal
<1>5. CASE OnSignal(portfolio, Head(queue)) = <<>>
  <2>1. Handled(queue, queue', Head(queue)) /\ queue' = Tail(queue)
    BY <1>1, <1>2, <1>5, Pushed DEF ProcessSignal, Handled
  <2>2. queue' # Append(Tail(queue), Head(queue))
    BY <1>2, <2>1
  <2> QED
    BY <1>2, <1>4, <2>1, <2>2, HandlerKeeps
<1>6. ASSUME NEW o \in Order, OnSignal(portfolio, Head(queue)) = <<o>>, Sized(o, portfolio)
      PROVE  TradingInv'
  <2>1. o \in Event /\ o.type = "ORDER" /\ Stage(o) = 2
    BY DEF Event, Order, Orders, Stage
  <2>2. Handled(queue, queue', o)
    BY <1>1, <1>2, <1>6, <2>1, Pushed DEF ProcessSignal, Handled
  <2> QED
    BY <1>3, <1>4, <1>6, <2>1, <2>2, HandlerKeeps
<1> QED
  BY <1>3, <1>5, <1>6, SignalOrders DEF TradingInv

\* An order that is approved differs by its type only.
LEMMA ApprovedOrder ==
  ASSUME NEW o \in Order
  PROVE  LET a == [o EXCEPT !.type = "APPROVED"]
         IN  /\ a \in Approved /\ a \in Event /\ a.type = "APPROVED" /\ Stage(a) = 3
             /\ a.side = o.side /\ \A p : Sized(o, p) => Sized(a, p)
<1> DEFINE a == [o EXCEPT !.type = "APPROVED"]
<1>1. /\ a \in Approved /\ a.type = "APPROVED" /\ a.side = o.side /\ a.symbol = o.symbol
      /\ a.quantity = o.quantity
  BY DEF Order, Approved, Orders
<1> HIDE DEF a
<1> QED
  BY <1>1 DEF Event, Stage, Sized, a

LEMMA EvaluateStep ==
  ASSUME TradingInv, ProcessOrder
  PROVE  /\ TradingInv' /\ Head(queue) \in Order /\ queue # <<>>
         /\ \/ queue' = Tail(queue)
            \/ \E v \in Veto : queue' = Append(Tail(queue), v)
            \/ \E a \in Approved : /\ queue' = Append(Tail(queue), a)
                                   /\ a.side = "BUY" => ~AtPositionLimit(portfolio)
<1>1. queue \in Seq(Event) /\ queue # <<>> /\ Head(queue).type = "ORDER"
  BY DEF ProcessOrder, Holds, TradingInv, QueueInv
<1>2. Head(queue) \in Event /\ Tail(queue) \in Seq(Event) /\ Head(queue) = queue[1]
      /\ 1 \in DOMAIN queue
  BY <1>1
<1>3. PICK o \in Order : o = Head(queue) /\ Stage(o) = 2
  BY <1>1, <1>2, EventTypes
<1>4. portfolio' = portfolio /\ bar_open' = bar_open
  BY DEF ProcessOrder
<1>5. queue' = Tail(queue) \o Approve(Evaluate(o, portfolio, day_start))
  BY <1>3 DEF ProcessOrder
<1>6. ASSUME queue' = Tail(queue) PROVE TradingInv'
  <2>1. Handled(queue, queue', o) /\ queue' # Append(Tail(queue), o)
    BY <1>1, <1>2, <1>6 DEF Handled
  <2> QED
    BY <1>2, <1>3, <1>4, <2>1, HandlerKeeps
<1>7. ASSUME NEW v \in Veto, queue' = Append(Tail(queue), v) PROVE TradingInv'
  <2>1. v \in Event /\ v.type = "RISK" /\ Stage(v) = 3
    BY DEF Event, Veto, Stage
  <2> QED
    BY <1>1, <1>3, <1>4, <1>7, <2>1, HandlerKeeps DEF Handled
<1> DEFINE a == [o EXCEPT !.type = "APPROVED"]
<1>8. /\ a \in Approved /\ a \in Event /\ a.type = "APPROVED" /\ Stage(a) = 3 /\ a.side = o.side
      /\ Sized(o, portfolio) => Sized(a, portfolio)
  BY ApprovedOrder
<1> HIDE DEF a
<1>9. ASSUME queue' = Append(Tail(queue), a) PROVE TradingInv'
  <2>1. Sized(o, portfolio)
    BY <1>1, <1>2, <1>3 DEF TradingInv, AllSized
  <2> QED
    BY <1>1, <1>3, <1>4, <1>8, <1>9, <2>1, HandlerKeeps DEF Handled
<1>10. \/ queue' = Tail(queue)
       \/ \E v \in Veto : queue' = Append(Tail(queue), v)
       \/ queue' = Append(Tail(queue), a) /\ (o.side = "BUY" => ~AtPositionLimit(portfolio))
  <2>1. \A v \in Veto : v \in Event
    BY DEF Event
  <2> QED
    BY <1>2, <1>5, <1>8, <2>1, Evaluated, Pushed DEF TradingInv, a
<1>11. TradingInv'
  BY <1>6, <1>7, <1>9, <1>10
<1>12. a.side = "BUY" => o.side = "BUY"
  BY <1>8
<1>13. \/ queue' = Tail(queue)
       \/ \E v \in Veto : queue' = Append(Tail(queue), v)
       \/ \E x \in Approved : /\ queue' = Append(Tail(queue), x)
                              /\ x.side = "BUY" => ~AtPositionLimit(portfolio)
  <2>1. CASE queue' = Append(Tail(queue), a) /\ (o.side = "BUY" => ~AtPositionLimit(portfolio))
    <3>1. a.side = "BUY" => ~AtPositionLimit(portfolio)
      BY <1>12, <2>1
    <3> QED
      BY <1>8, <2>1, <3>1
  <2> QED
    BY <1>10, <2>1
<1>14. Head(queue) \in Order /\ queue # <<>>
  BY <1>1, <1>3
<1> QED
  BY <1>11, <1>13, <1>14

LEMMA ExecuteStep ==
  ASSUME TradingInv, NEW price \in Prices, Execute(price)
  PROVE  /\ TradingInv' /\ Head(queue) \in Approved /\ queue # <<>>
         /\ \E f \in Fill : queue' = Append(Tail(queue), f) /\ f.side = Head(queue).side
<1>1. queue \in Seq(Event) /\ queue # <<>> /\ Head(queue).type = "APPROVED"
  BY DEF Execute, Holds, TradingInv, QueueInv
<1>2. Head(queue) \in Event
  BY <1>1
<1>3. Head(queue) \in Approved /\ Stage(Head(queue)) = 3
  BY <1>1, <1>2, EventTypes
<1>4. portfolio' = portfolio /\ bar_open' = bar_open
  BY DEF Execute
<1>5. PICK f \in Fill : /\ queue' = Append(Tail(queue), f) /\ f.side = Head(queue).side
                        /\ f.timestamp = Now
  BY <1>3, ExecutedFill, CurveLength DEF Execute
<1>6. f \in Event /\ f.type = "FILL" /\ Stage(f) = 4
  BY DEF Event, Fill, Stage
<1>7. TradingInv'
  BY <1>1, <1>3, <1>4, <1>5, <1>6, HandlerKeeps DEF Handled
<1> QED
  BY <1>1, <1>3, <1>5, <1>7

LEMMA BookStep ==
  ASSUME TradingInv, BookFill
  PROVE  /\ TradingInv' /\ Head(queue) \in Fill /\ queue # <<>> /\ queue' = Tail(queue)
         /\ Head(queue).timestamp = Now /\ Now' = Now
         /\ portfolio' = OnFill(portfolio, Head(queue))
         /\ \A i \in DOMAIN queue' : queue'[i].type = "FILL"
<1>1. queue \in Seq(Event) /\ queue # <<>> /\ Head(queue).type = "FILL" /\ InOrder(queue)
  BY DEF BookFill, Holds, TradingInv, QueueInv
<1>2. Head(queue) \in Event /\ Handled(queue, queue', Head(queue)) /\ queue' = Tail(queue)
  BY <1>1 DEF Handled, BookFill
<1>3. /\ Head(queue) \in Fill /\ Stage(Head(queue)) = 4 /\ Head(queue) = queue[1]
      /\ 1 \in DOMAIN queue
  BY <1>1, <1>2, EventTypes
<1>4. portfolio' = OnFill(portfolio, Head(queue)) /\ bar_open' = bar_open
  BY DEF BookFill
<1>5. portfolio' \in Portfolios
  BY <1>3, <1>4, FillMoves DEF TradingInv
<1>6. Now' = Now
  <2>1. portfolio'.equity_curve = portfolio.equity_curve
    BY <1>4 DEF OnFill, TradingInv, Portfolios
  <2> QED
    BY <2>1 DEF Now
<1>7. /\ queue' \in Seq(Event) /\ InOrder(queue')
      /\ \A i \in DOMAIN queue' : i + 1 \in DOMAIN queue /\ queue'[i] = queue[i + 1]
  <2>1. queue' # Append(Tail(queue), Head(queue))
    BY <1>1, <1>2
  <2> QED
    BY <1>1, <1>2, <2>1, HandledQueue, OrderKept
<1>8. ASSUME NEW i \in DOMAIN queue'
      PROVE  queue'[i].type = "FILL" /\ queue'[i].timestamp = Now
  <2>1. i + 1 \in DOMAIN queue /\ queue'[i] = queue[i + 1] /\ queue[i + 1] \in Event /\ 1 <= i + 1
    BY <1>1, <1>7
  <2>2. Stage(queue[1]) <= Stage(queue[i + 1])
    BY <1>1, <1>3, <2>1 DEF InOrder
  <2>3. queue[i + 1].type = "FILL"
    BY <1>3, <2>1, <2>2, EventTypes
  <2> QED
    BY <2>1, <2>3 DEF TradingInv, QueueInv, FillsAt
<1>9. queue[1].timestamp = Now
  BY <1>1, <1>3 DEF TradingInv, QueueInv, FillsAt
<1>10. TradingInv'
  <2>1. FillsAt(queue', Now') /\ AllSized(queue', portfolio')
    BY <1>6, <1>8 DEF FillsAt, AllSized
  <2> QED
    BY <1>1, <1>4, <1>5, <1>7, <2>1 DEF TradingInv, QueueInv
<1> QED
  BY <1>1, <1>2, <1>3, <1>4, <1>6, <1>8, <1>9, <1>10

LEMMA VetoStep ==
  ASSUME TradingInv, DropVeto
  PROVE  TradingInv'
<1>1. queue \in Seq(Event) /\ queue # <<>>
  BY DEF DropVeto, Holds, TradingInv, QueueInv
<1>2. Head(queue) \in Event /\ Handled(queue, queue', Head(queue)) /\ queue' = Tail(queue)
  BY <1>1 DEF Handled, DropVeto
<1>3. queue' # Append(Tail(queue), Head(queue))
  BY <1>1, <1>2
<1> QED
  BY <1>2, <1>3, HandlerKeeps DEF DropVeto

LEMMA RecordStep ==
  ASSUME TradingInv, Record
  PROVE  /\ TradingInv' /\ Now' = Now + 1 /\ queue' = <<>>
         /\ portfolio'.fill_history = portfolio.fill_history
<1>1. queue = <<>> /\ queue' = <<>> /\ bar_open' = FALSE
  BY DEF Record
<1>2. PICK p \in Portfolios : p = portfolio
  BY DEF TradingInv
<1>3. PICK snapshot \in Snapshot :
         snapshot = [timestamp |-> Now, equity |-> Equity(p), cash |-> p.cash]
  <2>1. PICK worth \in Int, cash \in Int, ts \in Int :
           worth = Equity(p) /\ cash = p.cash /\ ts = Now
    BY EquityType, CurveLength DEF Portfolios
  <2>2. [timestamp |-> ts, equity |-> worth, cash |-> cash] \in Snapshot
    BY DEF Snapshot
  <2> QED
    BY <2>1, <2>2
<1>4. PICK curve \in Seq(Snapshot) : /\ curve = Append(p.equity_curve, snapshot)
                                     /\ Len(curve) = Len(p.equity_curve) + 1
  <2>1. p.equity_curve \in Seq(Snapshot)
    BY DEF Portfolios
  <2>2. /\ Append(p.equity_curve, snapshot) \in Seq(Snapshot)
        /\ Len(Append(p.equity_curve, snapshot)) = Len(p.equity_curve) + 1
    BY <2>1
  <2> QED
    BY <2>2
<1>5. portfolio' = [p EXCEPT !.equity_curve = curve]
  BY <1>2, <1>3, <1>4 DEF Record, RecordEquity
<1>6. /\ portfolio' \in Portfolios /\ portfolio'.fill_history = p.fill_history
      /\ portfolio'.equity_curve = curve
  BY <1>2, <1>5 DEF Portfolios
<1>7. Now' = Now + 1
  BY <1>2, <1>4, <1>6 DEF Now
<1>8. <<>> \in Seq(Event) /\ DOMAIN <<>> = {}
  OBVIOUS
<1>9. TradingInv'
  BY <1>1, <1>6, <1>8 DEF TradingInv, QueueInv, InOrder, FillsAt, AllSized
<1> QED
  BY <1>1, <1>2, <1>6, <1>7, <1>9

LEMMA TradingInvStays ==
  ASSUME ProperStrengths
  PROVE  TradingInv /\ [Next]_vars => TradingInv'
<1> SUFFICES ASSUME TradingInv, [Next]_vars PROVE TradingInv'
  OBVIOUS
<1>1. CASE Bar
  BY <1>1, BarStep
<1>2. CASE ProcessSignal
  BY <1>2, SignalStep
<1>3. CASE ProcessOrder
  BY <1>3, EvaluateStep
<1>4. CASE \E open \in Prices : Execute(open)
  BY <1>4, ExecuteStep
<1>5. CASE BookFill
  BY <1>5, BookStep
<1>6. CASE DropVeto
  BY <1>6, VetoStep
<1>7. CASE Record
  BY <1>7, RecordStep
<1>8. CASE UNCHANGED vars
  BY <1>8 DEF vars, TradingInv, QueueInv, Now
<1> QED
  BY <1>1, <1>2, <1>3, <1>4, <1>5, <1>6, <1>7, <1>8 DEF Next

LEMMA TradingInvariance == ASSUME ProperStrengths PROVE Spec => []TradingInv
<1>1. TradingInv /\ [Next]_vars => TradingInv'
  BY TradingInvStays
<1> QED
  BY <1>1, StartsInTradingInv, PTL DEF Spec

\* Every order that waits, evaluated or not, either closes what is held of its
\* symbol or costs, at the last price, at most a twentieth of what the
\* portfolio is worth by then (Portfolio.cpp:45-78), for any prices, costs and
\* histories, however many orders a bar brings, and for the strengths that
\* strategies signal.
THEOREM OrdersAreSized ==
  ASSUME ProperStrengths
  PROVE  Spec => []OrdersSized
<1>1. TradingInv => OrdersSized
  BY SizedOrders DEF TradingInv
<1> QED
  BY <1>1, TradingInvariance, PTL

-----------------------------------------------------------------------------
(* The drawdown.                                                            *)

\* What one snapshot does to the pass over the curve.
DrawStep(acc, pt) ==
  LET peak == Max({acc.peak, pt.equity})
      dd   == Rat(peak - pt.equity, peak)
  IN  [peak |-> peak, max_dd |-> IF Less(acc.max_dd, dd) THEN dd ELSE acc.max_dd]

\* it[s] is the pass over the points whose numbers are in s.
Draws(it, curve, D) ==
  it = [s \in D |-> IF s = {} THEN [peak |-> curve[1].equity, max_dd |-> Zero]
                    ELSE DrawStep(it[s \ {Max(s)}], curve[Max(s)])]

LEMMA DrawUnfolds ==
  ASSUME NEW curve
  PROVE  MaxDrawdown(curve) =
           (CHOOSE it : Draws(it, curve, SUBSET (DOMAIN curve)))[DOMAIN curve].max_dd
BY DEF MaxDrawdown, FoldLeft, MapThenFoldSet, Draws, DrawStep

\* Numbers of points have a last one, and taking it away leaves fewer.
LEMMA LastAway ==
  ASSUME NEW n \in Nat, NEW s \in SUBSET (1..n), s # {}
  PROVE  /\ Max(s) \in s
         /\ IsFiniteSet(s \ {Max(s)})
         /\ Cardinality(s) \in Nat \ {0}
         /\ Cardinality(s \ {Max(s)}) = Cardinality(s) - 1
<1>1. IsFiniteSet(s)
  <2>1. IsFiniteSet(1..n)
    BY FS_Interval
  <2> QED
    BY <2>1, FS_Subset
<1>2. Max(s) \in s
  <2>1. s \subseteq Int /\ n \in Int /\ \A x \in s : x <= n
    OBVIOUS
  <2> QED
    BY <2>1, MaxOfBounded
<1>3. Cardinality(s) \in Nat /\ Cardinality(s) # 0
  BY <1>1, FS_CardinalityType, FS_EmptySet
<1> QED
  BY <1>1, <1>2, <1>3, FS_RemoveElement

\* The recursion of the pass has a solution.
LEMMA DrawsExist ==
  ASSUME NEW curve, NEW m \in Nat
  PROVE  \E it : Draws(it, curve, SUBSET (1..m))
<1> DEFINE Small(n) == {s \in SUBSET (1..m) : Cardinality(s) <= n}
           Solved(n) == \E it : Draws(it, curve, Small(n))
           Bad == {n \in Nat : ~Solved(n)}
           first == [peak |-> curve[1].equity, max_dd |-> Zero]
           Draw(acc, k) == DrawStep(acc, curve[k])
<1>1. \A s \in SUBSET (1..m) : IsFiniteSet(s) /\ Cardinality(s) \in Nat
  <2>1. IsFiniteSet(1..m)
    BY FS_Interval
  <2> QED
    BY <2>1, FS_Subset, FS_CardinalityType
<1>2. Solved(0)
  <2>1. \A s \in Small(0) : s = {}
    BY <1>1, FS_EmptySet
  <2> HIDE DEF first
  <2> DEFINE it == [s \in Small(0) |-> first]
  <2>2. Draws(it, curve, Small(0))
    BY <2>1 DEF Draws, first
  <2> QED
    BY <2>2
<1>3. ASSUME NEW n \in Nat, Solved(n) PROVE Solved(n + 1)
  <2>1. PICK it : Draws(it, curve, Small(n))
    BY <1>3
  <2>2. it = [s \in Small(n) |-> IF s = {} THEN first ELSE Draw(it[s \ {Max(s)}], Max(s))]
    BY <2>1 DEF Draws
  <2> DEFINE next == [s \in Small(n + 1) |->
                        IF s = {} THEN first ELSE Draw(it[s \ {Max(s)}], Max(s))]
  <2> HIDE DEF Draw, first
  <2>3. ASSUME NEW s \in Small(n) PROVE next[s] = it[s]
    <3>1. s \in Small(n + 1)
      BY <1>1
    <3> QED
      BY <2>2, <3>1
  <2>4. ASSUME NEW s \in Small(n + 1), s # {}
        PROVE  s \ {Max(s)} \in Small(n)
    <3>1. Cardinality(s) <= n + 1 /\ s \ {Max(s)} \in SUBSET (1..m)
      OBVIOUS
    <3>2. Cardinality(s) \in Nat /\ Cardinality(s \ {Max(s)}) = Cardinality(s) - 1
      BY <2>4, LastAway
    <3> QED
      BY <3>1, <3>2
  <2>5. next = [s \in Small(n + 1) |->
                  IF s = {} THEN first ELSE Draw(next[s \ {Max(s)}], Max(s))]
    <3> HIDE DEF Small
    <3> QED
      BY <2>3, <2>4
  <2>6. Draws(next, curve, Small(n + 1))
    <3> HIDE DEF next, Small
    <3> QED
      BY <2>5 DEF Draws, Draw, first
  <2> QED
    BY <2>6
<1> HIDE DEF Solved
<1>4. Bad = {}
  <2> SUFFICES ASSUME Bad # {} PROVE FALSE
    OBVIOUS
  <2>1. PICK n \in Bad : \A k \in Bad : n <= k
    BY LeastNatural
  <2>2. n \in Nat /\ ~Solved(n) /\ n # 0
    BY <1>2
  <2>3. n - 1 \in Nat /\ n - 1 \notin Bad /\ (n - 1) + 1 = n
    BY <2>1, <2>2
  <2>4. Solved(n - 1)
    BY <2>3
  <2>5. Solved((n - 1) + 1)
    BY <1>3, <2>3, <2>4
  <2> QED
    BY <2>2, <2>3, <2>5
<1>5. Solved(m)
  BY <1>4
<1>6. Small(m) = SUBSET (1..m)
  <2>1. IsFiniteSet(1..m) /\ Cardinality(1..m) = m
    BY FS_Interval
  <2> QED
    BY <2>1, FS_Subset
<1> QED
  BY <1>5, <1>6 DEF Solved

\* The fall from a point worth e[i] to a point worth e[j].
Fall(e, i, j) == Rat(e[i] - e[j], e[i])

\* The pass has seen k points worth e[1], ..., e[k]: it holds their highest
\* and the deepest of their falls.
SeenTo(acc, e, k) ==
  /\ \E i \in 1..k : acc.peak = e[i]
  /\ \A i \in 1..k : e[i] <= acc.peak
  /\ acc.max_dd \in Fraction
  /\ \E j \in 1..k : \E i \in 1..j : acc.max_dd = Fall(e, i, j)
  /\ \A j \in 1..k : \A i \in 1..j : ~Less(acc.max_dd, Fall(e, i, j))

LEMMA SeenFirst ==
  ASSUME NEW e, e[1] \in Nat \ {0}, NEW pt, pt.equity = e[1]
  PROVE  SeenTo(DrawStep([peak |-> e[1], max_dd |-> Zero], pt), e, 1)
<1>1. PICK x \in Nat \ {0} : x = e[1]
  OBVIOUS
<1>2. Max({x, x}) = x
  BY MaxOfTwo
<1>3. Rat(x - x, x) = Zero
  BY RatZero
<1>4. DrawStep([peak |-> e[1], max_dd |-> Zero], pt) = [peak |-> x, max_dd |-> Zero]
  BY <1>1, <1>2, <1>3 DEF DrawStep
<1>5. Fall(e, 1, 1) = Zero
  BY <1>1, <1>3 DEF Fall
<1>6. ~Less(Zero, Zero) /\ Zero \in Fraction
  BY DEF Less, Zero, Fraction
<1>7. \A i \in 1..1 : i = 1
  OBVIOUS
<1> QED
  BY <1>1, <1>4, <1>5, <1>6, <1>7 DEF SeenTo

\* One more point: no earlier point falls deeper to it than the highest.
LEMMA SeenNext ==
  ASSUME NEW k \in Nat \ {0}, NEW e, \A i \in 1..(k + 1) : e[i] \in Nat \ {0},
         NEW acc, SeenTo(acc, e, k), NEW pt, pt.equity = e[k + 1]
  PROVE  SeenTo(DrawStep(acc, pt), e, k + 1)
<1> DEFINE next == DrawStep(acc, pt)
<1>1. PICK x \in Nat \ {0}, old \in Nat \ {0} : x = e[k + 1] /\ old = acc.peak
  <2>1. e[k + 1] \in Nat \ {0}
    OBVIOUS
  <2>2. acc.peak \in Nat \ {0}
    BY DEF SeenTo
  <2> QED
    BY <2>1, <2>2
<1>2. PICK peak \in Nat \ {0} : peak = Max({old, x}) /\ peak \in {old, x} /\ old <= peak
                                /\ x <= peak
  <2>1. Max({old, x}) = IF old >= x THEN old ELSE x
    BY MaxOfTwo
  <2> QED
    BY <2>1
<1>3. PICK dd \in Fraction : dd = Rat(peak - x, peak)
  <2>1. peak - x \in Int
    OBVIOUS
  <2> QED
    BY <2>1, RatReduces
<1>4. PICK worst \in Fraction : worst = acc.max_dd
  BY DEF SeenTo
<1>5. next.peak = peak /\ next.max_dd = IF Less(worst, dd) THEN dd ELSE worst
  BY <1>1, <1>2, <1>3, <1>4 DEF DrawStep
<1>6. PICK deepest \in Fraction : deepest = next.max_dd
  BY <1>5
<1>7. ~Less(deepest, dd) /\ ~Less(deepest, worst)
  <2>1. PICK a \in Int, b \in Int, c \in Int, d \in Int :
           a = dd.n /\ b = dd.d /\ c = worst.n /\ d = worst.d
    BY DEF Fraction
  <2> QED
    BY <1>5, <1>6, <2>1 DEF Less
<1>8. \A i \in 1..(k + 1) : i \in 1..k \/ i = k + 1
  OBVIOUS
<1>9. \A i \in 1..(k + 1) : e[i] <= peak
  <2>1. \A i \in 1..k : e[i] \in Nat /\ e[i] <= old
    BY <1>1 DEF SeenTo
  <2> QED
    BY <1>1, <1>2, <1>8, <2>1
<1>10. \E i \in 1..(k + 1) : peak = e[i]
  <2>1. PICK i \in 1..k : old = e[i]
    BY <1>1 DEF SeenTo
  <2>2. i \in 1..(k + 1) /\ k + 1 \in 1..(k + 1)
    OBVIOUS
  <2> QED
    BY <1>1, <1>2, <2>1, <2>2
<1>11. \E j \in 1..(k + 1) : \E i \in 1..j : deepest = Fall(e, i, j)
  <2>1. CASE deepest = worst
    <3>1. PICK j \in 1..k : \E i \in 1..j : worst = Fall(e, i, j)
      BY <1>4 DEF SeenTo
    <3> QED
      BY <2>1, <3>1
  <2>2. CASE deepest = dd
    <3>1. PICK i \in 1..(k + 1) : peak = e[i]
      BY <1>10
    <3>2. deepest = Fall(e, i, k + 1)
      BY <1>1, <1>3, <2>2, <3>1 DEF Fall
    <3> QED
      BY <3>2
  <2> QED
    BY <1>5, <1>6, <2>1, <2>2
<1>12. ASSUME NEW j \in 1..(k + 1), NEW i \in 1..j
       PROVE  ~Less(deepest, Fall(e, i, j))
  <2>1. PICK a \in Nat \ {0}, b \in Nat \ {0} : a = e[i] /\ b = e[j]
    OBVIOUS
  <2>2. PICK fall \in Fraction : fall = Fall(e, i, j)
    <3>1. a - b \in Int
      OBVIOUS
    <3> QED
      BY <2>1, <3>1, RatReduces DEF Fall
  <2>3. CASE j \in 1..k
    <3>1. ~Less(worst, fall)
      BY <1>4, <2>2, <2>3 DEF SeenTo
    <3> QED
      BY <1>7, <2>2, <3>1, NotLessTransitive
  <2>4. CASE j = k + 1
    <3>1. b = x
      BY <1>1, <2>1, <2>4
    <3>2. a <= peak
      BY <1>9, <2>1
    <3>3. peak - x \in Int /\ a - x \in Int
      OBVIOUS
    <3>4. Less(Rat(peak - x, peak), Rat(a - x, a)) <=> (peak - x) * a < (a - x) * peak
      BY <3>3, RatLess
    <3>5. ~((peak - x) * a < (a - x) * peak)
      <4>1. x * a <= x * peak
        BY <3>2, CommonDivisor
      <4>2. (peak - x) * a = peak * a - x * a /\ (a - x) * peak = peak * a - x * peak
        OBVIOUS
      <4>3. PICK u \in Int, v \in Int, w \in Int : u = x * a /\ v = x * peak /\ w = peak * a
        OBVIOUS
      <4> QED
        BY <4>1, <4>2, <4>3
    <3>6. ~Less(dd, fall)
      BY <1>3, <2>1, <2>2, <3>1, <3>4, <3>5 DEF Fall
    <3> QED
      BY <1>7, <2>2, <3>6, NotLessTransitive
  <2> QED
    BY <1>8, <2>3, <2>4
<1> QED
  BY <1>5, <1>6, <1>9, <1>10, <1>11, <1>12 DEF SeenTo

\* The pass over a curve that never falls to 0 ends with its deepest fall.
LEMMA SeenAll ==
  ASSUME NEW curve, NEW n \in Nat \ {0}, DOMAIN curve = 1..n,
         \A i \in 1..n : curve[i].equity \in Nat \ {0}
  PROVE  \E acc : /\ acc.max_dd = MaxDrawdown(curve)
                  /\ SeenTo(acc, [i \in 1..n |-> curve[i].equity], n)
<1> DEFINE e == [i \in 1..n |-> curve[i].equity]
           it == CHOOSE it : Draws(it, curve, SUBSET (1..n))
           Bad == {k \in Nat \ {0} : k <= n /\ ~SeenTo(it[1..k], e, k)}
<1>1. Draws(it, curve, SUBSET (1..n))
  BY DrawsExist
<1>2. MaxDrawdown(curve) = it[1..n].max_dd
  BY DrawUnfolds
<1> HIDE DEF it
<1>3. /\ it[{}] = [peak |-> curve[1].equity, max_dd |-> Zero]
      /\ \A s \in SUBSET (1..n) :
           s # {} => it[s] = DrawStep(it[s \ {Max(s)}], curve[Max(s)])
  BY <1>1 DEF Draws
<1>4. ASSUME NEW k \in 1..n
      PROVE  it[1..k] = DrawStep(it[1..(k - 1)], curve[k])
  <2>1. 1..k \in SUBSET (1..n) /\ 1..k # {} /\ (1..k) \ {k} = 1..(k - 1)
    <3>1. k \in Nat \ {0} /\ k <= n /\ k \in 1..k
      OBVIOUS
    <3>2. \A x \in 1..k : x \in 1..n
      BY <3>1
    <3>3. \A x : x \in (1..k) \ {k} <=> x \in 1..(k - 1)
      BY <3>1
    <3> QED
      BY <3>1, <3>2, <3>3
  <2>2. Max(1..k) = k
    <3>1. 1..k \subseteq Int /\ k \in Int /\ \A x \in 1..k : x <= k
      OBVIOUS
    <3>2. PICK m \in 1..k : m = Max(1..k) /\ \A x \in 1..k : m >= x
      BY <2>1, <3>1, MaxOfBounded
    <3>3. m >= k /\ m <= k
      BY <3>2
    <3> QED
      BY <3>2, <3>3
  <2> QED
    BY <1>3, <2>1, <2>2
<1>5. \A i \in 1..n : e[i] = curve[i].equity /\ e[i] \in Nat \ {0}
  OBVIOUS
<1> HIDE DEF e
<1>6. SeenTo(it[1..1], e, 1)
  <2>1. 1 \in 1..n /\ 1..(1 - 1) = {}
    OBVIOUS
  <2>2. it[1..1] = DrawStep([peak |-> e[1], max_dd |-> Zero], curve[1])
    BY <1>3, <1>4, <1>5, <2>1
  <2> QED
    BY <1>5, <2>1, <2>2, SeenFirst
<1>7. Bad = {}
  <2> SUFFICES ASSUME Bad # {} PROVE FALSE
    OBVIOUS
  <2>1. PICK k \in Bad : \A m \in Bad : k <= m
    <3>1. Bad \subseteq Nat
      OBVIOUS
    <3> QED
      BY <3>1, LeastNatural
  <2>2. k \in Nat \ {0} /\ k <= n /\ ~SeenTo(it[1..k], e, k) /\ k # 1
    BY <1>6
  <2>3. PICK h \in Nat \ {0} : k = h + 1
    <3>1. k - 1 \in Nat \ {0} /\ k = (k - 1) + 1
      BY <2>2
    <3> QED
      BY <3>1
  <2>4. h <= n /\ h \notin Bad
    BY <2>1, <2>2, <2>3
  <2>5. SeenTo(it[1..h], e, h)
    BY <2>4
  <2>6. it[1..k] = DrawStep(it[1..h], curve[k])
    <3>1. k \in 1..n /\ k - 1 = h
      BY <2>2, <2>3
    <3> QED
      BY <1>4, <3>1
  <2>7. \A i \in 1..(h + 1) : e[i] \in Nat \ {0}
    BY <1>5, <2>2, <2>3
  <2>8. curve[k].equity = e[h + 1]
    BY <1>5, <2>2, <2>3
  <2>9. SeenTo(it[1..k], e, h + 1)
    BY <2>5, <2>6, <2>7, <2>8, SeenNext
  <2> QED
    BY <2>2, <2>3, <2>9
<1>8. SeenTo(it[1..n], e, n)
  BY <1>7
<1> QED
  BY <1>2, <1>8 DEF e

\* The portfolio was worth something at every snapshot.
PositiveCurve ==
  \A i \in DOMAIN portfolio.equity_curve : portfolio.equity_curve[i].equity > 0

LEMMA DeepestFall ==
  ASSUME portfolio \in Portfolios, PositiveCurve
  PROVE  DrawdownIsWorstFall
<1> DEFINE curve == portfolio.equity_curve
           n == Len(curve)
           e == [i \in 1..n |-> curve[i].equity]
           worst == ComputeMetrics(portfolio).max_drawdown
           falls == UNION {{Rat(curve[i].equity - curve[j].equity, curve[i].equity) :
                              i \in 1..j} : j \in DOMAIN curve}
<1> SUFFICES ASSUME n >= 2
             PROVE  worst \in falls /\ \A fall \in falls : ~Less(worst, fall)
  BY DEF DrawdownIsWorstFall
<1>1. curve \in Seq(Snapshot)
  BY DEF Portfolios
<1>2. n \in Nat /\ DOMAIN curve = 1..n /\ \A i \in 1..n : curve[i] \in Snapshot
  BY <1>1
<1>3. worst = MaxDrawdown(curve)
  BY DEF ComputeMetrics
<1>4. \A i \in 1..n : curve[i].equity \in Nat \ {0}
  <2> SUFFICES ASSUME NEW i \in 1..n PROVE curve[i].equity \in Nat \ {0}
    OBVIOUS
  <2>1. PICK x \in Int : x = curve[i].equity
    BY <1>2 DEF Snapshot
  <2>2. x > 0
    BY <1>2, <2>1 DEF PositiveCurve
  <2> QED
    BY <2>1, <2>2
<1> HIDE DEF curve, n, worst
<1>5. n \in Nat \ {0}
  BY <1>2
<1>6. PICK acc : acc.max_dd = worst /\ SeenTo(acc, e, n)
  BY <1>2, <1>3, <1>4, <1>5, SeenAll
<1>7. \A j \in 1..n : \A i \in 1..j :
        Fall(e, i, j) = Rat(curve[i].equity - curve[j].equity, curve[i].equity)
  <2> SUFFICES ASSUME NEW j \in 1..n, NEW i \in 1..j
               PROVE  Fall(e, i, j) = Rat(curve[i].equity - curve[j].equity, curve[i].equity)
    OBVIOUS
  <2>1. i \in 1..n
    BY <1>2
  <2>2. e[i] = curve[i].equity /\ e[j] = curve[j].equity
    BY <2>1
  <2> QED
    BY <2>2 DEF Fall
<1> HIDE DEF e
<1>8. worst \in falls
  <2>1. PICK j \in 1..n : \E i \in 1..j : worst = Fall(e, i, j)
    BY <1>6 DEF SeenTo
  <2>2. PICK i \in 1..j : worst = Fall(e, i, j)
    BY <2>1
  <2> QED
    BY <1>2, <1>7, <2>2
<1>9. ASSUME NEW fall \in falls PROVE ~Less(worst, fall)
  <2>1. PICK j \in 1..n : \E i \in 1..j :
           fall = Rat(curve[i].equity - curve[j].equity, curve[i].equity)
    BY <1>2
  <2>2. PICK i \in 1..j : fall = Rat(curve[i].equity - curve[j].equity, curve[i].equity)
    BY <2>1
  <2>3. ~Less(worst, Fall(e, i, j))
    BY <1>6 DEF SeenTo
  <2> QED
    BY <1>7, <2>2, <2>3
<1> QED
  BY <1>8, <1>9

\* The drawdown reported is the deepest fall from any point of the curve to a
\* later one (Portfolio.cpp:159-166), whatever the length of the curve, as
\* long as the portfolio was always worth something: from a point where it
\* was not there is no fall to speak of, since a fall is a part of the worth.
THEOREM DrawdownIsDeepest ==
  ASSUME ProperStrengths
  PROVE  Spec => [](PositiveCurve => DrawdownIsWorstFall)
<1>1. TradingInv => (PositiveCurve => DrawdownIsWorstFall)
  BY DeepestFall DEF TradingInv
<1> QED
  BY <1>1, TradingInvariance, PTL

-----------------------------------------------------------------------------
(* The sums of the books.                                                   *)

Whole(k) == [n |-> k, d |-> 1]

Cost(b) == Times(Whole(b.quantity), b.avg_price)

RealizedOn(p, S) == Sum(LAMBDA s : p.positions[s].realized_pnl, S)

BookValueOf(p) ==
  Sum(LAMBDA s : Times([n |-> p.positions[s].quantity, d |-> 1], p.positions[s].avg_price),
      DOMAIN p.positions)

CommissionOf(p) == MapThenSumSet(LAMBDA s : p.positions[s].commission, DOMAIN p.positions)

\* The books of p balance.
Balanced(p) ==
  Plus(Whole(p.cash), BookValueOf(p))
    = Plus(Whole(InitialCapital - CommissionOf(p)), RealizedOn(p, DOMAIN p.positions))

LEMMA BooksOfPortfolio == BooksBalance <=> (NeverShort => Balanced(portfolio))
BY DEF BooksBalance, Balanced, Proceeds, BookValue, BookValueOf, Realized, RealizedOn,
       Commission, CommissionOf, Held, Whole

LEMMA RealizedIs ==
  ASSUME NEW p, NEW S
  PROVE  RealizedOn(p, S) = Sigma([s \in S |-> p.positions[s].realized_pnl], S)
<1> DEFINE F == [s \in S |-> p.positions[s].realized_pnl]
           Direct(it) ==
             it = [s \in SUBSET S |-> IF s = {} THEN Zero
                                      ELSE Plus(p.positions[Picked(s)].realized_pnl,
                                                it[s \ {Picked(s)}])]
<1>1. RealizedOn(p, S) = (CHOOSE it : Direct(it))[S]
  BY DEF RealizedOn, Sum, MapThenFoldSet, Picked
<1>2. \A it : Direct(it) <=> PlusUp(it, F, SUBSET S)
  <2>1. \A s \in SUBSET S : s # {} => F[Picked(s)] = p.positions[Picked(s)].realized_pnl
    BY DEF Picked
  <2> HIDE DEF F
  <2> QED
    BY <2>1 DEF PlusUp
<1> HIDE DEF Direct, F
<1>3. (CHOOSE it : Direct(it)) = (CHOOSE it : PlusUp(it, F, SUBSET S))
  BY <1>2, Zenon
<1> QED
  BY <1>1, <1>3 DEF Sigma, F

LEMMA BookValueIs ==
  ASSUME NEW p
  PROVE  BookValueOf(p) = Sigma([s \in DOMAIN p.positions |-> Cost(p.positions[s])],
                                DOMAIN p.positions)
<1> DEFINE S == DOMAIN p.positions
           F == [s \in S |-> Cost(p.positions[s])]
           Direct(it) ==
             it = [s \in SUBSET S |-> IF s = {} THEN Zero
                                      ELSE Plus(Cost(p.positions[Picked(s)]),
                                                it[s \ {Picked(s)}])]
<1>1. BookValueOf(p) = (CHOOSE it : Direct(it))[S]
  BY DEF BookValueOf, Sum, MapThenFoldSet, Picked, Cost, Whole
<1>2. \A it : Direct(it) <=> PlusUp(it, F, SUBSET S)
  <2>1. \A s \in SUBSET S : s # {} => F[Picked(s)] = Cost(p.positions[Picked(s)])
    BY DEF Picked
  <2> HIDE DEF F
  <2> QED
    BY <2>1 DEF PlusUp
<1> HIDE DEF Direct, F
<1>3. (CHOOSE it : Direct(it)) = (CHOOSE it : PlusUp(it, F, SUBSET S))
  BY <1>2, Zenon
<1> QED
  BY <1>1, <1>3 DEF Sigma, F

LEMMA CommissionIs ==
  ASSUME NEW p
  PROVE  CommissionOf(p) = Total([s \in DOMAIN p.positions |-> p.positions[s].commission],
                                 DOMAIN p.positions)
<1> DEFINE S == DOMAIN p.positions
           f == [s \in S |-> p.positions[s].commission]
           Direct(it) ==
             it = [s \in SUBSET S |-> IF s = {} THEN 0
                                      ELSE p.positions[Picked(s)].commission
                                             + it[s \ {Picked(s)}]]
<1>1. CommissionOf(p) = (CHOOSE it : Direct(it))[S]
  BY DEF CommissionOf, MapThenSumSet, MapThenFoldSet, Picked
<1>2. \A it : Direct(it) <=> SumsUp(it, f, SUBSET S)
  <2>1. \A s \in SUBSET S : s # {} => f[Picked(s)] = p.positions[Picked(s)].commission
    BY DEF Picked
  <2> HIDE DEF f
  <2> QED
    BY <2>1 DEF SumsUp
<1> HIDE DEF Direct, f
<1>3. (CHOOSE it : Direct(it)) = (CHOOSE it : SumsUp(it, f, SUBSET S))
  BY <1>2, Zenon
<1> QED
  BY <1>1, <1>3 DEF Total, f

-----------------------------------------------------------------------------
(* The books over a common denominator.                                     *)

\* The fractions in the books of p.
Amounts(p) ==
  {p.positions[s].avg_price : s \in DOMAIN p.positions}
    \cup {p.positions[s].realized_pnl : s \in DOMAIN p.positions}

\* val[x] is what each fraction x of F is worth in parts of 1 / D.
Valued(val, D, F) == \A x \in F : x \in Fraction /\ val[x] \in Int /\ Worth(x, D, val[x])

Costs(p, val) ==
  [s \in DOMAIN p.positions |->
     p.positions[s].quantity * val[p.positions[s].avg_price]]

Profits(p, val) == [s \in DOMAIN p.positions |-> val[p.positions[s].realized_pnl]]

Fees(p) == [s \in DOMAIN p.positions |-> p.positions[s].commission]

\* The books balance, in parts of 1 / D.
Ledger(p, D, val) ==
  p.cash * D + Total(Costs(p, val), DOMAIN p.positions)
    = (InitialCapital - Total(Fees(p), DOMAIN p.positions)) * D
        + Total(Profits(p, val), DOMAIN p.positions)

LEMMA HeldPositions ==
  ASSUME NEW p \in Portfolios
  PROVE  /\ DOMAIN p.positions \subseteq Symbols /\ IsFiniteSet(DOMAIN p.positions)
         /\ \A s \in DOMAIN p.positions : p.positions[s] \in Position
         /\ p.cash \in Int
<1>1. DOMAIN p.positions \subseteq Symbols /\ p.positions \in [DOMAIN p.positions -> Position]
  BY MapType DEF Portfolios
<1> QED
  BY <1>1, TradingAssumption, FS_Subset DEF Portfolios

LEMMA FiniteAmounts ==
  ASSUME NEW p \in Portfolios
  PROVE  IsFiniteSet(Amounts(p)) /\ Amounts(p) \subseteq Fraction
<1> DEFINE S == DOMAIN p.positions
           A == {p.positions[s].avg_price : s \in S}
           B == {p.positions[s].realized_pnl : s \in S}
           a == [s \in S |-> p.positions[s].avg_price]
           b == [s \in S |-> p.positions[s].realized_pnl]
<1>1. IsFiniteSet(S) /\ \A s \in S : p.positions[s] \in Position
  BY HeldPositions
<1>2. A \subseteq Fraction /\ B \subseteq Fraction
  BY <1>1 DEF Position
<1>3. a \in Surjection(S, A) /\ b \in Surjection(S, B)
  BY DEF Surjection
<1> HIDE DEF S, A, B, a, b
<1>4. IsFiniteSet(A) /\ IsFiniteSet(B)
  BY <1>1, <1>3, FS_Surjection
<1> QED
  BY <1>2, <1>4, FS_Union DEF Amounts, A, B, S

\* Finitely many fractions can be valued together.
LEMMA CanBeValued ==
  ASSUME NEW F, IsFiniteSet(F), F \subseteq Fraction
  PROVE  \E D \in Nat \ {0} : \E val : Valued(val, D, F)
<1>1. PICK D \in Nat \ {0} : \A x \in F : \E v \in Int : Worth(x, D, v)
  BY CommonDenominator
<1> DEFINE val == [x \in F |-> CHOOSE v \in Int : Worth(x, D, v)]
<1>2. Valued(val, D, F)
  BY <1>1 DEF Valued
<1> QED
  BY <1>2

LEMMA PlusIsRat ==
  ASSUME NEW x \in Fraction, NEW y \in Fraction
  PROVE  \E a \in Int : \E b \in Nat \ {0} : Plus(x, y) = Rat(a, b)
<1>1. x.n \in Int /\ x.d \in Nat \ {0} /\ y.n \in Int /\ y.d \in Nat \ {0}
  BY DEF Fraction
<1>2. x.n * y.d + y.n * x.d \in Int /\ x.d * y.d \in Nat \ {0}
  BY <1>1, PositiveProduct
<1> QED
  BY <1>2 DEF Plus

\* Two sums are the same if and only if they are worth the same.
LEMMA SamePlus ==
  ASSUME NEW x \in Fraction, NEW y \in Fraction, NEW z \in Fraction, NEW t \in Fraction,
         NEW D \in Nat \ {0}, NEW v \in Int, NEW w \in Int,
         Worth(Plus(x, y), D, v), Worth(Plus(z, t), D, w)
  PROVE  Plus(x, y) = Plus(z, t) <=> v = w
<1>1. PICK a \in Int, b \in Nat \ {0} : Plus(x, y) = Rat(a, b)
  BY PlusIsRat
<1>2. PICK c \in Int, d \in Nat \ {0} : Plus(z, t) = Rat(c, d)
  BY PlusIsRat
<1>3. v = w => Plus(x, y) = Plus(z, t)
  BY <1>1, <1>2, SameWorth
<1>4. Plus(x, y) = Plus(z, t) => v = w
  BY PlusType, WorthOnce
<1> QED
  BY <1>3, <1>4

LEMMA CostWorth ==
  ASSUME NEW b \in Position, NEW D \in Nat \ {0}, NEW v \in Int, Worth(b.avg_price, D, v)
  PROVE  Cost(b) \in Fraction /\ Worth(Cost(b), D, b.quantity * v)
<1>1. b.quantity \in Int /\ b.avg_price \in Fraction
  BY DEF Position
<1>2. Cost(b) = Rat(b.quantity * b.avg_price.n, 1 * b.avg_price.d)
  BY DEF Cost, Whole, Times
<1> QED
  BY <1>1, <1>2, WorthTimes

\* The sums of the books are whole, in parts of 1 / D.
LEMMA LedgerType ==
  ASSUME NEW p \in Portfolios, NEW D \in Nat \ {0}, NEW val, Valued(val, D, Amounts(p))
  PROVE  LET S == DOMAIN p.positions
         IN  /\ \A s \in S : /\ Costs(p, val)[s] \in Int /\ Profits(p, val)[s] \in Int
                             /\ Fees(p)[s] \in Int
             /\ Total(Costs(p, val), S) \in Int /\ Total(Profits(p, val), S) \in Int
             /\ Total(Fees(p), S) \in Int /\ CommissionOf(p) = Total(Fees(p), S)
             /\ BookValueOf(p) \in Fraction
             /\ Worth(BookValueOf(p), D, Total(Costs(p, val), S))
             /\ RealizedOn(p, S) \in Fraction
             /\ Worth(RealizedOn(p, S), D, Total(Profits(p, val), S))
<1> DEFINE S == DOMAIN p.positions
           F == [s \in S |-> Cost(p.positions[s])]
           G == [s \in S |-> p.positions[s].realized_pnl]
<1>1. IsFiniteSet(S) /\ \A s \in S : p.positions[s] \in Position
  BY HeldPositions
<1>2. ASSUME NEW s \in S
      PROVE  /\ F[s] \in Fraction /\ Costs(p, val)[s] \in Int
             /\ Worth(F[s], D, Costs(p, val)[s])
             /\ G[s] \in Fraction /\ Profits(p, val)[s] \in Int
             /\ Worth(G[s], D, Profits(p, val)[s]) /\ Fees(p)[s] \in Int
  <2>1. PICK b \in Position : b = p.positions[s]
    BY <1>1
  <2>2. PICK v \in Int, w \in Int : /\ v = val[b.avg_price] /\ w = val[b.realized_pnl]
                                    /\ Worth(b.avg_price, D, v) /\ Worth(b.realized_pnl, D, w)
    BY <2>1 DEF Valued, Amounts
  <2>3. Cost(b) \in Fraction /\ Worth(Cost(b), D, b.quantity * v)
    BY <2>2, CostWorth
  <2>4. F[s] = Cost(b) /\ G[s] = b.realized_pnl
    BY <2>1
  <2>5. /\ Costs(p, val)[s] = b.quantity * v /\ Profits(p, val)[s] = w
        /\ Fees(p)[s] = b.commission
    BY <2>1, <2>2 DEF Costs, Profits, Fees
  <2>6. b.quantity * v \in Int /\ b.realized_pnl \in Fraction /\ b.commission \in Int
    BY DEF Position
  <2> QED
    BY <2>2, <2>3, <2>4, <2>5, <2>6
<1>3. /\ BookValueOf(p) = Sigma(F, S) /\ RealizedOn(p, S) = Sigma(G, S)
      /\ CommissionOf(p) = Total(Fees(p), S)
  BY BookValueIs, RealizedIs, CommissionIs DEF Fees
<1> HIDE DEF F, G, S
<1>4. /\ Sigma(F, S) \in Fraction /\ Total(Costs(p, val), S) \in Int
      /\ Worth(Sigma(F, S), D, Total(Costs(p, val), S))
  BY <1>1, <1>2, WorthSigma
<1>5. /\ Sigma(G, S) \in Fraction /\ Total(Profits(p, val), S) \in Int
      /\ Worth(Sigma(G, S), D, Total(Profits(p, val), S))
  BY <1>1, <1>2, WorthSigma
<1>6. Total(Fees(p), S) \in Int
  BY <1>1, <1>2, TotalInt
<1> QED
  BY <1>2, <1>3, <1>4, <1>5, <1>6 DEF S

LEMMA LedgerBalances ==
  ASSUME NEW p \in Portfolios, NEW D \in Nat \ {0}, NEW val, Valued(val, D, Amounts(p))
  PROVE  Balanced(p) <=> Ledger(p, D, val)
<1> DEFINE S == DOMAIN p.positions
<1>1. PICK costs \in Int, profits \in Int, fees \in Int :
         /\ costs = Total(Costs(p, val), S) /\ profits = Total(Profits(p, val), S)
         /\ fees = Total(Fees(p), S) /\ CommissionOf(p) = fees
         /\ BookValueOf(p) \in Fraction /\ Worth(BookValueOf(p), D, costs)
         /\ RealizedOn(p, S) \in Fraction /\ Worth(RealizedOn(p, S), D, profits)
  BY LedgerType
<1>2. PICK cash \in Int, start \in Int : cash = p.cash /\ start = InitialCapital - fees
  BY HeldPositions, PortfolioAssumption
<1>3. /\ Whole(cash) \in Fraction /\ Worth(Whole(cash), D, cash * D) /\ cash * D \in Int
      /\ Whole(start) \in Fraction /\ Worth(Whole(start), D, start * D) /\ start * D \in Int
  BY WorthWhole DEF Whole
<1>4. /\ Worth(Plus(Whole(cash), BookValueOf(p)), D, cash * D + costs)
      /\ Worth(Plus(Whole(start), RealizedOn(p, S)), D, start * D + profits)
  BY <1>1, <1>3, WorthPlus
<1>5. cash * D + costs \in Int /\ start * D + profits \in Int
  BY <1>3
<1>6. Plus(Whole(cash), BookValueOf(p)) = Plus(Whole(start), RealizedOn(p, S))
        <=> cash * D + costs = start * D + profits
  BY <1>1, <1>3, <1>4, <1>5, SamePlus
<1> QED
  BY <1>1, <1>2, <1>6 DEF Balanced, Ledger

-----------------------------------------------------------------------------
(* What a fill does to the books.                                           *)

\* on_fill, field by field (Portfolio.cpp:83-107).
LEMMA FillBooks ==
  ASSUME NEW p \in Portfolios, NEW f \in Fill
  PROVE  LET q == OnFill(p, f)
             old == PositionOf(p, f.symbol)
             new == q.positions[f.symbol]
             value == f.quantity * f.fill_price
             bought == old.quantity + f.quantity
             closed == Min({f.quantity, MagnitudeOf(old.quantity)})
         IN  /\ new.commission = old.commission + f.commission
             /\ f.side = "BUY" =>
                  /\ new.quantity = bought /\ new.realized_pnl = old.realized_pnl
                  /\ new.avg_price =
                       IF bought > 0
                       THEN Rat(old.quantity * old.avg_price.n + value * old.avg_price.d,
                                old.avg_price.d * bought)
                       ELSE old.avg_price
                  /\ q.cash = p.cash - (value + f.commission)
             /\ f.side = "SELL" =>
                  /\ new.quantity = old.quantity - f.quantity
                  /\ new.avg_price = old.avg_price
                  /\ new.realized_pnl =
                       Plus(old.realized_pnl, Gain(closed, f.fill_price, old.avg_price))
                  /\ q.cash = p.cash + (value - f.commission)
             /\ q.fill_history = Append(p.fill_history, f)
             /\ q.equity_curve = p.equity_curve
<1> DEFINE q == OnFill(p, f)
           x == f.symbol
           value == f.quantity * f.fill_price
           average(old, bought) ==
             IF bought > 0
             THEN Rat(old.quantity * old.avg_price.n + value * old.avg_price.d,
                      old.avg_price.d * bought)
             ELSE old.avg_price
           realized(old) ==
             Plus(old.realized_pnl, Gain(Min({f.quantity, MagnitudeOf(old.quantity)}),
                                         f.fill_price, old.avg_price))
<1>1. PICK old \in Position : old = PositionOf(p, x)
  BY PositionType DEF Fill
<1>2. f.side \in {"BUY", "SELL"}
  BY DEF Fill
<1> DEFINE bought == old.quantity + f.quantity
           purchase == [old EXCEPT !.quantity = bought, !.avg_price = average(old, bought),
                                   !.commission = old.commission + f.commission]
           sale == [old EXCEPT !.quantity = old.quantity - f.quantity,
                               !.realized_pnl = realized(old),
                               !.commission = old.commission + f.commission]
           after == IF f.side = "BUY" THEN purchase ELSE sale
           cash == IF f.side = "BUY" THEN p.cash - (value + f.commission)
                                     ELSE p.cash + (value - f.commission)
<1>3. q = [p EXCEPT !.positions = Put(p.positions, x, after), !.cash = cash,
                    !.fill_history = Append(p.fill_history, f)]
  BY <1>1 DEF OnFill
<1> HIDE DEF average, realized
<1>4. /\ purchase.quantity = bought /\ purchase.avg_price = average(old, bought)
      /\ purchase.realized_pnl = old.realized_pnl
      /\ purchase.commission = old.commission + f.commission
  BY DEF Position
<1>5. /\ sale.quantity = old.quantity - f.quantity /\ sale.avg_price = old.avg_price
      /\ sale.realized_pnl = realized(old)
      /\ sale.commission = old.commission + f.commission
  BY DEF Position
<1> HIDE DEF purchase, sale
<1>6. Put(p.positions, x, after)[x] = after
  BY DEF Put
<1> HIDE DEF after, q, cash
<1>7. /\ q.positions = Put(p.positions, x, after) /\ q.cash = cash
      /\ q.fill_history = Append(p.fill_history, f) /\ q.equity_curve = p.equity_curve
  BY <1>3 DEF Portfolios
<1>8. q.positions[x] = after
  BY <1>6, <1>7
<1>9. f.side = "BUY" =>
        /\ q.positions[x].quantity = bought /\ q.positions[x].realized_pnl = old.realized_pnl
        /\ q.positions[x].avg_price = average(old, bought)
        /\ q.positions[x].commission = old.commission + f.commission
        /\ q.cash = p.cash - (value + f.commission)
  BY <1>4, <1>7, <1>8 DEF after, cash
<1>10. f.side = "SELL" =>
        /\ q.positions[x].quantity = old.quantity - f.quantity
        /\ q.positions[x].avg_price = old.avg_price
        /\ q.positions[x].realized_pnl = realized(old)
        /\ q.positions[x].commission = old.commission + f.commission
        /\ q.cash = p.cash + (value - f.commission)
  BY <1>5, <1>7, <1>8 DEF after, cash
<1> QED
  BY <1>1, <1>2, <1>7, <1>9, <1>10 DEF q, average, realized

\* The average price after a purchase.
Averaged(avg, held, value, bought) ==
  Rat(held * avg.n + value * avg.d, avg.d * bought)

\* A position at the average price costs what it cost and what the fill cost,
\* in parts of 1 / D.
LEMMA AverageWorth ==
  ASSUME NEW avg \in Fraction, NEW D \in Nat \ {0}, NEW v \in Int, Worth(avg, D, v),
         NEW held \in Int, NEW value \in Int, NEW bought \in Nat \ {0}, NEW w \in Int,
         Worth(Averaged(avg, held, value, bought), D, w)
  PROVE  bought * w = held * v + value * D
<1>0. PICK n \in Int, d \in Nat \ {0} : n = avg.n /\ d = avg.d /\ n * D = v * d
  BY DEF Fraction, Worth
<1>1. PICK a \in Int, b \in Nat \ {0} : a = held * n + value * d /\ b = d * bought
  BY PositiveProduct
<1>2. a * D = w * b
  <2>1. Averaged(avg, held, value, bought) = Rat(a, b)
    BY <1>0, <1>1 DEF Averaged
  <2>2. Worth(Rat(a, b), D, w)
    BY <2>1
  <2> QED
    BY <2>2, WorthRat
<1>3. a * D = held * (n * D) + d * (value * D)
  <2>1. (held * n + value * d) * D = held * (n * D) + d * (value * D)
    OBVIOUS
  <2> QED
    BY <1>1, <2>1
<1>4. held * (v * d) + d * (value * D) = d * (held * v + value * D)
  OBVIOUS
<1>5. w * b = d * (bought * w)
  <2>1. w * (d * bought) = d * (bought * w)
    OBVIOUS
  <2> QED
    BY <1>1, <2>1
<1>6. d * (bought * w) = d * (held * v + value * D)
  BY <1>0, <1>2, <1>3, <1>4, <1>5
<1>7. bought * w \in Int /\ held * v + value * D \in Int
  OBVIOUS
<1> QED
  BY <1>6, <1>7, SameParts

\* A gain is worth the difference of the prices, in parts of 1 / D.
LEMMA GainWorth ==
  ASSUME NEW avg \in Fraction, NEW D \in Nat \ {0}, NEW v \in Int, Worth(avg, D, v),
         NEW quantity \in Int, NEW price \in Int
  PROVE  /\ Gain(quantity, price, avg) \in Fraction
         /\ Worth(Gain(quantity, price, avg), D, quantity * (price * D - v))
<1>1. PICK n \in Int, d \in Nat \ {0} : n = avg.n /\ d = avg.d /\ n * D = v * d
  BY DEF Fraction, Worth
<1>2. PICK a \in Int : a = quantity * (price * d - n)
  OBVIOUS
<1>3. a * D = (quantity * (price * D - v)) * d
  <2>1. (quantity * (price * d - n)) * D = quantity * (price * (d * D) - n * D)
    OBVIOUS
  <2>2. quantity * (price * (d * D) - v * d) = (quantity * (price * D - v)) * d
    OBVIOUS
  <2> QED
    BY <1>1, <1>2, <2>1, <2>2
<1>4. Gain(quantity, price, avg) = Rat(a, d)
  BY <1>1, <1>2 DEF Gain
<1>5. quantity * (price * D - v) \in Int
  OBVIOUS
<1>6. Worth(Rat(a, d), D, quantity * (price * D - v))
  BY <1>3, <1>5, WorthRat
<1> QED
  BY <1>4, <1>6, RatReduces

\* While nothing is short, a fill changes the cash by as much as it changes
\* what is held and earned (Portfolio.cpp:83-107).
LEMMA LedgerFill ==
  ASSUME NEW p \in Portfolios, NEW f \in Fill, NEW q, q = OnFill(p, f),
         PositionOf(p, f.symbol).quantity >= 0, q.positions[f.symbol].quantity >= 0,
         NEW D \in Nat \ {0}, NEW val,
         Valued(val, D, Amounts(p) \cup Amounts(q) \cup {Zero}),
         Ledger(p, D, val)
  PROVE  Ledger(q, D, val)
<1> DEFINE S == DOMAIN p.positions
           x == f.symbol
<1>1. /\ q \in Portfolios /\ x \in Symbols /\ DOMAIN q.positions = S \cup {x}
      /\ \A s \in S : s # x => q.positions[s] = p.positions[s]
  BY FillMoves
<1>2. IsFiniteSet(S) /\ p.cash \in Int /\ q.cash \in Int /\ q.positions[x] \in Position
  BY <1>1, HeldPositions
<1>3. PICK old \in Position, new \in Position :
         old = PositionOf(p, x) /\ new = q.positions[x]
  BY <1>1, <1>2, PositionType
<1>4. PICK oq \in Nat, nq \in Nat, oc \in Int, nc \in Int :
         oq = old.quantity /\ nq = new.quantity /\ oc = old.commission /\ nc = new.commission
  BY <1>3 DEF Position
<1>5. PICK fq \in Nat, price \in Int, fee \in Int :
         fq = f.quantity /\ price = f.fill_price /\ fee = f.commission
  BY DEF Fill
<1>6. /\ Valued(val, D, Amounts(p)) /\ Valued(val, D, Amounts(q))
  BY DEF Valued
<1>7. /\ val[old.avg_price] \in Int /\ Worth(old.avg_price, D, val[old.avg_price])
      /\ val[old.realized_pnl] \in Int /\ Worth(old.realized_pnl, D, val[old.realized_pnl])
      /\ x \notin S => val[old.realized_pnl] = 0
  <2>1. val[Zero] \in Int /\ Worth(Zero, D, val[Zero])
    BY DEF Valued
  <2>2. val[Zero] = 0
    BY <2>1, WorthZero, WorthOnce
  <2>3. CASE x \in S
    <3>1. old = p.positions[x]
      BY <1>3, <2>3 DEF PositionOf
    <3> QED
      BY <1>6, <2>3, <3>1 DEF Valued, Amounts
  <2>4. CASE x \notin S
    <3>1. old = NewPosition
      BY <1>3, <2>4 DEF PositionOf
    <3>2. old.avg_price = Zero /\ old.realized_pnl = Zero
      BY <3>1 DEF NewPosition
    <3> QED
      BY <2>1, <2>2, <3>2
  <2> QED
    BY <2>3, <2>4
<1>8. /\ val[new.avg_price] \in Int /\ Worth(new.avg_price, D, val[new.avg_price])
      /\ val[new.realized_pnl] \in Int /\ Worth(new.realized_pnl, D, val[new.realized_pnl])
  <2>1. x \in DOMAIN q.positions
    BY <1>1
  <2> QED
    BY <1>3, <1>6, <2>1 DEF Valued, Amounts
<1>9. PICK oa \in Int, na \in Int, or \in Int, nr \in Int :
         /\ oa = val[old.avg_price] /\ na = val[new.avg_price]
         /\ or = val[old.realized_pnl] /\ nr = val[new.realized_pnl]
  BY <1>7, <1>8
<1>10. x \notin S => oq = 0 /\ oc = 0 /\ or = 0
  <2> SUFFICES ASSUME x \notin S PROVE oq = 0 /\ oc = 0 /\ or = 0
    OBVIOUS
  <2>1. old = NewPosition
    BY <1>3 DEF PositionOf
  <2> QED
    BY <1>4, <1>7, <1>9, <2>1 DEF NewPosition
<1>11. x \in S => old = p.positions[x]
  BY <1>3 DEF PositionOf
<1>12. PICK oldCost \in Int, newCost \in Int : oldCost = oq * oa /\ newCost = nq * na
  OBVIOUS
<1>13. PICK b \in Int :
          /\ b = Total(Costs(p, val), S)
          /\ Total(Costs(q, val), DOMAIN q.positions) = b - oldCost + newCost
  <2>1. \A y \in S : Costs(p, val)[y] \in Int
    BY <1>6, LedgerType
  <2>2. \A y \in S : y # x => Costs(q, val)[y] = Costs(p, val)[y]
    BY <1>1 DEF Costs
  <2>3. x \in S => Costs(p, val)[x] = oldCost
    BY <1>4, <1>9, <1>11, <1>12 DEF Costs
  <2>4. x \notin S => oldCost = 0
    BY <1>10, <1>12
  <2>5. Costs(q, val)[x] = newCost
    BY <1>1, <1>3, <1>4, <1>9, <1>12 DEF Costs
  <2>6. /\ Total(Costs(p, val), S) \in Int
        /\ Total(Costs(q, val), S \cup {x}) = Total(Costs(p, val), S) - oldCost + newCost
    <3>1. Moves(Costs(p, val), Costs(q, val), S, x, oldCost, newCost)
      BY <2>1, <2>2, <2>3, <2>4, <2>5 DEF Moves
    <3> HIDE DEF S, x
    <3> QED
      BY <1>2, <3>1, TotalMoves
  <2> QED
    BY <1>1, <2>6
<1>14. PICK r \in Int :
          /\ r = Total(Profits(p, val), S)
          /\ Total(Profits(q, val), DOMAIN q.positions) = r - or + nr
  <2>1. \A y \in S : Profits(p, val)[y] \in Int
    BY <1>6, LedgerType
  <2>2. \A y \in S : y # x => Profits(q, val)[y] = Profits(p, val)[y]
    BY <1>1 DEF Profits
  <2>3. x \in S => Profits(p, val)[x] = or
    BY <1>9, <1>11 DEF Profits
  <2>4. x \notin S => or = 0
    BY <1>10
  <2>5. Profits(q, val)[x] = nr
    BY <1>1, <1>3, <1>9 DEF Profits
  <2>6. /\ Total(Profits(p, val), S) \in Int
        /\ Total(Profits(q, val), S \cup {x}) = Total(Profits(p, val), S) - or + nr
    <3>1. Moves(Profits(p, val), Profits(q, val), S, x, or, nr)
      BY <2>1, <2>2, <2>3, <2>4, <2>5 DEF Moves
    <3> HIDE DEF S, x
    <3> QED
      BY <1>2, <3>1, TotalMoves
  <2> QED
    BY <1>1, <2>6
<1>15. PICK c \in Int :
          /\ c = Total(Fees(p), S)
          /\ Total(Fees(q), DOMAIN q.positions) = c - oc + nc
  <2>1. \A y \in S : Fees(p)[y] \in Int
    BY <1>6, LedgerType
  <2>2. \A y \in S : y # x => Fees(q)[y] = Fees(p)[y]
    BY <1>1 DEF Fees
  <2>3. x \in S => Fees(p)[x] = oc
    BY <1>4, <1>11 DEF Fees
  <2>4. x \notin S => oc = 0
    BY <1>10
  <2>5. Fees(q)[x] = nc
    BY <1>1, <1>3, <1>4 DEF Fees
  <2>6. /\ Total(Fees(p), S) \in Int
        /\ Total(Fees(q), S \cup {x}) = Total(Fees(p), S) - oc + nc
    <3>1. Moves(Fees(p), Fees(q), S, x, oc, nc)
      BY <2>1, <2>2, <2>3, <2>4, <2>5 DEF Moves
    <3> HIDE DEF S, x
    <3> QED
      BY <1>2, <3>1, TotalMoves
  <2> QED
    BY <1>1, <2>6
<1>16. PICK cash \in Int, start \in Int, cashAfter \in Int :
          cash = p.cash /\ start = InitialCapital /\ cashAfter = q.cash
  BY <1>2, PortfolioAssumption
<1>17. cash * D + b = (start - c) * D + r
  BY <1>13, <1>14, <1>15, <1>16 DEF Ledger
<1>18. nc = oc + fee
  BY <1>3, <1>4, <1>5, FillBooks
<1> SUFFICES cashAfter * D + (b - oldCost + newCost)
               = (start - (c - oc + nc)) * D + (r - or + nr)
  BY <1>13, <1>14, <1>15, <1>16 DEF Ledger
<1> HIDE DEF S, x
<1>19. PICK value \in Int : value = fq * price
  OBVIOUS
<1>20. CASE f.side = "BUY"
  <2>1. /\ nq = oq + fq /\ new.realized_pnl = old.realized_pnl
        /\ cashAfter = cash - (value + fee)
        /\ new.avg_price = IF oq + fq > 0
                           THEN Rat(oq * old.avg_price.n + value * old.avg_price.d,
                                    old.avg_price.d * (oq + fq))
                           ELSE old.avg_price
    BY <1>3, <1>4, <1>5, <1>16, <1>19, <1>20, FillBooks DEF x
  <2>2. nr = or
    BY <1>9, <2>1
  <2>3. newCost = oldCost + value * D
    <3>1. old.avg_price \in Fraction
      BY DEF Position
    <3>2. CASE oq + fq > 0
      <4>1. Worth(Averaged(old.avg_price, oq, value, nq), D, na)
        BY <1>8, <1>9, <2>1, <3>2 DEF Averaged
      <4>2. nq \in Nat \ {0}
        BY <2>1, <3>2
      <4>3. nq * na = oq * oa + value * D
        BY <1>7, <1>9, <3>1, <4>1, <4>2, AverageWorth
      <4> QED
        BY <1>12, <4>3
    <3>3. CASE ~(oq + fq > 0)
      <4>1. oq = 0 /\ fq = 0 /\ nq = 0
        BY <2>1, <3>3
      <4> QED
        BY <1>12, <1>19, <4>1
    <3> QED
      BY <3>2, <3>3
  <2>4. PICK worth \in Int, paid \in Int, had \in Int, left \in Int :
           worth = value * D /\ paid = fee * D /\ had = cash * D /\ left = (start - c) * D
    OBVIOUS
  <2>5. cashAfter * D = had - (worth + paid)
    <3>1. (cash - (value + fee)) * D = cash * D - (value * D + fee * D)
      OBVIOUS
    <3> QED
      BY <2>1, <2>4, <3>1
  <2>6. (start - (c - oc + nc)) * D = left - paid
    <3>1. (start - (c - oc + (oc + fee))) * D = (start - c) * D - fee * D
      OBVIOUS
    <3> QED
      BY <1>18, <2>4, <3>1
  <2> QED
    BY <1>17, <2>2, <2>3, <2>4, <2>5, <2>6
<1>21. CASE f.side = "SELL"
  <2>1. /\ nq = oq - fq /\ new.avg_price = old.avg_price
        /\ cashAfter = cash + (value - fee)
        /\ new.realized_pnl =
             Plus(old.realized_pnl,
                  Gain(Min({fq, MagnitudeOf(oq)}), price, old.avg_price))
    BY <1>3, <1>4, <1>5, <1>16, <1>19, <1>21, FillBooks DEF x
  <2>2. Min({fq, MagnitudeOf(oq)}) = fq
    <3>1. MagnitudeOf(oq) = oq /\ fq <= oq
      BY <2>1 DEF MagnitudeOf
    <3> QED
      BY <3>1, MinOfTwo
  <2>3. nr = or + fq * (price * D - oa)
    <3>1. old.avg_price \in Fraction /\ old.realized_pnl \in Fraction
      BY DEF Position
    <3>2. /\ Gain(fq, price, old.avg_price) \in Fraction
          /\ Worth(Gain(fq, price, old.avg_price), D, fq * (price * D - oa))
      BY <1>7, <1>9, <3>1, GainWorth
    <3>3. PICK gain \in Int : gain = fq * (price * D - oa)
      OBVIOUS
    <3>4. Worth(new.realized_pnl, D, or + gain)
      BY <1>7, <1>9, <2>1, <2>2, <3>1, <3>2, <3>3, WorthPlus
    <3>5. or + gain \in Int /\ new.realized_pnl \in Fraction
      BY DEF Position
    <3>6. nr = or + gain
      BY <1>8, <1>9, <3>4, <3>5, WorthOnce
    <3> QED
      BY <3>3, <3>6
  <2>4. newCost = oldCost - fq * oa
    <3>1. na = oa
      BY <1>9, <2>1
    <3>2. (oq - fq) * oa = oq * oa - fq * oa
      OBVIOUS
    <3> QED
      BY <1>12, <2>1, <3>1, <3>2
  <2>5. PICK worth \in Int, paid \in Int, had \in Int, left \in Int, gone \in Int :
           /\ worth = value * D /\ paid = fee * D /\ had = cash * D
           /\ left = (start - c) * D /\ gone = fq * oa
    OBVIOUS
  <2>6. nr = or + (worth - gone)
    <3>1. fq * (price * D - oa) = (fq * price) * D - fq * oa
      OBVIOUS
    <3> QED
      BY <1>19, <2>3, <2>5, <3>1
  <2>7. cashAfter * D = had + (worth - paid)
    <3>1. (cash + (value - fee)) * D = cash * D + (value * D - fee * D)
      OBVIOUS
    <3> QED
      BY <2>1, <2>5, <3>1
  <2>8. (start - (c - oc + nc)) * D = left - paid
    <3>1. (start - (c - oc + (oc + fee))) * D = (start - c) * D - fee * D
      OBVIOUS
    <3> QED
      BY <1>18, <2>5, <3>1
  <2> QED
    BY <1>17, <2>4, <2>5, <2>6, <2>7, <2>8
<1> QED
  BY <1>20, <1>21 DEF Fill

-----------------------------------------------------------------------------
(* What the fills add up to.                                                *)

\* What a fill adds to the quantity of s.
Change(f, s) ==
  IF f.symbol # s THEN 0 ELSE IF f.side = "BUY" THEN f.quantity ELSE -f.quantity

\* The quantity of s that the first n fills of a history leave.
NetOf(h, s, n) ==
  MapThenSumSet(LAMBDA i : LET f == h[i]
                           IN  IF f.symbol # s THEN 0
                               ELSE IF f.side = "BUY" THEN f.quantity ELSE -f.quantity,
                1..n)

NeverShortIn(h) == \A n \in DOMAIN h, s \in Symbols : NetOf(h, s, n) >= 0

LEMMA NeverShortIs == NeverShort <=> NeverShortIn(portfolio.fill_history)
BY DEF NeverShort, NeverShortIn, Net, NetOf

\* The changes of the first n fills.
Changes(h, s, n) == [i \in 1..n |-> Change(h[i], s)]

LEMMA NetIs ==
  ASSUME NEW h, NEW s, NEW n
  PROVE  NetOf(h, s, n) = Total(Changes(h, s, n), 1..n)
<1> DEFINE S == 1..n
           f == [i \in S |-> Change(h[i], s)]
           Direct(it) ==
             it = [r \in SUBSET S |-> IF r = {} THEN 0
                                      ELSE Change(h[Picked(r)], s) + it[r \ {Picked(r)}]]
<1>1. NetOf(h, s, n) = (CHOOSE it : Direct(it))[S]
  BY DEF NetOf, MapThenSumSet, MapThenFoldSet, Picked, Change
<1>2. \A it : Direct(it) <=> SumsUp(it, f, SUBSET S)
  <2>1. \A r \in SUBSET S : r # {} => f[Picked(r)] = Change(h[Picked(r)], s)
    BY DEF Picked
  <2> HIDE DEF f, S
  <2> QED
    BY <2>1 DEF SumsUp
<1> HIDE DEF Direct, f
<1>3. (CHOOSE it : Direct(it)) = (CHOOSE it : SumsUp(it, f, SUBSET S))
  BY <1>2, Zenon
<1> QED
  BY <1>1, <1>3 DEF Total, f, Changes

LEMMA FirstNumbers ==
  ASSUME NEW n \in Nat
  PROVE  /\ IsFiniteSet(1..n) /\ n + 1 \notin 1..n
         /\ 1..(n + 1) = (1..n) \cup {n + 1}
<1>1. IsFiniteSet(1..n)
  BY FS_Interval
<1>2. \A i : i \in 1..(n + 1) <=> i \in (1..n) \cup {n + 1}
  OBVIOUS
<1> QED
  BY <1>1, <1>2

\* One more fill adds its change, and no earlier sum is another.
LEMMA NetAppends ==
  ASSUME NEW h \in Seq(Fill), NEW f \in Fill, NEW s
  PROVE  /\ \A n \in 0..Len(h) : /\ NetOf(h, s, n) \in Int
                                 /\ NetOf(Append(h, f), s, n) = NetOf(h, s, n)
         /\ NetOf(Append(h, f), s, Len(h) + 1) = NetOf(h, s, Len(h)) + Change(f, s)
         /\ Change(f, s) \in Int
<1> DEFINE k == Append(h, f)
<1>1. Len(h) \in Nat /\ \A i \in 1..Len(h) : h[i] \in Fill /\ k[i] = h[i]
  OBVIOUS
<1>2. k[Len(h) + 1] = f
  OBVIOUS
<1>3. \A g \in Fill : Change(g, s) \in Int
  BY DEF Change, Fill
<1> HIDE DEF k
<1>4. ASSUME NEW n \in 0..Len(h)
      PROVE  /\ \A i \in 1..n : /\ Changes(h, s, n)[i] \in Int
                                /\ Changes(k, s, n)[i] = Changes(h, s, n)[i]
             /\ n \in Nat /\ IsFiniteSet(1..n)
  <2>1. n \in Nat /\ \A i \in 1..n : i \in 1..Len(h)
    BY <1>1
  <2>2. ASSUME NEW i \in 1..n
        PROVE  Changes(h, s, n)[i] \in Int /\ Changes(k, s, n)[i] = Changes(h, s, n)[i]
    BY <1>1, <1>3, <2>1 DEF Changes
  <2> QED
    BY <2>1, <2>2, FirstNumbers
<1>5. ASSUME NEW n \in 0..Len(h)
      PROVE  NetOf(h, s, n) \in Int /\ NetOf(k, s, n) = NetOf(h, s, n)
  <2>1. Total(Changes(h, s, n), 1..n) \in Int
    BY <1>4, TotalInt
  <2>2. Total(Changes(k, s, n), 1..n) = Total(Changes(h, s, n), 1..n)
    BY <1>4, TotalSame
  <2> QED
    BY <2>1, <2>2, NetIs
<1>6. NetOf(k, s, Len(h) + 1) = NetOf(h, s, Len(h)) + Change(f, s)
  <2> DEFINE n == Len(h)
             before == Changes(h, s, n)
             after == Changes(k, s, n + 1)
  <2>1. n \in 0..Len(h) /\ n \in Nat
    BY <1>1
  <2>2. /\ \A i \in 1..n : i \in 1..(n + 1) /\ i # n + 1
        /\ n + 1 \in 1..(n + 1)
    BY <2>1
  <2>3. Moves(before, after, 1..n, n + 1, 0, Change(f, s))
    <3>1. \A i \in 1..n : before[i] \in Int /\ after[i] = before[i]
      <4>1. \A i \in 1..n : before[i] = Change(h[i], s) /\ after[i] = Change(k[i], s)
        BY <2>2 DEF Changes
      <4> QED
        BY <1>1, <1>3, <4>1
    <3>2. after[n + 1] = Change(f, s)
      BY <1>2, <2>2 DEF Changes
    <3>3. n + 1 \notin 1..n
      BY <2>1, FirstNumbers
    <3> HIDE DEF n, before, after
    <3> QED
      BY <3>1, <3>2, <3>3 DEF Moves
  <2> HIDE DEF n, before, after
  <2>4. PICK c \in Int : c = Change(f, s)
    BY <1>3
  <2>5. IsFiniteSet(1..n) /\ 1..(n + 1) = (1..n) \cup {n + 1}
    BY <2>1, FirstNumbers
  <2>6. PICK S, x : S = 1..n /\ x = n + 1
    OBVIOUS
  <2>7. Total(before, S) \in Int /\ Total(after, S \cup {x}) = Total(before, S) - 0 + c
    <3>1. IsFiniteSet(S) /\ Moves(before, after, S, x, 0, c) /\ 0 \in Int
      BY <2>3, <2>4, <2>5, <2>6
    <3> QED
      BY <3>1, TotalMoves
  <2>8. Total(after, 1..(n + 1)) = Total(before, 1..n) + c
    <3>1. S \cup {x} = 1..(n + 1)
      BY <2>5, <2>6
    <3>2. PICK t \in Int : t = Total(before, S)
      BY <2>7
    <3>3. Total(after, S \cup {x}) = t + c
      BY <2>7, <3>2
    <3> QED
      BY <2>6, <3>1, <3>2, <3>3
  <2> QED
    BY <2>4, <2>8, NetIs DEF n, before, after
<1> QED
  BY <1>3, <1>5, <1>6 DEF k

-----------------------------------------------------------------------------
(* The books balance.                                                       *)

\* The quantity of a position is what its fills add up to.
QuantityIsNet(p) ==
  \A s \in Symbols :
    PositionOf(p, s).quantity = NetOf(p.fill_history, s, Len(p.fill_history))

\* The fills explain the positions and, with the cash, the books.
BooksKept(p) == QuantityIsNet(p) /\ (NeverShortIn(p.fill_history) => Balanced(p))

LEMMA NewBooks == BooksKept(NewPortfolio) /\ NewPortfolio \in Portfolios
<1> DEFINE p == NewPortfolio
<1>1. /\ p.positions = EmptyMap /\ DOMAIN p.positions = {} /\ p.fill_history = <<>>
      /\ p.cash = InitialCapital
  BY DEF NewPortfolio, EmptyMap
<1>2. p \in Portfolios
  <2>1. \A V : EmptyMap \in Maps(V)
    <3>1. DOMAIN EmptyMap = {} /\ \A V : EmptyMap \in [{} -> V]
      BY DEF EmptyMap
    <3> QED
      BY <3>1, MapType
  <2>2. <<>> \in Seq(Snapshot) /\ <<>> \in Seq(Fill) /\ InitialCapital \in Int
    BY PortfolioAssumption
  <2> QED
    BY <2>1, <2>2 DEF NewPortfolio, Portfolios
<1>3. Total(<<>>, {}) = 0 /\ \A f : Total(f, {}) = 0
  BY FS_EmptySet, TotalPicks
<1>4. QuantityIsNet(p)
  <2> SUFFICES ASSUME NEW s \in Symbols PROVE PositionOf(p, s).quantity = NetOf(<<>>, s, 0)
    BY <1>1 DEF QuantityIsNet
  <2>1. PositionOf(p, s).quantity = 0
    BY <1>1 DEF PositionOf, NewPosition
  <2>2. 1..0 = {}
    OBVIOUS
  <2>3. NetOf(<<>>, s, 0) = 0
    BY <1>3, <2>2, NetIs
  <2> QED
    BY <2>1, <2>3
<1>5. Balanced(p)
  <2>1. Valued(<<>>, 1, Amounts(p))
    BY <1>1 DEF Valued, Amounts
  <2>2. Ledger(p, 1, <<>>)
    BY <1>1, <1>3, PortfolioAssumption DEF Ledger
  <2>3. 1 \in Nat \ {0}
    OBVIOUS
  <2> HIDE DEF p
  <2> QED
    BY <1>2, <2>1, <2>2, <2>3, LedgerBalances
<1> QED
  BY <1>2, <1>4, <1>5 DEF BooksKept

\* Marking changes no sum of the books.
LEMMA MarkedBooks ==
  ASSUME NEW p, NEW q, SameBooks(p, q), BooksKept(p)
  PROVE  BooksKept(q)
<1> DEFINE S == DOMAIN p.positions
<1>1. /\ DOMAIN q.positions = S /\ q.cash = p.cash /\ q.fill_history = p.fill_history
      /\ \A s \in S : /\ q.positions[s].quantity = p.positions[s].quantity
                      /\ q.positions[s].avg_price = p.positions[s].avg_price
                      /\ q.positions[s].realized_pnl = p.positions[s].realized_pnl
                      /\ q.positions[s].commission = p.positions[s].commission
  BY DEF SameBooks
<1>2. \A s \in S : Cost(q.positions[s]) = Cost(p.positions[s])
  BY <1>1 DEF Cost
<1>3. /\ [s \in S |-> Cost(q.positions[s])] = [s \in S |-> Cost(p.positions[s])]
      /\ [s \in S |-> q.positions[s].realized_pnl] = [s \in S |-> p.positions[s].realized_pnl]
      /\ [s \in S |-> q.positions[s].commission] = [s \in S |-> p.positions[s].commission]
  BY <1>1, <1>2
<1>4. /\ BookValueOf(q) = BookValueOf(p) /\ RealizedOn(q, S) = RealizedOn(p, S)
      /\ CommissionOf(q) = CommissionOf(p)
  BY <1>1, <1>3, BookValueIs, RealizedIs, CommissionIs
<1>5. Balanced(q) <=> Balanced(p)
  BY <1>1, <1>4 DEF Balanced
<1>6. \A s : PositionOf(q, s).quantity = PositionOf(p, s).quantity
  BY <1>1 DEF PositionOf
<1> QED
  BY <1>1, <1>5, <1>6 DEF BooksKept, QuantityIsNet

\* A fill is booked so that the books are kept (Portfolio.cpp:83-107).
LEMMA FilledBooks ==
  ASSUME NEW p \in Portfolios, NEW f \in Fill, BooksKept(p)
  PROVE  BooksKept(OnFill(p, f))
<1> DEFINE q == OnFill(p, f)
           h == p.fill_history
           x == f.symbol
           k == Append(h, f)
<1>1. /\ q \in Portfolios /\ x \in Symbols /\ DOMAIN q.positions = DOMAIN p.positions \cup {x}
      /\ \A s \in DOMAIN p.positions : s # x => q.positions[s] = p.positions[s]
      /\ PositionOf(p, x).quantity \in Int
      /\ f.side = "BUY" => q.positions[x].quantity = PositionOf(p, x).quantity + f.quantity
      /\ f.side = "SELL" => q.positions[x].quantity = PositionOf(p, x).quantity - f.quantity
  BY FillMoves
<1>2. q.fill_history = k /\ h \in Seq(Fill)
  BY FillBooks DEF Portfolios
<1>3. Len(h) \in Nat /\ Len(k) = Len(h) + 1 /\ DOMAIN h = 1..Len(h) /\ DOMAIN k = 1..Len(k)
  BY <1>2
<1>4. \A s \in Symbols : /\ NetOf(k, s, Len(k)) = NetOf(h, s, Len(h)) + Change(f, s)
                         /\ NetOf(h, s, Len(h)) \in Int /\ Change(f, s) \in Int
                         /\ \A n \in 0..Len(h) : NetOf(k, s, n) = NetOf(h, s, n)
  <2>1. Len(h) \in 0..Len(h)
    BY <1>3
  <2> HIDE DEF h
  <2> QED
    BY <1>2, <1>3, <2>1, NetAppends
<1>5. f.side \in {"BUY", "SELL"} /\ f.quantity \in Nat
  BY DEF Fill
<1> HIDE DEF q, h, x, k
<1>6. ASSUME NEW s \in Symbols
      PROVE  PositionOf(q, s).quantity = PositionOf(p, s).quantity + Change(f, s)
  <2>1. PICK held \in Int : held = PositionOf(p, s).quantity
    BY PositionType DEF Position
  <2>2. CASE s = x
    <3>1. PositionOf(q, s) = q.positions[x]
      BY <1>1, <2>2 DEF PositionOf
    <3>2. Change(f, s) = IF f.side = "BUY" THEN f.quantity ELSE -f.quantity
      BY <2>2 DEF Change, x
    <3> QED
      BY <1>1, <1>5, <2>1, <2>2, <3>1, <3>2
  <2>3. CASE s # x
    <3>1. PositionOf(q, s) = PositionOf(p, s)
      BY <1>1, <2>3 DEF PositionOf
    <3>2. Change(f, s) = 0
      BY <2>3 DEF Change, x
    <3> QED
      BY <2>1, <3>1, <3>2
  <2> QED
    BY <2>2, <2>3
<1>7. QuantityIsNet(q)
  <2>1. \A s \in Symbols : PositionOf(p, s).quantity = NetOf(h, s, Len(h))
    BY DEF BooksKept, QuantityIsNet, h
  <2> QED
    BY <1>2, <1>4, <1>6, <2>1 DEF QuantityIsNet
<1>8. ASSUME NeverShortIn(k) PROVE Balanced(q)
  <2>1. NeverShortIn(h)
    <3>1. \A n \in DOMAIN h : n \in DOMAIN k /\ n \in 0..Len(h)
      BY <1>3
    <3> QED
      BY <1>4, <1>8, <3>1 DEF NeverShortIn
  <2>2. NetOf(k, x, Len(k)) >= 0
    <3>1. Len(k) \in DOMAIN k
      BY <1>3
    <3> QED
      BY <1>1, <1>8, <3>1 DEF NeverShortIn
  <2>3. NetOf(h, x, Len(h)) >= 0
    <3>1. CASE Len(h) = 0
      <4>1. 1..0 = {} /\ IsFiniteSet({})
        BY FS_EmptySet
      <4>2. NetOf(h, x, 0) = 0
        BY <4>1, NetIs, TotalPicks
      <4> QED
        BY <3>1, <4>2
    <3>2. CASE Len(h) # 0
      <4>1. Len(h) \in DOMAIN h
        BY <1>3, <3>2
      <4> QED
        BY <1>1, <2>1, <4>1 DEF NeverShortIn
    <3> QED
      BY <3>1, <3>2
  <2>4. PositionOf(p, x).quantity >= 0 /\ q.positions[x].quantity >= 0
    <3>1. PositionOf(p, x).quantity = NetOf(h, x, Len(h))
      BY <1>1 DEF BooksKept, QuantityIsNet, h
    <3>2. PositionOf(q, x).quantity = NetOf(k, x, Len(k))
      BY <1>1, <1>2, <1>7 DEF QuantityIsNet
    <3>3. PositionOf(q, x) = q.positions[x]
      BY <1>1 DEF PositionOf
    <3> QED
      BY <2>2, <2>3, <3>1, <3>2, <3>3
  <2>5. Balanced(p)
    BY <2>1 DEF BooksKept, h
  <2> DEFINE F == Amounts(p) \cup Amounts(q) \cup {Zero}
  <2>6. IsFiniteSet(F) /\ F \subseteq Fraction
    <3>1. /\ IsFiniteSet(Amounts(p)) /\ Amounts(p) \subseteq Fraction
          /\ IsFiniteSet(Amounts(q)) /\ Amounts(q) \subseteq Fraction
      BY <1>1, FiniteAmounts
    <3>2. IsFiniteSet(Amounts(p) \cup Amounts(q))
      BY <3>1, FS_Union
    <3>3. IsFiniteSet({Zero})
      BY FS_Singleton
    <3>4. Zero \in Fraction
      BY DEF Zero, Fraction
    <3> QED
      BY <3>1, <3>2, <3>3, <3>4, FS_Union
  <2>7. PICK D \in Nat \ {0} : \E val : Valued(val, D, F)
    BY <2>6, CanBeValued
  <2>8. PICK val : Valued(val, D, F)
    BY <2>7
  <2>9. Valued(val, D, Amounts(p)) /\ Valued(val, D, Amounts(q))
    BY <2>8 DEF Valued
  <2>10. Ledger(p, D, val)
    BY <2>5, <2>9, LedgerBalances
  <2>11. Ledger(q, D, val)
    BY <2>4, <2>8, <2>10, LedgerFill DEF q, x
  <2> QED
    BY <1>1, <2>9, <2>11, LedgerBalances
<1> QED
  BY <1>2, <1>7, <1>8 DEF BooksKept, q

LEMMA BooksStay ==
  ASSUME TradingInv, BooksKept(portfolio), [Next]_vars
  PROVE  BooksKept(portfolio')
<1>1. CASE Bar
  <2>1. SameBooks(portfolio, portfolio')
    BY <1>1, BarStep
  <2> QED
    BY <2>1, MarkedBooks
<1>2. CASE BookFill
  <2>1. PICK f \in Fill : Head(queue) = f
    BY <1>2, BookStep
  <2>2. portfolio' = OnFill(portfolio, f)
    BY <1>2, <2>1 DEF BookFill
  <2> QED
    BY <2>2, FilledBooks DEF TradingInv
<1>3. CASE Record
  <2>1. /\ portfolio'.positions = portfolio.positions /\ portfolio'.cash = portfolio.cash
        /\ portfolio'.fill_history = portfolio.fill_history
    BY <1>3 DEF Record, RecordEquity, TradingInv, Portfolios
  <2> QED
    BY <2>1 DEF BooksKept, QuantityIsNet, Balanced, PositionOf, BookValueOf, RealizedOn,
                CommissionOf
<1>4. CASE UNCHANGED portfolio
  BY <1>4
<1>5. Bar \/ BookFill \/ Record \/ UNCHANGED portfolio
  BY DEF Next, vars, ProcessSignal, ProcessOrder, Execute, DropVeto
<1> QED
  BY <1>1, <1>2, <1>3, <1>4, <1>5

LEMMA BooksInvariance ==
  ASSUME ProperStrengths
  PROVE  Spec => [](TradingInv /\ BooksKept(portfolio))
<1>1. Init => BooksKept(portfolio)
  BY NewBooks DEF Init
<1>2. TradingInv /\ BooksKept(portfolio) /\ [Next]_vars => BooksKept(portfolio)'
  BY BooksStay
<1> QED
  BY <1>1, <1>2, StartsInTradingInv, TradingInvStays, PTL DEF Spec

\* The books of a portfolio that was never short balance: cash and the cost
\* of what is held add up to the capital, the realized profit and the
\* commissions (Portfolio.cpp:83-107), through any number of purchases that
\* are averaged and partial sales, of however many symbols, at whatever prices
\* and costs.
THEOREM BooksAlwaysBalance ==
  ASSUME ProperStrengths
  PROVE  Spec => []BooksBalance
<1>1. BooksKept(portfolio) => BooksBalance
  BY BooksOfPortfolio, NeverShortIs DEF BooksKept
<1> QED
  BY <1>1, BooksInvariance, PTL

-----------------------------------------------------------------------------
(* The limit on positions.                                                  *)

\* What is held, long or short, after the first n fills of a history.
HeldAfter(h, n) == {s \in Symbols : NetOf(h, s, n) # 0}

\* Fill i of the history, or the next one to come, is the first of the bar.
StartsBar(h, i) ==
  /\ i \in DOMAIN h => h[i].timestamp = Now
  /\ i > 1 => h[i - 1].timestamp < Now

\* The bar began with fewer positions than the limit.
BeganWithRoom(h) ==
  \A i \in 1..(Len(h) + 1) :
    StartsBar(h, i) => Cardinality(HeldAfter(h, i - 1)) < MaxPositions

\* No fill of this bar is booked while anything waits to become a fill.
FillsInTime(h) ==
  /\ \A i \in DOMAIN h : h[i].timestamp <= Now
  /\ ~bar_open \/ (queue # <<>> /\ Head(queue).type # "FILL") =>
       \A i \in DOMAIN h : h[i].timestamp < Now

Purchase(e) == e.type \in {"APPROVED", "FILL"} /\ e.side = "BUY"

\* PurchasesFoundRoom for a history of fills.
FoundRoom(h) ==
  \A i \in DOMAIN h : \A j \in 1..i :
    /\ h[i].side = "BUY" /\ h[j].timestamp = h[i].timestamp
    /\ j > 1 => h[j - 1].timestamp < h[i].timestamp
    => Cardinality(HeldAfter(h, j - 1)) < MaxPositions

LimitInv ==
  LET h == portfolio.fill_history
  IN  /\ FillsInTime(h) /\ FoundRoom(h)
      /\ (\E i \in DOMAIN queue : Purchase(queue[i])) => BeganWithRoom(h)

LEMMA RoomIs == PurchasesFoundRoom <=> FoundRoom(portfolio.fill_history)
BY DEF PurchasesFoundRoom, FoundRoom, HeldAfter, Net, NetOf

\* What the fills of a portfolio leave is what it holds.
LEMMA HeldIsOpen ==
  ASSUME NEW p \in Portfolios, QuantityIsNet(p)
  PROVE  Cardinality(HeldAfter(p.fill_history, Len(p.fill_history))) = OpenPositions(p)
<1> DEFINE H == HeldAfter(p.fill_history, Len(p.fill_history))
           O == {s \in DOMAIN p.positions : p.positions[s].quantity # 0}
<1>1. DOMAIN p.positions \subseteq Symbols
  BY HeldPositions
<1>2. \A s \in Symbols : s \in H <=> PositionOf(p, s).quantity # 0
  BY DEF QuantityIsNet, HeldAfter
<1>3. \A s \in Symbols : PositionOf(p, s).quantity # 0 <=> s \in O
  BY DEF PositionOf, NewPosition
<1>4. H \subseteq Symbols
  BY DEF HeldAfter
<1> HIDE DEF H
<1>5. H = O
  BY <1>1, <1>2, <1>3, <1>4
<1> QED
  BY <1>5 DEF OpenPositions, H

\* A step that books nothing within its bar: what is bought was approved.
LEMMA RoomKept ==
  ASSUME TradingInv, LimitInv, NEW e \in Event, Handled(queue, queue', e),
         UNCHANGED <<portfolio, bar_open>>, Head(queue).type # "FILL",
         queue' = Append(Tail(queue), e) /\ Purchase(e) =>
           Purchase(Head(queue)) \/ BeganWithRoom(portfolio.fill_history)
  PROVE  LimitInv'
<1> DEFINE h == portfolio.fill_history
<1>1. Now' = Now /\ h' = h
  BY DEF Now
<1>2. queue \in Seq(Event) /\ queue # <<>>
  BY DEF TradingInv, QueueInv, Handled
<1>3. /\ Head(queue) = queue[1] /\ 1 \in DOMAIN queue
      /\ \A i \in DOMAIN queue' : \/ i + 1 \in DOMAIN queue /\ queue'[i] = queue[i + 1]
                                  \/ queue' = Append(Tail(queue), e) /\ queue'[i] = e
  BY <1>2, HandledQueue
<1>4. (\E i \in DOMAIN queue' : Purchase(queue'[i])) => BeganWithRoom(h)
  BY <1>3 DEF LimitInv
<1>5. FillsInTime(h) /\ \A i \in DOMAIN h : h[i].timestamp < Now
  BY <1>2 DEF LimitInv, FillsInTime
<1>6. BeganWithRoom(h)' <=> BeganWithRoom(h)
  BY <1>1 DEF BeganWithRoom, StartsBar
<1>7. FillsInTime(h)'
  BY <1>1, <1>5 DEF FillsInTime
<1>8. FoundRoom(h)'
  BY <1>1 DEF LimitInv
<1>9. (\E i \in DOMAIN queue' : Purchase(queue'[i])) => BeganWithRoom(h)'
  BY <1>4, <1>6
<1> QED
  BY <1>7, <1>8, <1>9 DEF LimitInv, Purchase

LEMMA OpenCounted ==
  ASSUME NEW p \in Portfolios
  PROVE  OpenPositions(p) \in Nat
<1>1. {s \in DOMAIN p.positions : p.positions[s].quantity # 0} \in SUBSET Symbols
  BY HeldPositions
<1> QED
  BY <1>1, TradingAssumption, FS_Subset, FS_CardinalityType DEF OpenPositions

\* The history grows by a fill of this bar; what was held before it stays.
LEMMA HeldBefore ==
  ASSUME NEW h \in Seq(Fill), NEW f \in Fill, NEW n \in 0..Len(h)
  PROVE  HeldAfter(Append(h, f), n) = HeldAfter(h, n)
<1>1. \A s \in Symbols : NetOf(Append(h, f), s, n) = NetOf(h, s, n)
  BY NetAppends
<1> QED
  BY <1>1 DEF HeldAfter

\* A purchase is booked in a bar that began with room for it.
LEMMA BookedWithRoom ==
  ASSUME TradingInv, LimitInv, BookFill
  PROVE  LimitInv'
<1>1. PICK h \in Seq(Fill), f \in Fill :
         /\ h = portfolio.fill_history /\ f = Head(queue) /\ f.timestamp = Now
         /\ portfolio' = OnFill(portfolio, f)
  BY BookStep DEF TradingInv, Portfolios
<1>2. /\ Now' = Now /\ Now \in Int /\ queue # <<>> /\ queue' = Tail(queue) /\ bar_open' = bar_open
      /\ \A i \in DOMAIN queue' : queue'[i].type = "FILL"
  BY BookStep, CurveLength DEF BookFill
<1> DEFINE k == Append(h, f)
<1>3. portfolio'.fill_history = k
  BY <1>1, FillBooks DEF TradingInv
<1>4. /\ Len(h) \in Nat /\ DOMAIN h = 1..Len(h) /\ DOMAIN k = 1..(Len(h) + 1)
      /\ Len(k) = Len(h) + 1 /\ k[Len(h) + 1] = f
      /\ \A i \in DOMAIN h : k[i] = h[i] /\ h[i].timestamp \in Int
  <2>1. \A i \in DOMAIN h : h[i] \in Fill
    BY <1>1
  <2>2. \A i \in DOMAIN h : h[i].timestamp \in Int
    BY <2>1 DEF Fill
  <2> QED
    BY <1>1, <2>2
<1>5. \A n \in 0..Len(h) : HeldAfter(k, n) = HeldAfter(h, n)
  BY HeldBefore
<1> HIDE DEF k
<1>6. /\ queue \in Seq(Event) /\ bar_open /\ Head(queue) = queue[1] /\ 1 \in DOMAIN queue
      /\ f.type = "FILL"
      /\ \A i \in DOMAIN queue' : i + 1 \in DOMAIN queue /\ queue'[i] = queue[i + 1]
  <2>1. queue \in Seq(Event) /\ bar_open /\ Handled(queue, queue', Head(queue))
    BY <1>2 DEF TradingInv, QueueInv, Handled
  <2>2. queue' # Append(Tail(queue), Head(queue)) /\ Head(queue) \in Event
    BY <1>2, <2>1
  <2> QED
    BY <1>1, <2>1, <2>2, HandledQueue DEF Fill
<1>7. (\A i \in DOMAIN h : h[i].timestamp <= Now) /\ (\A i \in DOMAIN k : k[i].timestamp <= Now)
  <2>1. \A i \in DOMAIN h : h[i].timestamp <= Now
    BY <1>1 DEF LimitInv, FillsInTime
  <2>2. k[Len(h) + 1].timestamp <= Now
    BY <1>1, <1>2, <1>4
  <2>3. \A i \in DOMAIN k : i # Len(h) + 1 => i \in DOMAIN h
    BY <1>4
  <2> QED
    BY <1>4, <2>1, <2>2, <2>3
<1>8. queue' # <<>> => Head(queue').type = "FILL"
  <2>1. queue' \in Seq(Event)
    BY <1>2, <1>6
  <2>2. queue' # <<>> => 1 \in DOMAIN queue' /\ Head(queue') = queue'[1]
    BY <2>1
  <2> QED
    BY <1>2, <2>2
<1>9. \A i \in 1..(Len(h) + 1) :
        /\ k[i].timestamp = Now
        /\ i > 1 => k[i - 1].timestamp < Now
        => StartsBar(h, i)
  <2> SUFFICES ASSUME NEW i \in 1..(Len(h) + 1), k[i].timestamp = Now,
                      i > 1 => k[i - 1].timestamp < Now
               PROVE  StartsBar(h, i)
    OBVIOUS
  <2>1. i > 1 => i - 1 \in DOMAIN h
    BY <1>4
  <2> QED
    BY <1>4, <2>1 DEF StartsBar
<1>10. ASSUME BeganWithRoom(h), NEW i \in 1..(Len(h) + 1), k[i].timestamp = Now,
              i > 1 => k[i - 1].timestamp < Now
       PROVE  Cardinality(HeldAfter(k, i - 1)) < MaxPositions
  <2>1. i - 1 \in 0..Len(h)
    BY <1>4
  <2> QED
    BY <1>5, <1>9, <1>10, <2>1 DEF BeganWithRoom
<1>11. (\E i \in DOMAIN queue' : Purchase(queue'[i])) => BeganWithRoom(k)'
  <2> SUFFICES ASSUME NEW m \in DOMAIN queue', Purchase(queue'[m]),
                      NEW i \in 1..(Len(k) + 1), StartsBar(k, i)
               PROVE  Cardinality(HeldAfter(k, i - 1)) < MaxPositions
    BY <1>2 DEF BeganWithRoom, StartsBar, HeldAfter
  <2>1. BeganWithRoom(h)
    BY <1>1, <1>6 DEF LimitInv
  <2>2. i # Len(h) + 2
    <3>1. k[Len(h) + 1].timestamp = Now
      BY <1>1, <1>4
    <3> QED
      BY <1>2, <1>4, <3>1 DEF StartsBar
  <2>3. i \in 1..(Len(h) + 1)
    BY <1>4, <2>2
  <2>4. k[i].timestamp = Now /\ (i > 1 => k[i - 1].timestamp < Now)
    BY <1>4, <2>3 DEF StartsBar
  <2> QED
    BY <1>10, <2>1, <2>3, <2>4
<1>12. ASSUME NEW i \in DOMAIN k, NEW j \in 1..i, k[i].side = "BUY",
              k[j].timestamp = k[i].timestamp,
              j > 1 => k[j - 1].timestamp < k[i].timestamp
       PROVE  Cardinality(HeldAfter(k, j - 1)) < MaxPositions
  <2>1. CASE i = Len(h) + 1
    <3>1. Purchase(queue[1])
      BY <1>1, <1>4, <1>6, <1>12, <2>1 DEF Purchase
    <3>2. BeganWithRoom(h)
      BY <1>1, <1>6, <3>1 DEF LimitInv
    <3>3. k[i].timestamp = Now /\ j \in 1..(Len(h) + 1)
      BY <1>1, <1>4, <2>1
    <3> QED
      BY <1>10, <1>12, <3>2, <3>3
  <2>2. CASE i # Len(h) + 1
    <3>1. i \in DOMAIN h /\ j \in DOMAIN h /\ j - 1 \in 0..Len(h) /\ (j > 1 => j - 1 \in DOMAIN h)
      BY <1>4, <2>2
    <3>2. Cardinality(HeldAfter(h, j - 1)) < MaxPositions
      <4>1. FoundRoom(h)
        BY <1>1 DEF LimitInv
      <4>2. /\ h[i].side = "BUY" /\ h[j].timestamp = h[i].timestamp
            /\ j > 1 => h[j - 1].timestamp < h[i].timestamp
        BY <1>4, <1>12, <3>1
      <4> QED
        BY <3>1, <4>1, <4>2 DEF FoundRoom
    <3> QED
      BY <1>5, <3>1, <3>2
  <2> QED
    BY <2>1, <2>2
<1>13. FoundRoom(k)
  BY <1>12 DEF FoundRoom
<1>14. FillsInTime(k)'
  BY <1>2, <1>6, <1>7, <1>8 DEF FillsInTime
<1> QED
  BY <1>3, <1>11, <1>13, <1>14 DEF LimitInv

LEMMA StartsWithRoom == Init => LimitInv
<1> SUFFICES ASSUME Init PROVE LimitInv
  OBVIOUS
<1>1. portfolio.fill_history = <<>> /\ queue = <<>> /\ DOMAIN <<>> = {}
  BY DEF Init, NewPortfolio
<1> QED
  BY <1>1 DEF LimitInv, FillsInTime, FoundRoom

LEMMA LimitStays ==
  ASSUME ProperStrengths, TradingInv, BooksKept(portfolio), LimitInv, [Next]_vars
  PROVE  LimitInv'
<1> DEFINE h == portfolio.fill_history
<1>1. h \in Seq(Fill) /\ Len(h) \in Nat /\ DOMAIN h = 1..Len(h)
  BY DEF TradingInv, Portfolios
<1>2. queue \in Seq(Event) /\ (queue # <<>> => Head(queue) \in Event /\ bar_open)
  BY DEF TradingInv, QueueInv
<1>3. CASE Bar
  <2>1. Now' = Now /\ \A i \in DOMAIN queue' : queue'[i] \in Signal
    BY <1>3, BarStep
  <2>2. ~(\E i \in DOMAIN queue' : Purchase(queue'[i]))
    BY <2>1 DEF Purchase, Signal
  <2>3. h' = h
    BY <1>3, BarStep DEF SameBooks
  <2>4. FillsInTime(h)'
    BY <1>3, <2>1, <2>3 DEF Bar, LimitInv, FillsInTime
  <2>5. FoundRoom(h)'
    BY <2>3 DEF LimitInv
  <2> QED
    BY <2>2, <2>4, <2>5 DEF LimitInv
<1>4. CASE ProcessSignal
  <2>1. queue # <<>> /\ Head(queue).type = "SIGNAL" /\ UNCHANGED <<portfolio, bar_open>>
    BY <1>4 DEF ProcessSignal, Holds
  <2>2. Head(queue) \in Signal /\ Tail(queue) \in Seq(Event)
    BY <1>2, <2>1, EventTypes
  <2>3. \/ OnSignal(portfolio, Head(queue)) = <<>>
        \/ \E o \in Order : OnSignal(portfolio, Head(queue)) = <<o>>
    BY <2>2, SignalOrders DEF TradingInv
  <2>4. PICK e \in Order \cup Signal : Handled(queue, queue', e)
    <3>1. \A o \in Order : o \in Event
      BY DEF Event
    <3> QED
      BY <1>4, <2>1, <2>2, <2>3, <3>1, Pushed DEF ProcessSignal, Handled
  <2>5. e \in Event /\ ~Purchase(e)
    BY DEF Event, Purchase, Order, Orders, Signal
  <2> QED
    BY <2>1, <2>4, <2>5, RoomKept
<1>5. CASE ProcessOrder
  <2>1. /\ UNCHANGED <<portfolio, bar_open>> /\ queue # <<>> /\ Head(queue) \in Order
        /\ Head(queue).type = "ORDER"
    BY <1>5, EvaluateStep DEF ProcessOrder, Holds
  <2>2. ASSUME NEW e \in Event, queue' = Tail(queue) \/ queue' = Append(Tail(queue), e),
               Purchase(e) => BeganWithRoom(h)
        PROVE  LimitInv'
    BY <2>1, <2>2, RoomKept DEF Handled
  <2>3. CASE queue' = Tail(queue)
    <3>1. Head(queue) \in Event /\ ~Purchase(Head(queue))
      BY <2>1 DEF Event, Purchase
    <3> QED
      BY <2>2, <2>3, <3>1
  <2>4. ASSUME NEW v \in Veto, queue' = Append(Tail(queue), v) PROVE LimitInv'
    <3>1. v \in Event /\ ~Purchase(v)
      BY DEF Event, Purchase, Veto
    <3> QED
      BY <2>2, <2>4, <3>1
  <2>5. ASSUME NEW a \in Approved, queue' = Append(Tail(queue), a),
               a.side = "BUY" => ~AtPositionLimit(portfolio)
        PROVE  LimitInv'
    <3>1. a \in Event
      BY DEF Event
    <3>2. ASSUME a.side = "BUY" PROVE BeganWithRoom(h)
      <4>1. OpenPositions(portfolio) < MaxPositions
        <5>1. OpenPositions(portfolio) \in Nat /\ MaxPositions \in Nat
          BY OpenCounted, PortfolioAssumption DEF TradingInv
        <5> QED
          BY <2>5, <3>2, <5>1 DEF AtPositionLimit
      <4>2. Cardinality(HeldAfter(h, Len(h))) < MaxPositions
        BY <4>1, HeldIsOpen DEF TradingInv, BooksKept
      <4>3. \A i \in DOMAIN h : h[i].timestamp < Now
        BY <2>1 DEF LimitInv, FillsInTime
      <4>4. \A i \in 1..(Len(h) + 1) : StartsBar(h, i) => i = Len(h) + 1
        <5>1. ASSUME NEW i \in 1..(Len(h) + 1), StartsBar(h, i), i # Len(h) + 1 PROVE FALSE
          <6>1. i \in DOMAIN h
            BY <1>1, <5>1
          <6>2. h[i].timestamp = Now /\ h[i].timestamp < Now /\ Now \in Int
            BY <4>3, <5>1, <6>1, CurveLength DEF StartsBar
          <6> QED
            BY <6>2
        <5> QED
          BY <5>1
      <4>5. (Len(h) + 1) - 1 = Len(h)
        BY <1>1
      <4> QED
        BY <4>2, <4>4, <4>5 DEF BeganWithRoom
    <3> QED
      BY <2>2, <2>5, <3>1, <3>2 DEF Purchase
  <2> QED
    BY <1>5, <2>3, <2>4, <2>5, EvaluateStep
<1>6. ASSUME NEW price \in Prices, Execute(price) PROVE LimitInv'
  <2>1. /\ UNCHANGED <<portfolio, bar_open>> /\ queue # <<>> /\ Head(queue) \in Approved
        /\ Head(queue).type = "APPROVED"
    BY <1>6, ExecuteStep DEF Execute, Holds
  <2>2. PICK f \in Fill : queue' = Append(Tail(queue), f) /\ f.side = Head(queue).side
    BY <1>6, ExecuteStep
  <2>3. f \in Event /\ (Purchase(f) => Purchase(Head(queue)))
    BY <2>1, <2>2 DEF Event, Purchase
  <2> QED
    BY <2>1, <2>2, <2>3, RoomKept DEF Handled
<1>7. CASE BookFill
  BY <1>7, BookedWithRoom
<1>8. CASE DropVeto
  <2>1. /\ queue # <<>> /\ Head(queue).type = "RISK" /\ UNCHANGED <<portfolio, bar_open>>
        /\ queue' = Tail(queue)
    BY <1>8 DEF DropVeto, Holds
  <2>2. Head(queue) \in Event /\ ~Purchase(Head(queue))
    BY <1>2, <2>1 DEF Purchase
  <2> QED
    BY <2>1, <2>2, RoomKept DEF Handled
<1>9. CASE Record
  <2>1. Now' = Now + 1 /\ queue' = <<>> /\ h' = h /\ Now \in Int
    BY <1>9, RecordStep, CurveLength
  <2>2. \A i \in DOMAIN h : h[i].timestamp \in Int /\ h[i].timestamp <= Now
    <3>1. \A i \in DOMAIN h : h[i] \in Fill
      BY <1>1
    <3> QED
      BY <3>1 DEF LimitInv, FillsInTime, Fill
  <2>3. FillsInTime(h)'
    BY <2>1, <2>2 DEF FillsInTime
  <2>4. FoundRoom(h)'
    BY <2>1 DEF LimitInv
  <2>5. DOMAIN queue' = {}
    BY <2>1
  <2> QED
    BY <2>3, <2>4, <2>5 DEF LimitInv
<1>10. CASE UNCHANGED vars
  <2>1. h' = h /\ queue' = queue /\ bar_open' = bar_open /\ Now' = Now
    BY <1>10 DEF vars, Now
  <2>2. FoundRoom(h)' /\ FillsInTime(h)'
    BY <2>1 DEF LimitInv, FillsInTime
  <2>3. BeganWithRoom(h)' <=> BeganWithRoom(h)
    BY <2>1 DEF BeganWithRoom, StartsBar
  <2> QED
    BY <2>1, <2>2, <2>3 DEF LimitInv, Purchase
<1> QED
  BY <1>3, <1>4, <1>5, <1>6, <1>7, <1>8, <1>9, <1>10 DEF Next

\* Nothing is bought in a bar that began with as many positions open as the
\* limit allows (Portfolio.cpp:223-228), whatever the limit, the symbols, the
\* prices and the strategy, and however many orders of a bar are approved
\* before the first of them is filled.
THEOREM PurchasesFindRoom ==
  ASSUME ProperStrengths
  PROVE  Spec => []PurchasesFoundRoom
<1>1. Init => LimitInv
  BY StartsWithRoom
<1>2. TradingInv /\ BooksKept(portfolio) /\ LimitInv /\ [Next]_vars => LimitInv'
  BY LimitStays
<1>3. LimitInv => PurchasesFoundRoom
  BY RoomIs DEF LimitInv
<1> QED
  BY <1>1, <1>2, <1>3, BooksInvariance, PTL DEF Spec

-----------------------------------------------------------------------------
(* The statistics.                                                          *)

LEMMA TimesIsRat ==
  ASSUME NEW x \in Fraction, NEW y \in Fraction
  PROVE  \E a \in Int : \E b \in Nat \ {0} : Times(x, y) = Rat(a, b)
<1>1. x.n \in Int /\ x.d \in Nat \ {0} /\ y.n \in Int /\ y.d \in Nat \ {0}
  BY DEF Fraction
<1>2. x.n * y.n \in Int /\ x.d * y.d \in Nat \ {0}
  BY <1>1, PositiveProduct
<1> QED
  BY <1>2 DEF Times

\* A quotient taken as many times is what was divided.
LEMMA OverTimes ==
  ASSUME NEW x \in Fraction, NEW D \in Nat \ {0}, NEW v \in Int, Worth(x, D, v),
         NEW count \in Nat \ {0}, NEW k \in Int
  PROVE  /\ Times(Over(x, Whole(count)), Whole(k * count)) \in Fraction
         /\ Worth(Times(Over(x, Whole(count)), Whole(k * count)), D, k * v)
<1>1. PICK n \in Int, d \in Nat \ {0} : n = x.n /\ d = x.d /\ n * D = v * d
  BY DEF Fraction, Worth
<1>2. PICK e \in Nat \ {0} : e = d * count
  BY PositiveProduct
<1>3. Over(x, Whole(count)) = Rat(n, e)
  BY <1>1, <1>2 DEF Over, Whole
<1>4. PICK r \in Fraction, g \in Nat \ {0} : r = Rat(n, e) /\ n = g * r.n /\ e = g * r.d
  BY RatReduces
<1>5. PICK rn \in Int, rd \in Nat \ {0} : rn = r.n /\ rd = r.d
  BY DEF Fraction
<1>6. PICK a \in Int : a = rn * (k * count)
  OBVIOUS
<1>7. Times(Over(x, Whole(count)), Whole(k * count)) = Rat(a, rd)
  <2>1. PICK c \in Int : c = k * count
    OBVIOUS
  <2>2. Times(r, Whole(c)) = Rat(rn * c, rd * 1)
    BY <1>5 DEF Times, Whole
  <2>3. rn * c = a /\ rd * 1 = rd
    BY <1>6, <2>1
  <2> QED
    BY <1>3, <1>4, <2>1, <2>2, <2>3
<1>8. a * D = (k * v) * rd
  <2>1. g * (a * D) = (k * count) * (n * D)
    <3>1. g * ((rn * (k * count)) * D) = (k * count) * ((g * rn) * D)
      OBVIOUS
    <3> QED
      BY <1>4, <1>5, <1>6, <3>1
  <2>2. g * ((k * v) * rd) = (k * count) * (v * d)
    <3>1. g * ((k * v) * rd) = (k * v) * (g * rd)
      OBVIOUS
    <3>2. (k * v) * (d * count) = (k * count) * (v * d)
      OBVIOUS
    <3> QED
      BY <1>2, <1>4, <1>5, <3>1, <3>2
  <2>3. a * D \in Int /\ (k * v) * rd \in Int
    OBVIOUS
  <2>4. g * (a * D) = g * ((k * v) * rd)
    BY <1>1, <2>1, <2>2
  <2> QED
    BY <2>3, <2>4, SameParts
<1>9. k * v \in Int
  OBVIOUS
<1>10. Rat(a, rd) \in Fraction /\ Worth(Rat(a, rd), D, k * v)
  BY <1>8, <1>9, WorthRat, RatReduces
<1> QED
  BY <1>7, <1>10

\* A mean taken as many times is the total.
LEMMA MeanTimes ==
  ASSUME NEW x \in Fraction, NEW D \in Nat \ {0}, NEW v \in Int, Worth(x, D, v),
         NEW count \in Nat, count = 0 => v = 0, NEW k \in Int
  PROVE  /\ Times(Mean(x, count), Whole(k * count)) \in Fraction
         /\ Worth(Times(Mean(x, count), Whole(k * count)), D, k * v)
<1>1. CASE count = 0
  <2>1. Times(Mean(x, count), Whole(k * count)) = Rat(0, 1)
    BY <1>1 DEF Mean, Times, Zero, Whole
  <2>2. Rat(0, 1) = Zero
    BY RatZero
  <2>3. k * v = 0
    BY <1>1
  <2> QED
    BY <2>1, <2>2, <2>3, WorthZero
<1>2. CASE count # 0
  <2>1. Mean(x, count) = Over(x, Whole(count))
    BY <1>2 DEF Mean, Whole
  <2> QED
    BY <1>2, <2>1, OverTimes
<1> QED
  BY <1>1, <1>2

LEMMA TotalWinIs ==
  ASSUME NEW p
  PROVE  TotalWin(p) = Sigma([s \in Winners(p) |-> p.positions[s].realized_pnl], Winners(p))
<1>1. TotalWin(p) = RealizedOn(p, Winners(p))
  BY DEF TotalWin, RealizedOn
<1> QED
  BY <1>1, RealizedIs

LEMMA TotalLossIs ==
  ASSUME NEW p
  PROVE  TotalLoss(p) = Sigma([s \in Losers(p) |-> [p.positions[s].realized_pnl EXCEPT !.n = -@]],
                              Losers(p))
<1> DEFINE S == Losers(p)
           F == [s \in S |-> [p.positions[s].realized_pnl EXCEPT !.n = -@]]
           Direct(it) ==
             it = [s \in SUBSET S |-> IF s = {} THEN Zero
                                      ELSE Plus([p.positions[Picked(s)].realized_pnl
                                                   EXCEPT !.n = -@],
                                                it[s \ {Picked(s)}])]
<1>1. TotalLoss(p) = (CHOOSE it : Direct(it))[S]
  BY DEF TotalLoss, Sum, MapThenFoldSet, Picked
<1>2. \A it : Direct(it) <=> PlusUp(it, F, SUBSET S)
  <2>1. \A s \in SUBSET S : s # {} =>
          F[Picked(s)] = [p.positions[Picked(s)].realized_pnl EXCEPT !.n = -@]
    BY DEF Picked
  <2> HIDE DEF F, S
  <2> QED
    BY <2>1 DEF PlusUp
<1> HIDE DEF Direct, F
<1>3. (CHOOSE it : Direct(it)) = (CHOOSE it : PlusUp(it, F, SUBSET S))
  BY <1>2, Zenon
<1> QED
  BY <1>1, <1>3 DEF Sigma, F

\* Winners and losers have, between them, all that was realized.
LEMMA WonAndLost ==
  ASSUME NEW p \in Portfolios, NEW D \in Nat \ {0}, NEW val, Valued(val, D, Amounts(p))
  PROVE  \E won \in Int, lost \in Int :
           /\ won + lost = Total(Profits(p, val), DOMAIN p.positions)
           /\ TotalWin(p) \in Fraction /\ Worth(TotalWin(p), D, won)
           /\ TotalLoss(p) \in Fraction /\ Worth(TotalLoss(p), D, -lost)
           /\ Cardinality(Winners(p)) \in Nat /\ Cardinality(Losers(p)) \in Nat
           /\ Cardinality(Winners(p)) = 0 => won = 0
           /\ Cardinality(Losers(p)) = 0 => lost = 0
<1> DEFINE S == DOMAIN p.positions
           W == Winners(p)
           L == Losers(p)
           v == Profits(p, val)
           minus == [s \in S |-> -v[s]]
           F == [s \in W |-> p.positions[s].realized_pnl]
           G == [s \in L |-> [p.positions[s].realized_pnl EXCEPT !.n = -@]]
<1>1. IsFiniteSet(S) /\ \A s \in S : p.positions[s] \in Position
  BY HeldPositions
<1>2. /\ W \in SUBSET S /\ L \in SUBSET S /\ W \cap L = {} /\ IsFiniteSet(W) /\ IsFiniteSet(L)
      /\ Cardinality(W) \in Nat /\ Cardinality(L) \in Nat
  <2>1. W \in SUBSET S /\ L \in SUBSET S
    BY DEF Winners, Losers
  <2>2. W \cap L = {}
    <3> SUFFICES ASSUME NEW s \in W, s \in L PROVE FALSE
      OBVIOUS
    <3>1. PICK n \in Int : n = p.positions[s].realized_pnl.n
      BY <1>1, <2>1 DEF Position, Fraction
    <3> QED
      BY <3>1 DEF Winners, Losers
  <2> QED
    BY <1>1, <2>1, <2>2, FS_Subset, FS_CardinalityType
<1>3. ASSUME NEW s \in S
      PROVE  /\ v[s] \in Int /\ minus[s] = -v[s]
             /\ p.positions[s].realized_pnl \in Fraction
             /\ Worth(p.positions[s].realized_pnl, D, v[s])
             /\ [p.positions[s].realized_pnl EXCEPT !.n = -@] \in Fraction
             /\ Worth([p.positions[s].realized_pnl EXCEPT !.n = -@], D, -v[s])
             /\ s \in W \/ s \in L \/ v[s] = 0
  <2>1. PICK x \in Fraction : x = p.positions[s].realized_pnl
    BY <1>1 DEF Position
  <2>2. PICK w \in Int : w = val[x] /\ Worth(x, D, w) /\ v[s] = w
    BY <2>1 DEF Valued, Amounts, Profits
  <2>3. PICK n \in Int, d \in Nat \ {0} : n = x.n /\ d = x.d /\ n * D = w * d
    BY <2>2 DEF Fraction, Worth
  <2>4. [x EXCEPT !.n = -@] \in Fraction
    BY DEF Fraction
  <2>5. [x EXCEPT !.n = -@].n = -n /\ [x EXCEPT !.n = -@].d = d
    BY <2>3 DEF Fraction
  <2>6. (-n) * D = (-w) * d
    BY <2>3
  <2>7. Worth([x EXCEPT !.n = -@], D, -w)
    BY <2>5, <2>6 DEF Worth
  <2>8. n = 0 => w = 0
    <3> SUFFICES ASSUME n = 0 PROVE w = 0
      OBVIOUS
    <3>1. d * w = 0
      BY <2>3
    <3> QED
      BY <3>1, CommonDivisor
  <2>9. s \in W \/ s \in L \/ n = 0
    BY <2>1, <2>3 DEF Winners, Losers
  <2> HIDE DEF v
  <2> QED
    BY <2>1, <2>2, <2>4, <2>7, <2>8, <2>9
<1> HIDE DEF S, W, L, v, minus
<1>4. Total(v, S) = Total(v, W) + Total(v, L)
  <2>1. S \cap W = W /\ S \cap L = L
    BY <1>2
  <2>2. Counts(v, S, W, L)
    BY <1>2, <1>3 DEF Counts
  <2>3. Total(v, S) = Total(v, S \cap W) + Total(v, S \cap L)
    BY <1>1, <2>2, TotalSplits
  <2> QED
    BY <2>1, <2>3
<1>5. TotalWin(p) \in Fraction /\ Total(v, W) \in Int /\ Worth(TotalWin(p), D, Total(v, W))
  <2>1. \A s \in W : F[s] \in Fraction /\ v[s] \in Int /\ Worth(F[s], D, v[s])
    BY <1>2, <1>3
  <2>2. TotalWin(p) = Sigma(F, W)
    BY TotalWinIs DEF W
  <2> HIDE DEF F
  <2> QED
    BY <1>2, <2>1, <2>2, WorthSigma
<1>6. /\ TotalLoss(p) \in Fraction /\ Total(v, L) \in Int
      /\ Worth(TotalLoss(p), D, -Total(v, L))
  <2>1. \A s \in L : G[s] \in Fraction /\ minus[s] \in Int /\ Worth(G[s], D, minus[s])
    BY <1>2, <1>3
  <2>2. TotalLoss(p) = Sigma(G, L)
    BY TotalLossIs DEF L
  <2> HIDE DEF G
  <2>3. TotalLoss(p) \in Fraction /\ Worth(TotalLoss(p), D, Total(minus, L))
    BY <1>2, <2>1, <2>2, WorthSigma
  <2>4. \A s \in L : v[s] \in Int /\ minus[s] = -v[s]
    BY <1>2, <1>3
  <2>5. Total(v, L) \in Int /\ Total(minus, L) = -Total(v, L)
    BY <1>2, <2>4, TotalNegates
  <2> QED
    BY <2>3, <2>5
<1>7. /\ Cardinality(W) = 0 => Total(v, W) = 0
      /\ Cardinality(L) = 0 => Total(v, L) = 0
  <2>1. (Cardinality(W) = 0 => W = {}) /\ (Cardinality(L) = 0 => L = {})
    BY <1>2, FS_EmptySet
  <2> QED
    BY <1>2, <2>1, TotalPicks
<1> QED
  BY <1>2, <1>4, <1>5, <1>6, <1>7 DEF S, W, L, v

\* What winners won less what losers lost and the commissions is the return
\* of a portfolio whose books balance and that ends flat.
LEMMA ReturnExplained ==
  ASSUME portfolio \in Portfolios, BooksBalance
  PROVE  StatsExplainReturn
<1> DEFINE p == portfolio
           curve == p.equity_curve
           S == DOMAIN p.positions
           m == ComputeMetrics(p)
           won == Times(m.avg_win, [n |-> m.winning_trades, d |-> 1])
           lost == Times(m.avg_loss, [n |-> -m.losing_trades, d |-> 1])
<1> SUFFICES ASSUME NeverShort, AllFlat, Len(curve) >= 2, curve[1].equity = InitialCapital,
                    curve[Len(curve)].equity = p.cash
             PROVE  Times(m.total_return, [n |-> InitialCapital, d |-> 1])
                      = Plus(Plus(won, lost), [n |-> -Commission, d |-> 1])
  BY DEF StatsExplainReturn
<1>1. Balanced(p)
  BY BooksOfPortfolio
<1>2. PICK D \in Nat \ {0} : \E val : Valued(val, D, Amounts(p))
  BY FiniteAmounts, CanBeValued
<1>3. PICK val : Valued(val, D, Amounts(p))
  BY <1>2
<1>4. PICK profits \in Int, fees \in Int :
         /\ profits = Total(Profits(p, val), S) /\ fees = Total(Fees(p), S)
         /\ CommissionOf(p) = fees
  BY <1>3, LedgerType
<1>5. Commission = fees
  BY <1>4 DEF Commission, CommissionOf, Held
<1>6. Total(Costs(p, val), S) = 0
  <2>1. ASSUME NEW s \in S PROVE Costs(p, val)[s] = 0
    <3>1. p.positions[s].quantity = 0 /\ val[p.positions[s].avg_price] \in Int
      BY <1>3 DEF AllFlat, Held, Valued, Amounts
    <3> QED
      BY <3>1 DEF Costs
  <2> QED
    BY <2>1, HeldPositions, TotalNothing
<1>7. PICK cash \in Int, capital \in Nat \ {0} : cash = p.cash /\ capital = InitialCapital
  BY HeldPositions, PortfolioAssumption
<1>8. cash * D + 0 = (capital - fees) * D + profits
  BY <1>1, <1>3, <1>4, <1>6, <1>7, LedgerBalances DEF Ledger
<1>9. PICK w \in Int, l \in Int :
         /\ w + l = profits
         /\ TotalWin(p) \in Fraction /\ Worth(TotalWin(p), D, w)
         /\ TotalLoss(p) \in Fraction /\ Worth(TotalLoss(p), D, -l)
         /\ Cardinality(Winners(p)) \in Nat /\ Cardinality(Losers(p)) \in Nat
         /\ Cardinality(Winners(p)) = 0 => w = 0
         /\ Cardinality(Losers(p)) = 0 => l = 0
  BY <1>3, <1>4, WonAndLost
<1>10. PICK winning \in Nat, losing \in Nat :
          winning = Cardinality(Winners(p)) /\ losing = Cardinality(Losers(p))
  BY <1>9
<1>11. /\ m.avg_win = Mean(TotalWin(p), winning) /\ m.winning_trades = winning
       /\ m.avg_loss = Mean(TotalLoss(p), losing) /\ m.losing_trades = losing
       /\ m.total_return = TotalReturn(curve)
  BY <1>10 DEF ComputeMetrics
<1> HIDE DEF m
<1>12. won \in Fraction /\ Worth(won, D, w)
  <2>1. won = Times(Mean(TotalWin(p), winning), Whole(1 * winning))
    BY <1>11 DEF Whole
  <2>2. 1 * w = w /\ 1 \in Int /\ (winning = 0 => w = 0)
    BY <1>9, <1>10
  <2>3. /\ Times(Mean(TotalWin(p), winning), Whole(1 * winning)) \in Fraction
        /\ Worth(Times(Mean(TotalWin(p), winning), Whole(1 * winning)), D, 1 * w)
    <3> HIDE DEF p
    <3> QED
      BY <1>9, <2>2, MeanTimes
  <2> HIDE DEF won
  <2> QED
    BY <2>1, <2>2, <2>3
<1>13. lost \in Fraction /\ Worth(lost, D, l)
  <2>1. lost = Times(Mean(TotalLoss(p), losing), Whole((-1) * losing))
    <3>1. -losing = (-1) * losing
      OBVIOUS
    <3> QED
      BY <1>11, <3>1 DEF Whole
  <2>2. -1 \in Int /\ -l \in Int /\ (-1) * (-l) = l /\ (losing = 0 => -l = 0)
    BY <1>9, <1>10
  <2>3. /\ Times(Mean(TotalLoss(p), losing), Whole((-1) * losing)) \in Fraction
        /\ Worth(Times(Mean(TotalLoss(p), losing), Whole((-1) * losing)), D, (-1) * (-l))
    <3> HIDE DEF p
    <3> QED
      BY <1>9, <2>2, MeanTimes
  <2> QED
    BY <2>1, <2>2, <2>3
<1> HIDE DEF won, lost
<1>14. PICK paid \in Int : paid = -fees
  OBVIOUS
<1>15. Whole(paid) \in Fraction /\ Worth(Whole(paid), D, paid * D) /\ paid * D \in Int
  BY WorthWhole DEF Whole
<1>16. Plus(won, lost) \in Fraction /\ Worth(Plus(won, lost), D, w + l)
  BY <1>12, <1>13, WorthPlus
<1>17. Worth(Plus(Plus(won, lost), Whole(paid)), D, (w + l) + paid * D)
  BY <1>15, <1>16, WorthPlus
<1>18. PICK change \in Int : change = cash - capital
  OBVIOUS
<1>19. TotalReturn(curve) = Over(Whole(change), Whole(capital))
  BY <1>7, <1>18 DEF TotalReturn, Over, Whole
<1>20. /\ Worth(Times(TotalReturn(curve), Whole(capital)), D, change * D)
       /\ \E a \in Int : \E b \in Nat \ {0} :
            Times(TotalReturn(curve), Whole(capital)) = Rat(a, b)
  <2>1. Whole(change) \in Fraction /\ Worth(Whole(change), D, change * D) /\ change * D \in Int
    BY WorthWhole DEF Whole
  <2>2. PICK total \in Int : total = change * D
    OBVIOUS
  <2>3. PICK k \in Int : k = 1 /\ k * capital = capital /\ k * total = total
    OBVIOUS
  <2>4. Worth(Whole(change), D, total)
    BY <2>1, <2>2
  <2>5. Worth(Times(Over(Whole(change), Whole(capital)), Whole(k * capital)), D, k * total)
    BY <2>1, <2>4, OverTimes
  <2>6. \E a \in Int : \E b \in Nat \ {0} :
          Times(TotalReturn(curve), Whole(capital)) = Rat(a, b)
    <3>1. TotalReturn(curve) = Rat(change, capital)
      BY <1>7, <1>18 DEF TotalReturn
    <3>2. TotalReturn(curve) \in Fraction /\ Whole(capital) \in Fraction
      BY <3>1, RatReduces DEF Whole, Fraction
    <3> HIDE DEF curve
    <3> QED
      BY <3>2, TimesIsRat
  <2> QED
    BY <1>19, <2>2, <2>3, <2>5, <2>6
<1>21. change * D = (w + l) + paid * D
  <2>1. (cash - capital) * D = cash * D - capital * D
    OBVIOUS
  <2>2. (capital - fees) * D = capital * D + (-fees) * D
    OBVIOUS
  <2>3. PICK x \in Int, y \in Int, z \in Int :
           x = cash * D /\ y = capital * D /\ z = (-fees) * D
    OBVIOUS
  <2> QED
    BY <1>8, <1>9, <1>14, <1>18, <2>1, <2>2, <2>3
<1>22. PICK a \in Int : \E b \in Nat \ {0} : Times(TotalReturn(curve), Whole(capital)) = Rat(a, b)
  BY <1>20
<1>23. PICK b \in Nat \ {0} : Times(TotalReturn(curve), Whole(capital)) = Rat(a, b)
  BY <1>22
<1>24. PICK c \in Int : \E d \in Nat \ {0} : Plus(Plus(won, lost), Whole(paid)) = Rat(c, d)
  BY <1>15, <1>16, PlusIsRat
<1>25. PICK d \in Nat \ {0} : Plus(Plus(won, lost), Whole(paid)) = Rat(c, d)
  BY <1>24
<1>26. PICK total \in Int : total = change * D
  OBVIOUS
<1>27. Worth(Rat(a, b), D, total)
  BY <1>20, <1>23, <1>26
<1>28. Worth(Rat(c, d), D, total)
  BY <1>17, <1>21, <1>25, <1>26
<1>29. Rat(a, b) = Rat(c, d)
  BY <1>27, <1>28, SameWorth
<1> QED
  BY <1>5, <1>7, <1>11, <1>14, <1>23, <1>25, <1>29 DEF Whole

\* The trade statistics explain the return: when a portfolio that was never
\* short is flat at its last snapshot and was untouched at its first, what
\* winners won less what losers lost and the commissions is the total return
\* (Portfolio.cpp:119-122, 172-191), however many trades there were.
THEOREM StatsAlwaysExplain ==
  ASSUME ProperStrengths
  PROVE  Spec => []StatsExplainReturn
<1>1. TradingInv /\ BooksBalance => StatsExplainReturn
  BY ReturnExplained DEF TradingInv
<1> QED
  BY <1>1, TradingInvariance, BooksAlwaysBalance, PTL

-----------------------------------------------------------------------------
(* Figures that are numbers.                                                *)

\* While nothing was ever short, every snapshot was worth its cash or more.
CurveAboveCash(p) ==
  NeverShortIn(p.fill_history) =>
    \A i \in DOMAIN p.equity_curve : p.equity_curve[i].equity >= p.equity_curve[i].cash

\* Taking a fill back cannot make a history short.
LEMMA NeverShortBefore ==
  ASSUME NEW h \in Seq(Fill), NEW f \in Fill, NeverShortIn(Append(h, f))
  PROVE  NeverShortIn(h)
<1>1. Len(h) \in Nat /\ DOMAIN h = 1..Len(h) /\ DOMAIN Append(h, f) = 1..(Len(h) + 1)
  OBVIOUS
<1>2. \A n \in DOMAIN h : n \in DOMAIN Append(h, f) /\ n \in 0..Len(h)
  BY <1>1
<1>3. \A s \in Symbols, n \in 0..Len(h) : NetOf(Append(h, f), s, n) = NetOf(h, s, n)
  BY NetAppends
<1> QED
  BY <1>2, <1>3 DEF NeverShortIn

\* Nothing is held short by a portfolio that never was.
LEMMA NothingShort ==
  ASSUME NEW p \in Portfolios, QuantityIsNet(p), NeverShortIn(p.fill_history),
         NEW s \in Symbols
  PROVE  PositionOf(p, s).quantity >= 0
<1> DEFINE h == p.fill_history
<1>1. h \in Seq(Fill) /\ Len(h) \in Nat /\ DOMAIN h = 1..Len(h)
  BY DEF Portfolios
<1>2. CASE Len(h) = 0
  <2>1. 1..0 = {} /\ IsFiniteSet({})
    BY FS_EmptySet
  <2>2. NetOf(h, s, 0) = 0
    BY <2>1, NetIs, TotalPicks
  <2> QED
    BY <1>2, <2>2 DEF QuantityIsNet
<1>3. CASE Len(h) # 0
  <2>1. Len(h) \in DOMAIN h
    BY <1>1, <1>3
  <2> QED
    BY <2>1 DEF NeverShortIn, QuantityIsNet
<1> QED
  BY <1>2, <1>3

LEMMA CurveStays ==
  ASSUME TradingInv, BooksKept(portfolio), CurveAboveCash(portfolio), [Next]_vars
  PROVE  CurveAboveCash(portfolio')
<1>1. CASE Bar
  <2>1. SameBooks(portfolio, portfolio')
    BY <1>1, BarStep
  <2> QED
    BY <2>1 DEF SameBooks, CurveAboveCash
<1>2. CASE BookFill
  <2>1. PICK f \in Fill : Head(queue) = f
    BY <1>2, BookStep
  <2>2. portfolio' = OnFill(portfolio, f)
    BY <1>2, <2>1 DEF BookFill
  <2>3. /\ portfolio'.fill_history = Append(portfolio.fill_history, f)
        /\ portfolio'.equity_curve = portfolio.equity_curve
    BY <2>2, FillBooks DEF TradingInv
  <2>4. portfolio.fill_history \in Seq(Fill)
    BY DEF TradingInv, Portfolios
  <2> QED
    BY <2>3, <2>4, NeverShortBefore DEF CurveAboveCash
<1>3. CASE Record
  <2>1. PICK p \in Portfolios, curve \in Seq(Snapshot) :
           p = portfolio /\ curve = portfolio.equity_curve
    BY DEF TradingInv, Portfolios
  <2>2. PICK worth \in Int, cash \in Int : worth = Equity(p) /\ cash = p.cash
    BY EquityType, HeldPositions
  <2> DEFINE point == [timestamp |-> Now, equity |-> worth, cash |-> cash]
  <2>3. /\ portfolio'.fill_history = p.fill_history
        /\ portfolio'.equity_curve = Append(curve, point)
    BY <1>3, <2>1, <2>2 DEF Record, RecordEquity, Portfolios
  <2>4. SUFFICES ASSUME NeverShortIn(p.fill_history), NEW i \in DOMAIN Append(curve, point)
                 PROVE  Append(curve, point)[i].equity >= Append(curve, point)[i].cash
    BY <2>3 DEF CurveAboveCash
  <2>5. worth >= cash
    <3>1. ASSUME NEW s \in DOMAIN p.positions PROVE p.positions[s].quantity >= 0
      <4>1. s \in Symbols /\ PositionOf(p, s) = p.positions[s]
        BY HeldPositions DEF PositionOf
      <4> QED
        BY <2>1, <2>4, <4>1, NothingShort DEF BooksKept
    <3> QED
      BY <2>2, <3>1, EquityAboveCash
  <2>6. \A k \in DOMAIN curve : curve[k].equity >= curve[k].cash
    BY <2>1, <2>4 DEF CurveAboveCash
  <2>7. point.equity = worth /\ point.cash = cash
    OBVIOUS
  <2> HIDE DEF point
  <2>8. /\ i \in DOMAIN curve => Append(curve, point)[i] = curve[i]
        /\ i \notin DOMAIN curve => Append(curve, point)[i] = point
    <3>1. DOMAIN curve = 1..Len(curve) /\ i \in 1..(Len(curve) + 1) /\ Len(curve) \in Nat
      BY <2>1, <2>4
    <3> QED
      BY <3>1
  <2> QED
    BY <2>5, <2>6, <2>7, <2>8
<1>4. CASE UNCHANGED portfolio
  BY <1>4
<1>5. Bar \/ BookFill \/ Record \/ UNCHANGED portfolio
  BY DEF Next, vars, ProcessSignal, ProcessOrder, Execute, DropVeto
<1> QED
  BY <1>1, <1>2, <1>3, <1>4, <1>5

\* The portfolio started its curve with something and did not end it owing
\* money.
NotInDebt ==
  LET curve == portfolio.equity_curve
  IN  curve # <<>> => curve[1].equity > 0 /\ curve[Len(curve)].cash >= 0

\* Growth is the quotient of the last equity and the first, and is negative
\* only when they have different signs (Portfolio.cpp:119-134).
LEMMA GrowthSign ==
  ASSUME NEW first \in Nat \ {0}, NEW last \in Nat
  PROVE  ~(Plus(Whole(1), Rat(last - first, first)).n < 0)
<1>1. PICK change \in Int : change = last - first
  OBVIOUS
<1>2. Rat(change, first) \in Fraction /\ Worth(Rat(change, first), first, change)
  <2>1. change * first = change * first
    OBVIOUS
  <2> QED
    BY <2>1, WorthRat, RatReduces
<1>3. Whole(1) \in Fraction /\ Worth(Whole(1), first, first)
  BY DEF Whole, Fraction, Worth
<1>4. PICK growth \in Fraction :
         growth = Plus(Whole(1), Rat(change, first)) /\ Worth(growth, first, first + change)
  BY <1>2, <1>3, WorthPlus
<1>5. PICK n \in Int, d \in Nat \ {0} : n = growth.n /\ d = growth.d
  BY DEF Fraction
<1>6. first * n = last * d
  <2>1. n * first = (first + change) * d
    BY <1>4, <1>5 DEF Worth
  <2>2. first + change = last /\ n * first = first * n
    BY <1>1
  <2> QED
    BY <2>1, <2>2
<1>7. last * d >= 0
  OBVIOUS
<1>8. 0 <= n
  <2>1. 0 <= first * n
    BY <1>6, <1>7
  <2> QED
    BY <2>1, CommonDivisor
<1> QED
  BY <1>1, <1>4, <1>5, <1>8

LEMMA NumbersWithoutDebt ==
  ASSUME portfolio \in Portfolios, CurveAboveCash(portfolio), NotInDebt
  PROVE  FiguresAreNumbers
<1> DEFINE curve == portfolio.equity_curve
<1> SUFFICES ASSUME NeverShort, Len(curve) >= 2
             PROVE  MayBeNaN(curve) = {}
  BY DEF FiguresAreNumbers
<1>1. curve \in Seq(Snapshot)
  BY DEF Portfolios
<1>2. Len(curve) \in Nat /\ DOMAIN curve = 1..Len(curve)
  BY <1>1
<1>3. 1 \in DOMAIN curve /\ Len(curve) \in DOMAIN curve /\ curve # <<>>
  BY <1>2
<1>4. PICK first \in Int, last \in Int, cash \in Int :
         /\ first = curve[1].equity /\ last = curve[Len(curve)].equity
         /\ cash = curve[Len(curve)].cash
  <2>1. curve[1] \in Snapshot /\ curve[Len(curve)] \in Snapshot
    BY <1>1, <1>3
  <2> QED
    BY <2>1 DEF Snapshot
<1>5. first > 0 /\ cash >= 0
  BY <1>3, <1>4 DEF NotInDebt
<1>6. last >= cash
  BY <1>3, <1>4, NeverShortIs DEF CurveAboveCash
<1>7. ~(Plus(Whole(1), TotalReturn(curve)).n < 0)
  <2>1. TotalReturn(curve) = Rat(last - first, first)
    BY <1>4 DEF TotalReturn
  <2>2. first \in Nat \ {0} /\ last \in Nat
    BY <1>5, <1>6
  <2> QED
    BY <2>1, <2>2, GrowthSign
<1>8. DOMAIN Returns(curve) # {}
  <2>1. 1 \in 1..(Len(curve) - 1) /\ curve[1].equity > 0
    BY <1>2, <1>4, <1>5
  <2>2. DOMAIN Returns(curve) = {j \in 1..(Len(curve) - 1) : curve[j].equity > 0}
    BY DEF Returns
  <2> QED
    BY <2>1, <2>2
<1> HIDE DEF curve
<1> QED
  BY <1>7, <1>8 DEF MayBeNaN, Whole

\* The figures of a portfolio that was never short are numbers
\* (Portfolio.cpp:133-144) as long as it did not end by owing money, whatever
\* it holds: its growth has no sign to lose, and it had a return to spread.
THEOREM FiguresWithoutDebt ==
  ASSUME ProperStrengths
  PROVE  Spec => [](NotInDebt => FiguresAreNumbers)
<1>1. Init => CurveAboveCash(portfolio)
  BY DEF Init, NewPortfolio, CurveAboveCash
<1>2. TradingInv /\ BooksKept(portfolio) /\ CurveAboveCash(portfolio) /\ [Next]_vars
        => CurveAboveCash(portfolio)'
  BY CurveStays
<1>3. Spec => []CurveAboveCash(portfolio)
  BY <1>1, <1>2, BooksInvariance, PTL DEF Spec
<1>4. TradingInv /\ CurveAboveCash(portfolio) => (NotInDebt => FiguresAreNumbers)
  BY NumbersWithoutDebt DEF TradingInv
<1> QED
  BY <1>3, <1>4, TradingInvariance, PTL
=============================================================================
