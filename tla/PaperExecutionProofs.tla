------------------------ MODULE PaperExecutionProofs ------------------------
(***************************************************************************)
(* What a paper run of a portfolio leaves in its ledger and in its         *)
(* sleeves, for every market and all weights: lemmas about the operators   *)
(* of PaperExecution.                                                      *)
(***************************************************************************)
EXTENDS PaperExecution, TLAPS

SleeveType == [cash : Int, position : Int]
FillType == [strategy : Strategy, side : {"buy", "sell"}, at : Nat,
             quantity : Int, price : Int, fee : Int]
RunType == [sleeves : [Strategy -> SleeveType], reserve : Int, fills : Seq(FillType),
            peak : Int, halted : BOOLEAN, last : Nat]
Weights == [Strategy -> 0..100]

(***************************************************************************)
(* The loops, as operators of FoldTheorems.                                *)
(***************************************************************************)
Totalling(f, d, sum, s) == sum + f[s]
TotalFold == INSTANCE FoldTheorems WITH Op <- Totalling

Settling(c, d, sleeve, fill) == Settled(sleeve, fill)
SettleFold == INSTANCE FoldTheorems WITH Op <- Settling

Trading(c, d, run, fill) == Traded(run, fill)
TradeFold == INSTANCE FoldTheorems WITH Op <- Trading

-----------------------------------------------------------------------------
(* Types *)

LEMMA OrderTyped ==
    /\ Order \in Seq(Strategy) /\ Len(Order) \in Nat
    /\ \A s \in Strategy : \E k \in 1 .. Len(Order) : Order[k] = s
    /\ \A j, k \in 1 .. Len(Order) : Order[j] = Order[k] => j = k
    /\ \A k \in 1 .. Len(Order) : Order[k] \in Strategy
BY ExecutionAssumption DEF ExecutionAssumption, Strategy, ToSet, IsInjective

LEMMA IntegersAdd == \A a, b \in Int : a + b \in Int
OBVIOUS

\* A sum of integers over the strategies is an integer.
LEMMA TotalIsInt ==
    ASSUME NEW f \in [Strategy -> Int]
    PROVE  Total(f) \in Int
<1>1. Order \in Seq(Strategy) /\ Len(Order) \in Nat /\ 0 \in Int
  BY OrderTyped
<1>2. TotalFold!Closed(f, 0, Int, Order)
  <2>1. \A k \in 1 .. Len(Order) : f[Order[k]] \in Int
    BY OrderTyped, Zenon
  <2>. QED
    BY <2>1, Zenon, IntegersAdd DEF TotalFold!Closed, Totalling
<1>3. PICK totals \in [0 .. Len(Order) -> Int] : TotalFold!IsTrace(totals, f, 0, 0, Order)
  BY <1>1, <1>2, TotalFold!FoldTrace
<1>4. TotalFold!FoldOf(f, 0, 0, Order) = Total(f)
  BY Zenon DEF TotalFold!FoldOf, TotalFold!FoldLeft, TotalFold!MapThenFoldSet, TotalFold!Max,
               Total, FoldLeft, MapThenFoldSet, Max, Totalling
<1>. QED
  BY <1>1, <1>3, <1>4 DEF TotalFold!IsTrace

LEMMA PricesTyped ==
    ASSUME NEW close \in Nat \ {0}
    PROVE  /\ FillPrice("buy", close) \in Nat \ {0}
           /\ FillPrice("sell", close) \in Int
<1>1. Slippage \in 0..99
  BY ExecutionAssumption DEF ExecutionAssumption
<1>2. FillPrice("buy", close) = ((100 + Slippage) * close) \div 100
  BY DEF FillPrice
<1>3. FillPrice("sell", close) = ((100 - Slippage) * close) \div 100
  BY DEF FillPrice
<1>4. PICK n \in Nat : (100 + Slippage) * close = 100 + n
  <2>1. \A a \in Nat : (100 + a) * close = 100 + (100 * (close - 1) + a * close)
    OBVIOUS
  <2>2. \A a \in Nat : 100 * (close - 1) + a * close \in Nat
    OBVIOUS
  <2>. QED
    BY <1>1, <2>1, <2>2
<1>5. PICK m \in Int : (100 - Slippage) * close = m
  BY <1>1
<1>6. (100 + n) \div 100 \in Nat \ {0} /\ m \div 100 \in Int
  OBVIOUS
<1>. QED
  BY <1>2, <1>3, <1>4, <1>5, <1>6

LEMMA CostsTyped ==
    ASSUME NEW quantity \in Int, NEW price \in Int
    PROVE  Fee(quantity, price) \in Int /\ Cost(quantity, price) \in Int
<1>1. PICK worth \in Int : quantity * price = worth
  OBVIOUS
<1>2. PICK n \in Int : worth * Commission = n
  BY ExecutionAssumption DEF ExecutionAssumption
<1>3. n \div 100 \in Int
  OBVIOUS
<1>. QED
  BY <1>1, <1>2, <1>3 DEF Fee, Cost

LEMMA AffordableTyped ==
    ASSUME NEW cash \in Int, NEW close \in Nat \ {0}
    PROVE  Affordable(cash, close) \in Nat
<1>1. PICK price \in Nat \ {0} : FillPrice("buy", close) = price
  BY PricesTyped
<1>2. PICK n \in Int : cash \div price = n
  OBVIOUS
<1>. DEFINE S == {0} \union {q \in 1 .. n : Cost(q, price) <= cash}
<1>3. Affordable(cash, close) = Max(S)
  BY <1>1, <1>2 DEF Affordable
<1>4. \E bound \in Nat : S \in SUBSET (0 .. bound)
  <2>1. CASE n < 0
    <3>1. S \in SUBSET (0 .. 0)
      BY <2>1
    <3>. QED
      BY <3>1
  <2>2. CASE n \in Nat
    <3>1. S \in SUBSET (0 .. n)
      BY <2>2
    <3>. QED
      BY <2>2, <3>1
  <2>. QED
    BY <2>1, <2>2
<1>5. S # {} /\ S \subseteq Nat
  OBVIOUS
<1>. HIDE DEF S
<1>6. TotalFold!Max(S) \in S
  BY <1>4, <1>5, TotalFold!Maximum
<1>7. TotalFold!Max(S) = Max(S)
  BY Zenon DEF TotalFold!Max, Max
<1>. QED
  BY <1>3, <1>5, <1>6, <1>7

LEMMA DesiredTyped ==
    ASSUME NEW s \in Strategy, NEW cash \in Int, NEW close \in Nat \ {0}
    PROVE  Desired(s, cash, close) \in Int
<1>1. MaxPosition[s] \in Int
  <2>1. MaxPosition[s] \in 1..100
    BY ExecutionAssumption, Zenon DEF ExecutionAssumption
  <2>2. \A x \in 1..100 : x \in Int
    OBVIOUS
  <2>. QED
    BY <2>1, <2>2, Zenon
<1>2. PICK n \in Int : cash * MaxPosition[s] = n
  BY <1>1
<1>3. PICK d \in Nat \ {0} : 100 * close = d
  OBVIOUS
<1>4. n \div d \in Int
  OBVIOUS
<1>. QED
  BY <1>2, <1>3, <1>4 DEF Desired

LEMMA MinimumOfTwo ==
    ASSUME NEW a \in Int, NEW b \in Int
    PROVE  Min({a, b}) \in {a, b}
<1>1. \E x \in {a, b} : \A y \in {a, b} : x <= y
  OBVIOUS
<1>. QED
  BY <1>1 DEF Min

LEMMA MaximumOfTwo ==
    ASSUME NEW a \in Int, NEW b \in Int
    PROVE  Max({a, b}) = IF a >= b THEN a ELSE b
<1>1. \E x \in {a, b} : \A y \in {a, b} : x >= y
  OBVIOUS
<1>2. Max({a, b}) \in {a, b} /\ \A y \in {a, b} : Max({a, b}) >= y
  BY <1>1 DEF Max
<1>. QED
  BY <1>2
LEMMA FillTyped ==
    ASSUME NEW s \in Strategy, NEW side \in {"buy", "sell"}, NEW at \in Nat,
           NEW quantity \in Int, NEW close \in Nat \ {0}
    PROVE  /\ Fill(s, side, at, quantity, close) \in FillType
           /\ Fill(s, side, at, quantity, close).strategy = s
           /\ Fill(s, side, at, quantity, close).side = side
           /\ Fill(s, side, at, quantity, close).at = at
<1>1. PICK price \in Int : FillPrice(side, close) = price
  BY PricesTyped
<1>2. PICK fee \in Int : Fee(quantity, price) = fee
  BY CostsTyped
<1>3. Fill(s, side, at, quantity, close)
          = [strategy |-> s, side |-> side, at |-> at, quantity |-> quantity,
             price |-> price, fee |-> fee]
  BY <1>1, <1>2 DEF Fill
<1>. QED
  BY <1>3 DEF FillType

LEMMA SettledTyped ==
    ASSUME NEW sleeve \in SleeveType, NEW fill \in FillType
    PROVE  Settled(sleeve, fill) \in SleeveType
<1>1. /\ sleeve.cash \in Int /\ sleeve.position \in Int
      /\ fill.quantity \in Int /\ fill.price \in Int /\ fill.fee \in Int
  BY DEF SleeveType, FillType
<1>2. PICK cost \in Int : Cost(fill.quantity, fill.price) = cost
  BY <1>1, CostsTyped
<1>3. PICK worth \in Int : fill.quantity * fill.price = worth
  BY <1>1
<1>4. /\ sleeve.cash - cost \in Int
      /\ sleeve.cash + worth - fill.fee \in Int
      /\ sleeve.position + fill.quantity \in Int
      /\ sleeve.position - fill.quantity \in Int
  BY <1>1
<1>. QED
  BY <1>2, <1>3, <1>4 DEF Settled, SleeveType

LEMMA MarketTyped ==
    ASSUME NEW market, IsMarket(market), NEW s \in Strategy, NEW t \in 1 .. Bars(market)
    PROVE  /\ t \in Nat /\ market.close[s][t] \in Nat \ {0}
           /\ market.entry[s][t] \in BOOLEAN /\ market.exit[s][t] \in BOOLEAN
<1>1. /\ market.close[s] \in [1 .. Bars(market) -> Nat \ {0}]
      /\ market.entry[s] \in [1 .. Bars(market) -> BOOLEAN]
      /\ market.exit[s] \in [1 .. Bars(market) -> BOOLEAN]
  BY Zenon DEF IsMarket
<1>2. t \in Nat
  BY DEF IsMarket
<1>. QED
  BY <1>1, <1>2, Zenon

\* A fill of a bar with its reason: a purchase on an entry signal or at the
\* first bar, a sale on an exit signal.
HasSignal(fill, market) ==
    /\ fill.side = "buy" => market.entry[fill.strategy][fill.at] \/ fill.at = 1
    /\ fill.side = "sell" => market.exit[fill.strategy][fill.at]

\* A purchase at the first bar without a signal.
Initial(fill, market) ==
    fill.side = "buy" /\ fill.at = 1 /\ ~ market.entry[fill.strategy][1]

OneOrder(orders, s, market, t) ==
    \/ orders = <<>>
    \/ \E fill \in FillType :
           /\ orders = <<fill>>
           /\ fill.strategy = s /\ fill.at = t /\ HasSignal(fill, market)

LEMMA OrdersAre ==
    ASSUME NEW s \in Strategy, NEW sleeve \in SleeveType,
           NEW market, IsMarket(market), NEW t \in 1 .. Bars(market), NEW allocate
    PROVE  OneOrder(Orders(s, sleeve, market, t, allocate), s, market, t)
<1>. DEFINE close == market.close[s][t]
            quantity == Min({Desired(s, sleeve.cash, close), Affordable(sleeve.cash, close)})
            opens == \/ allocate /\ t = 1 /\ sleeve.cash > 0
                     \/ market.entry[s][t]
            buy == Fill(s, "buy", t, quantity, close)
            sell == Fill(s, "sell", t, sleeve.position, close)
            orders == Orders(s, sleeve, market, t, allocate)
<1>1. /\ sleeve.cash \in Int /\ sleeve.position \in Int
      /\ t \in Nat /\ close \in Nat \ {0} /\ market.entry[s][t] \in BOOLEAN
  BY MarketTyped DEF SleeveType
<1>2. quantity \in Int
  <2>. HIDE DEF close
  <2>1. Desired(s, sleeve.cash, close) \in Int /\ Affordable(sleeve.cash, close) \in Int
    BY <1>1, DesiredTyped, AffordableTyped
  <2>. QED
    BY <2>1, MinimumOfTwo
<1>3. orders = IF opens /\ sleeve.position = 0
               THEN IF quantity > 0 THEN <<buy>> ELSE <<>>
               ELSE IF market.exit[s][t] /\ sleeve.position > 0 THEN <<sell>> ELSE <<>>
  BY Zenon DEF Orders
<1>4. /\ buy \in FillType /\ buy.strategy = s /\ buy.side = "buy" /\ buy.at = t
      /\ sell \in FillType /\ sell.strategy = s /\ sell.side = "sell" /\ sell.at = t
  <2>. HIDE DEF close, quantity
  <2>. QED
    BY <1>1, <1>2, FillTyped
<1>. HIDE DEF buy, sell, orders, quantity, close
<1>5. CASE opens /\ sleeve.position = 0
  <2>1. HasSignal(buy, market)
    BY <1>4, <1>5 DEF HasSignal
  <2>2. orders = <<buy>> \/ orders = <<>>
    BY <1>3, <1>5
  <2>. QED
    BY <1>4, <2>1, <2>2 DEF orders, OneOrder
<1>6. CASE ~ (opens /\ sleeve.position = 0)
  <2>1. orders = <<>> \/ (orders = <<sell>> /\ market.exit[s][t])
    BY <1>3, <1>6
  <2>2. market.exit[s][t] => HasSignal(sell, market)
    BY <1>4 DEF HasSignal
  <2>. QED
    BY <1>4, <2>1, <2>2 DEF orders, OneOrder
<1>. QED
  BY <1>5, <1>6

\* Only at the first bar does a purchase without a signal make a difference.
LEMMA OrdersWithoutAllocation ==
    ASSUME NEW s \in Strategy, NEW sleeve \in SleeveType,
           NEW market, IsMarket(market), NEW t \in 1 .. Bars(market),
           Orders(s, sleeve, market, t, TRUE) # Orders(s, sleeve, market, t, FALSE)
    PROVE  \E fill \in ToSet(Orders(s, sleeve, market, t, TRUE)) : Initial(fill, market)
<1>. DEFINE close == market.close[s][t]
            quantity == Min({Desired(s, sleeve.cash, close), Affordable(sleeve.cash, close)})
            buy == Fill(s, "buy", t, quantity, close)
            sell == Fill(s, "sell", t, sleeve.position, close)
            rest == IF market.exit[s][t] /\ sleeve.position > 0 THEN <<sell>> ELSE <<>>
            bought == IF quantity > 0 THEN <<buy>> ELSE <<>>
            played == Orders(s, sleeve, market, t, TRUE)
            replayed == Orders(s, sleeve, market, t, FALSE)
            entry == market.entry[s][t]
<1>1. /\ sleeve.cash \in Int /\ sleeve.position \in Int
      /\ t \in Nat /\ close \in Nat \ {0} /\ market.entry[s][t] \in BOOLEAN
  BY MarketTyped DEF SleeveType
<1>2. quantity \in Int
  <2>. HIDE DEF close
  <2>1. Desired(s, sleeve.cash, close) \in Int /\ Affordable(sleeve.cash, close) \in Int
    BY <1>1, DesiredTyped, AffordableTyped
  <2>. QED
    BY <2>1, MinimumOfTwo
<1>3. /\ played = IF (\/ TRUE /\ t = 1 /\ sleeve.cash > 0
                      \/ entry) /\ sleeve.position = 0
                  THEN bought ELSE rest
      /\ replayed = IF (\/ FALSE /\ t = 1 /\ sleeve.cash > 0
                        \/ entry) /\ sleeve.position = 0
                    THEN bought ELSE rest
  BY Zenon DEF Orders
<1>4. buy.strategy = s /\ buy.side = "buy" /\ buy.at = t
  <2>. HIDE DEF close, quantity
  <2>. QED
    BY <1>1, <1>2, FillTyped
<1>5. played # replayed
  OBVIOUS
<1>. HIDE DEF buy, sell, quantity, close, bought, rest, played, replayed
<1>6. ~ entry /\ t = 1 /\ sleeve.position = 0
  <2>. HIDE DEF entry
  <2>1. ~ entry
    BY <1>3, <1>5
  <2>2. t = 1 /\ sleeve.position = 0
    BY <1>3, <1>5, <2>1
  <2>. QED
    BY <2>1, <2>2
<1>7. played = bought /\ rest = <<>>
  <2>1. rest = <<>>
    BY <1>6 DEF rest
  <2>2. replayed = rest
    BY <1>3, <1>6
  <2>3. played = bought
    BY <1>3, <1>5, <2>2
  <2>. QED
    BY <2>1, <2>3
<1>8. played = <<buy>>
  <2>1. bought # <<>>
    BY <1>3, <1>5, <1>6, <1>7
  <2>. QED
    BY <1>7, <2>1 DEF bought
<1>9. Initial(buy, market)
  BY <1>4, <1>6 DEF Initial
<1>10. buy \in ToSet(<<buy>>)
  BY DEF ToSet
<1>. QED
  BY <1>8, <1>9, <1>10 DEF played
-----------------------------------------------------------------------------
(* One sleeve of a bar *)

LEMMA SettleFew ==
    ASSUME NEW sleeve \in SleeveType
    PROVE  /\ FoldLeft(Settled, sleeve, <<>>) = sleeve
           /\ \A fill \in FillType : FoldLeft(Settled, sleeve, <<fill>>) = Settled(sleeve, fill)
<1>1. ASSUME NEW fills \in Seq(FillType)
      PROVE  \E trace \in [0 .. Len(fills) -> SleeveType] :
                 /\ trace[0] = sleeve
                 /\ \A k \in 1 .. Len(fills) : trace[k] = Settled(trace[k - 1], fills[k])
                 /\ FoldLeft(Settled, sleeve, fills) = trace[Len(fills)]
  <2>1. SettleFold!Closed(0, 0, SleeveType, fills)
    <3>1. \A k \in 1 .. Len(fills) : fills[k] \in FillType
      OBVIOUS
    <3>. QED
      BY <3>1, SettledTyped DEF SettleFold!Closed, Settling
  <2>2. PICK trace \in [0 .. Len(fills) -> SleeveType] :
             SettleFold!IsTrace(trace, 0, 0, sleeve, fills)
    BY <2>1, SettleFold!FoldTrace
  <2>3. SettleFold!FoldOf(0, 0, sleeve, fills) = FoldLeft(Settled, sleeve, fills)
    BY Zenon DEF SettleFold!FoldOf, SettleFold!FoldLeft, SettleFold!MapThenFoldSet,
                 SettleFold!Max, FoldLeft, MapThenFoldSet, Max, Settling
  <2>. QED
    BY <2>2, <2>3 DEF SettleFold!IsTrace, Settling
<1>2. FoldLeft(Settled, sleeve, <<>>) = sleeve
  <2>. DEFINE fills == <<>>
  <2>1. fills \in Seq(FillType) /\ Len(fills) = 0
    OBVIOUS
  <2>. HIDE DEF fills
  <2>2. FoldLeft(Settled, sleeve, fills) = sleeve
    BY <1>1, <2>1
  <2>. QED
    BY <2>2 DEF fills
<1>3. ASSUME NEW fill \in FillType
      PROVE  FoldLeft(Settled, sleeve, <<fill>>) = Settled(sleeve, fill)
  <2>. DEFINE fills == <<fill>>
  <2>1. fills \in Seq(FillType) /\ Len(fills) = 1 /\ fills[1] = fill
    OBVIOUS
  <2>. HIDE DEF fills
  <2>3. 1 \in 1 .. Len(fills) /\ 1 - 1 = 0
    BY <2>1
  <2>2. FoldLeft(Settled, sleeve, fills) = Settled(sleeve, fill)
    BY <1>1, <2>1, <2>3
  <2>. QED
    BY <2>2 DEF fills
<1>. QED
  BY <1>2, <1>3

Same(r, q) == q.reserve = r.reserve /\ q.peak = r.peak /\ q.halted = r.halted /\ q.last = r.last

\* The fills of q are those of r and the new ones, the last of them last.
Adds(r, q, new) ==
    /\ ToSet(q.fills) = ToSet(r.fills) \union new
    /\ IF new = {} THEN q.fills = r.fills ELSE q.fills # <<>> /\ Last(q.fills) \in new

\* What one strategy does at a bar: its sleeve, and its fills.
Visits(r, q, s, sleeve, new) ==
    /\ q \in RunType /\ Same(r, q) /\ Adds(r, q, new)
    /\ q.sleeves = [r.sleeves EXCEPT ![s] = sleeve]

LEMMA VisitsNothing ==
    ASSUME NEW run \in RunType, NEW s \in Strategy
    PROVE  Visits(run, run, s, run.sleeves[s], {})
BY DEF Visits, Same, Adds, RunType

LEMMA TradedIs ==
    ASSUME NEW run \in RunType, NEW fill \in FillType
    PROVE  Visits(run, Traded(run, fill), fill.strategy,
                  Settled(run.sleeves[fill.strategy], fill), {fill})
<1>. DEFINE s == fill.strategy
            sleeve == Settled(run.sleeves[s], fill)
            q == Traded(run, fill)
<1>1. /\ s \in Strategy /\ run.sleeves \in [Strategy -> SleeveType]
      /\ run.fills \in Seq(FillType)
  BY DEF RunType, FillType
<1>2. sleeve \in SleeveType
  BY <1>1, SettledTyped
<1>3. q = [run EXCEPT !.sleeves[s] = Settled(@, fill), !.fills = Append(@, fill)]
  BY DEF Traded
<1>. HIDE DEF q, s
<1>4. /\ q.sleeves = [run.sleeves EXCEPT ![s] = sleeve]
      /\ q.fills = Append(run.fills, fill) /\ Same(run, q)
  BY <1>1, <1>3 DEF Same, RunType
<1>5. q \in RunType
  <2>1. Append(run.fills, fill) \in Seq(FillType)
    BY <1>1
  <2>2. [run.sleeves EXCEPT ![s] = sleeve] \in [Strategy -> SleeveType]
    BY <1>1, <1>2
  <2>. QED
    BY <1>1, <1>3, <2>1, <2>2 DEF RunType
<1>6. Adds(run, q, {fill})
  <2>. DEFINE old == run.fills
              fills == Append(old, fill)
  <2>1. ToSet(fills) = ToSet(old) \union {fill}
    <3>1. /\ DOMAIN old = 1 .. Len(old) /\ Len(old) \in Nat
          /\ DOMAIN fills = 1 .. Len(old) + 1
          /\ fills[Len(old) + 1] = fill
          /\ \A i \in 1 .. Len(old) : fills[i] = old[i]
      BY <1>1
    <3>2. ASSUME NEW x \in ToSet(fills)
          PROVE  x \in ToSet(old) \union {fill}
      <4>1. PICK i \in 1 .. Len(old) + 1 : x = fills[i]
        BY <3>1 DEF ToSet
      <4>. HIDE DEF fills, old
      <4>2. i \in 1 .. Len(old) \/ i = Len(old) + 1
        BY <3>1
      <4>. QED
        BY <3>1, <4>1, <4>2 DEF ToSet
    <3>3. ASSUME NEW x \in ToSet(old) \union {fill}
          PROVE  x \in ToSet(fills)
      <4>. HIDE DEF fills, old
      <4>1. /\ \A i \in 1 .. Len(old) : i \in 1 .. Len(old) + 1
            /\ Len(old) + 1 \in 1 .. Len(old) + 1
        BY <3>1
      <4>. QED
        BY <3>1, <4>1 DEF ToSet
    <3>. QED
      BY <3>2, <3>3
  <2>2. fills # <<>> /\ Last(fills) = fill
    BY <1>1 DEF Last
  <2>. QED
    BY <1>4, <2>1, <2>2 DEF Adds
<1>. QED
  BY <1>4, <1>5, <1>6 DEF Visits, q, s

LEMMA TradeFew ==
    ASSUME NEW run \in RunType
    PROVE  /\ FoldLeft(Traded, run, <<>>) = run
           /\ \A fill \in FillType : FoldLeft(Traded, run, <<fill>>) = Traded(run, fill)
<1>1. ASSUME NEW fills \in Seq(FillType)
      PROVE  \E trace \in [0 .. Len(fills) -> RunType] :
                 /\ trace[0] = run
                 /\ \A k \in 1 .. Len(fills) : trace[k] = Traded(trace[k - 1], fills[k])
                 /\ FoldLeft(Traded, run, fills) = trace[Len(fills)]
  <2>1. TradeFold!Closed(0, 0, RunType, fills)
    <3>1. \A k \in 1 .. Len(fills) : fills[k] \in FillType
      OBVIOUS
    <3>2. \A r \in RunType, fill \in FillType : Traded(r, fill) \in RunType
      BY TradedIs DEF Visits
    <3>. QED
      BY <3>1, <3>2 DEF TradeFold!Closed, Trading
  <2>2. PICK trace \in [0 .. Len(fills) -> RunType] :
             TradeFold!IsTrace(trace, 0, 0, run, fills)
    BY <2>1, TradeFold!FoldTrace
  <2>3. TradeFold!FoldOf(0, 0, run, fills) = FoldLeft(Traded, run, fills)
    BY Zenon DEF TradeFold!FoldOf, TradeFold!FoldLeft, TradeFold!MapThenFoldSet,
                 TradeFold!Max, FoldLeft, MapThenFoldSet, Max, Trading
  <2>. QED
    BY <2>2, <2>3 DEF TradeFold!IsTrace, Trading
<1>2. FoldLeft(Traded, run, <<>>) = run
  <2>. DEFINE fills == <<>>
  <2>1. fills \in Seq(FillType) /\ Len(fills) = 0
    OBVIOUS
  <2>. HIDE DEF fills
  <2>2. FoldLeft(Traded, run, fills) = run
    BY <1>1, <2>1
  <2>. QED
    BY <2>2 DEF fills
<1>3. ASSUME NEW fill \in FillType
      PROVE  FoldLeft(Traded, run, <<fill>>) = Traded(run, fill)
  <2>. DEFINE fills == <<fill>>
  <2>1. fills \in Seq(FillType) /\ Len(fills) = 1 /\ fills[1] = fill
    OBVIOUS
  <2>. HIDE DEF fills
  <2>3. 1 \in 1 .. Len(fills) /\ 1 - 1 = 0
    BY <2>1
  <2>2. FoldLeft(Traded, run, fills) = Traded(run, fill)
    BY <1>1, <2>1, <2>3
  <2>. QED
    BY <2>2 DEF fills
<1>. QED
  BY <1>2, <1>3

\* A sleeve after its orders of a bar.
Turn(s, sleeve, market, t, allocate) ==
    FoldLeft(Settled, sleeve, Orders(s, sleeve, market, t, allocate))

\* What one strategy does at a bar, in the run and in its sleeve.
LEMMA TurnIs ==
    ASSUME NEW run \in RunType, NEW s \in Strategy,
           NEW market, IsMarket(market), NEW t \in 1 .. Bars(market)
    PROVE  LET sleeve == run.sleeves[s]
               orders == Orders(s, sleeve, market, t, TRUE)
           IN  Visits(run, FoldLeft(Traded, run, orders), s,
                      Turn(s, sleeve, market, t, TRUE), ToSet(orders))
<1>. DEFINE sleeve == run.sleeves[s]
            orders == Orders(s, sleeve, market, t, TRUE)
<1>0. sleeve \in SleeveType
  BY DEF RunType
<1>1. \/ orders = <<>>
      \/ \E fill \in FillType : orders = <<fill>> /\ fill.strategy = s
  <2>1. \A x \in SleeveType : \A a : OneOrder(Orders(s, x, market, t, a), s, market, t)
    BY OrdersAre
  <2>2. OneOrder(orders, s, market, t)
    BY <1>0, <2>1
  <2>. QED
    BY <2>2 DEF OneOrder
<1>2. Turn(s, sleeve, market, t, TRUE) = FoldLeft(Settled, sleeve, orders)
  BY DEF Turn
<1>. HIDE DEF orders, sleeve
<1>3. CASE orders = <<>>
  <2>1. ToSet(<<>>) = {}
    BY DEF ToSet
  <2>2. FoldLeft(Traded, run, orders) = run /\ FoldLeft(Settled, sleeve, orders) = sleeve
    BY <1>0, <1>3, SettleFew, TradeFew
  <2>. QED
    BY <1>2, <1>3, <2>1, <2>2, VisitsNothing DEF orders, sleeve
<1>4. ASSUME NEW fill \in FillType, orders = <<fill>>, fill.strategy = s
      PROVE  Visits(run, FoldLeft(Traded, run, orders), s,
                    Turn(s, sleeve, market, t, TRUE), ToSet(orders))
  <2>1. ToSet(<<fill>>) = {fill}
    BY DEF ToSet
  <2>2. /\ FoldLeft(Traded, run, orders) = Traded(run, fill)
        /\ FoldLeft(Settled, sleeve, orders) = Settled(sleeve, fill)
    BY <1>0, <1>4, SettleFew, TradeFew
  <2>3. Visits(run, Traded(run, fill), s, Settled(sleeve, fill), {fill})
    BY <1>4, TradedIs DEF sleeve
  <2>. QED
    BY <1>2, <1>4, <2>1, <2>2, <2>3
<1>. QED
  BY <1>1, <1>3, <1>4 DEF orders, sleeve
-----------------------------------------------------------------------------
(* All the sleeves of a bar *)

\* After a loop over the strategies every sleeve is what its visit made of it,
\* and the fills are those of all the visits.
Visited(r, q, sleeves, new) ==
    /\ q \in RunType /\ Same(r, q)
    /\ Adds(r, q, UNION {new[s] : s \in Strategy})
    /\ \A s \in Strategy : q.sleeves[s] = sleeves[s]

LEMMA AddsTwice ==
    ASSUME NEW a, NEW b, NEW c, NEW A, NEW B, Adds(a, b, A), Adds(b, c, B)
    PROVE  Adds(a, c, A \union B)
BY DEF Adds

LEMMA VisitsAll ==
    ASSUME NEW run \in RunType, NEW sleeves, NEW new,
           NEW trace \in [0 .. Len(Order) -> RunType], trace[0] = run,
           \A k \in 1 .. Len(Order) :
               trace[k - 1].sleeves[Order[k]] = run.sleeves[Order[k]]
               => Visits(trace[k - 1], trace[k], Order[k], sleeves[Order[k]], new[Order[k]])
    PROVE  Visited(run, trace[Len(Order)], sleeves, new)
<1>. DEFINE n == Len(Order)
            made(k) == UNION {new[Order[j]] : j \in 1 .. k}
            sleeveAt(k, j) == IF j <= k THEN sleeves[Order[j]] ELSE run.sleeves[Order[j]]
            Good(k) == /\ trace[k] \in RunType /\ Same(run, trace[k])
                       /\ Adds(run, trace[k], made(k))
                       /\ \A j \in 1 .. n : trace[k].sleeves[Order[j]] = sleeveAt(k, j)
            S == {k \in 0 .. n : Good(k)}
<1>0. /\ n \in Nat /\ \A j \in 1 .. n : Order[j] \in Strategy
      /\ \A i, j \in 1 .. n : Order[i] = Order[j] => i = j
      /\ \A s \in Strategy : \E k \in 1 .. n : Order[k] = s
  BY OrderTyped
<1>. HIDE DEF n
<1>1. 0 \in S
  <2>1. made(0) = {}
    OBVIOUS
  <2>2. Adds(run, run, {}) /\ Same(run, run)
    BY DEF Adds, Same
  <2>3. \A j \in 1 .. n : sleeveAt(0, j) = run.sleeves[Order[j]]
    OBVIOUS
  <2>. HIDE DEF made, sleeveAt
  <2>4. 0 \in 0 .. n
    BY <1>0
  <2>. QED
    BY <2>1, <2>2, <2>3, <2>4
<1>2. ASSUME NEW k \in 1 .. n, k - 1 \in S
      PROVE  k \in S
  <2>1. made(k) = made(k - 1) \union new[Order[k]]
    <3>1. \A j : j \in 1 .. k <=> j \in 1 .. k - 1 \/ j = k
      BY <1>0
    <3>. QED
      BY <3>1
  <2>2. sleeveAt(k - 1, k) = run.sleeves[Order[k]] /\ sleeveAt(k, k) = sleeves[Order[k]]
    BY <1>0
  <2>3. \A j \in 1 .. n : j # k => sleeveAt(k, j) = sleeveAt(k - 1, j)
    BY <1>0
  <2>. HIDE DEF made, sleeveAt
  <2>4. Good(k - 1) /\ k \in 0 .. n
    BY <1>0, <1>2
  <2>5. Visits(trace[k - 1], trace[k], Order[k], sleeves[Order[k]], new[Order[k]])
    BY <2>2, <2>4 DEF n
  <2>6. Same(run, trace[k])
    BY <2>4, <2>5 DEF Same, Visits
  <2>7. Adds(run, trace[k], made(k))
    BY <2>1, <2>4, <2>5, AddsTwice DEF Visits
  <2>8. ASSUME NEW j \in 1 .. n
        PROVE  trace[k].sleeves[Order[j]] = sleeveAt(k, j)
    <3>1. DOMAIN trace[k - 1].sleeves = Strategy
      BY <2>4 DEF RunType
    <3>2. trace[k].sleeves = [trace[k - 1].sleeves EXCEPT ![Order[k]] = sleeves[Order[k]]]
      BY <2>5 DEF Visits
    <3>3. CASE j = k
      BY <1>0, <2>2, <3>1, <3>2, <3>3
    <3>4. CASE j # k
      <4>1. Order[j] # Order[k]
        BY <1>0, <3>4
      <4>2. trace[k].sleeves[Order[j]] = trace[k - 1].sleeves[Order[j]]
        BY <1>0, <3>1, <3>2, <4>1
      <4>. QED
        BY <2>3, <2>4, <3>4, <4>2
    <3>. QED
      BY <3>3, <3>4
  <2>. QED
    BY <2>4, <2>5, <2>6, <2>7, <2>8 DEF Visits
<1>. HIDE DEF S
<1>3. 0 .. n \subseteq S
  BY <1>0, <1>1, <1>2, TotalFold!UpTo
<1>4. n \in S
  BY <1>0, <1>3
<1>5. Good(n)
  BY <1>4 DEF S
<1>6. made(n) = UNION {new[s] : s \in Strategy}
  BY <1>0
<1>7. ASSUME NEW s \in Strategy
      PROVE  trace[n].sleeves[s] = sleeves[s]
  <2>1. PICK k \in 1 .. n : Order[k] = s
    BY <1>0
  <2>2. sleeveAt(n, k) = sleeves[s]
    BY <1>0, <2>1
  <2>. HIDE DEF sleeveAt
  <2>. QED
    BY <1>5, <2>1, <2>2
<1>. HIDE DEF made
<1>. QED
  BY <1>5, <1>6, <1>7 DEF Visited, n

\* The trades of a bar.
TradingSleeve(market, t, r, s) ==
    FoldLeft(Traded, r, Orders(s, r.sleeves[s], market, t, TRUE))
SleevesFold == INSTANCE FoldTheorems WITH Op <- TradingSleeve

OrdersOf(run, market, t) ==
    [s \in Strategy |-> ToSet(Orders(s, run.sleeves[s], market, t, TRUE))]

LEMMA TradeIs ==
    ASSUME NEW run \in RunType, NEW market, IsMarket(market), NEW t \in 1 .. Bars(market)
    PROVE  Visited(run, Trade(run, market, t),
                   [s \in Strategy |-> Turn(s, run.sleeves[s], market, t, TRUE)],
                   OrdersOf(run, market, t))
<1>. DEFINE sleeves == [s \in Strategy |-> Turn(s, run.sleeves[s], market, t, TRUE)]
            new == OrdersOf(run, market, t)
<1>0. Order \in Seq(Strategy) /\ \A k \in 1 .. Len(Order) : Order[k] \in Strategy
  BY OrderTyped
<1>1. ASSUME NEW r \in RunType, NEW s \in Strategy
      PROVE  /\ TradingSleeve(market, t, r, s) \in RunType
             /\ r.sleeves[s] = run.sleeves[s]
                => Visits(r, TradingSleeve(market, t, r, s), s, sleeves[s], new[s])
  <2>1. Visits(r, TradingSleeve(market, t, r, s), s,
               Turn(s, r.sleeves[s], market, t, TRUE),
               ToSet(Orders(s, r.sleeves[s], market, t, TRUE)))
    BY TurnIs, Zenon DEF TradingSleeve
  <2>2. /\ sleeves[s] = Turn(s, run.sleeves[s], market, t, TRUE)
        /\ new[s] = ToSet(Orders(s, run.sleeves[s], market, t, TRUE))
    BY DEF OrdersOf
  <2>3. TradingSleeve(market, t, r, s) \in RunType
    BY <2>1 DEF Visits
  <2>. QED
    BY <2>1, <2>2, <2>3, Zenon
<1>2. SleevesFold!Closed(market, t, RunType, Order)
  BY <1>0, <1>1 DEF SleevesFold!Closed
<1>3. PICK trace \in [0 .. Len(Order) -> RunType] :
           SleevesFold!IsTrace(trace, market, t, run, Order)
  BY <1>0, <1>2, SleevesFold!FoldTrace
<1>4. SleevesFold!FoldOf(market, t, run, Order) = Trade(run, market, t)
  BY Zenon DEF SleevesFold!FoldOf, SleevesFold!FoldLeft, SleevesFold!MapThenFoldSet,
               SleevesFold!Max, Trade, FoldLeft, MapThenFoldSet, Max, TradingSleeve
<1>5. ASSUME NEW k \in 1 .. Len(Order),
             trace[k - 1].sleeves[Order[k]] = run.sleeves[Order[k]]
      PROVE  Visits(trace[k - 1], trace[k], Order[k], sleeves[Order[k]], new[Order[k]])
  <2>1. trace[k - 1] \in RunType /\ Order[k] \in Strategy
    <3>1. k - 1 \in 0 .. Len(Order)
      BY OrderTyped
    <3>. QED
      BY <1>0, <3>1
  <2>2. trace[k] = TradingSleeve(market, t, trace[k - 1], Order[k])
    BY <1>3 DEF SleevesFold!IsTrace
  <2>. HIDE DEF sleeves, new
  <2>. QED
    BY <1>1, <1>5, <2>1, <2>2
<1>6. trace[0] = run /\ trace[Len(Order)] = Trade(run, market, t)
  BY <1>3, <1>4 DEF SleevesFold!IsTrace
<1>. HIDE DEF sleeves, new
<1>7. Visited(run, trace[Len(Order)], sleeves, new)
  BY <1>5, <1>6, VisitsAll
<1>. QED
  BY <1>6, <1>7 DEF sleeves, new

Trades(run, traded, market, t) ==
    /\ traded \in RunType /\ Same(run, traded)
    /\ Adds(run, traded, UNION {OrdersOf(run, market, t)[s] : s \in Strategy})
    /\ \A s \in Strategy : traded.sleeves[s] = Turn(s, run.sleeves[s], market, t, TRUE)

LEMMA TradeLeaves ==
    ASSUME NEW run \in RunType, NEW market, IsMarket(market), NEW t \in 1 .. Bars(market)
    PROVE  Trades(run, Trade(run, market, t), market, t)
<1>. DEFINE sleeves == [s \in Strategy |-> Turn(s, run.sleeves[s], market, t, TRUE)]
            traded == Trade(run, market, t)
<1>1. Visited(run, traded, sleeves, OrdersOf(run, market, t))
  BY TradeIs
<1>2. \A s \in Strategy : sleeves[s] = Turn(s, run.sleeves[s], market, t, TRUE)
  OBVIOUS
<1>. HIDE DEF sleeves, traded
<1>3. Trades(run, traded, market, t)
  BY <1>1, <1>2 DEF Visited, Trades
<1>. QED
  BY <1>3 DEF traded

\* The sales of a liquidation.
SaleOf(s, run, market, t) == Fill(s, "sell", t, run.sleeves[s].position, market.close[s][t])

LEMMA SaleIs ==
    ASSUME NEW s, NEW run, NEW market, NEW t
    PROVE  SaleOf(s, run, market, t).side = "sell" /\ SaleOf(s, run, market, t).at = t
BY DEF SaleOf, Fill

SellingSleeve(market, t, r, s) ==
    IF r.sleeves[s].position = 0 THEN r ELSE Traded(r, SaleOf(s, r, market, t))
SalesFold == INSTANCE FoldTheorems WITH Op <- SellingSleeve

Sold(s, sleeve, market, t) ==
    IF sleeve.position = 0 THEN sleeve
    ELSE Settled(sleeve, Fill(s, "sell", t, sleeve.position, market.close[s][t]))

SalesOf(run, market, t) ==
    [s \in Strategy |-> IF run.sleeves[s].position = 0 THEN {} ELSE {SaleOf(s, run, market, t)}]

LEMMA LiquidateIs ==
    ASSUME NEW run \in RunType, NEW market, IsMarket(market), NEW t \in 1 .. Bars(market)
    PROVE  Visited(run, Liquidate(run, market, t),
                   [s \in Strategy |-> Sold(s, run.sleeves[s], market, t)],
                   SalesOf(run, market, t))
<1>. DEFINE sleeves == [s \in Strategy |-> Sold(s, run.sleeves[s], market, t)]
            new == SalesOf(run, market, t)
<1>0. Order \in Seq(Strategy) /\ \A k \in 1 .. Len(Order) : Order[k] \in Strategy
  BY OrderTyped
<1>1. ASSUME NEW r \in RunType, NEW s \in Strategy
      PROVE  /\ SellingSleeve(market, t, r, s) \in RunType
             /\ r.sleeves[s] = run.sleeves[s]
                => Visits(r, SellingSleeve(market, t, r, s), s, sleeves[s], new[s])
  <2>. DEFINE sleeve == r.sleeves[s]
              sale == SaleOf(s, r, market, t)
              made == IF sleeve.position = 0 THEN {} ELSE {sale}
  <2>0. sleeve \in SleeveType
    BY DEF RunType
  <2>1. sale \in FillType /\ sale.strategy = s
    <3>1. /\ t \in Nat /\ market.close[s][t] \in Nat \ {0} /\ r.sleeves[s].position \in Int
      BY <2>0, MarketTyped DEF SleeveType
    <3>. QED
      BY <3>1, FillTyped DEF SaleOf
  <2>2. Visits(r, SellingSleeve(market, t, r, s), s, Sold(s, sleeve, market, t), made)
    <3>1. CASE sleeve.position = 0
      BY <3>1, VisitsNothing DEF SellingSleeve, Sold
    <3>2. CASE sleeve.position # 0
      <4>. HIDE DEF sale, sleeve
      <4>1. Visits(r, Traded(r, sale), s, Settled(sleeve, sale), {sale})
        BY <2>1, TradedIs DEF sleeve
      <4>2. SellingSleeve(market, t, r, s) = Traded(r, sale)
        BY <3>2 DEF SellingSleeve, sale, sleeve
      <4>3. Sold(s, sleeve, market, t) = Settled(sleeve, sale)
        BY <3>2 DEF Sold, sale, SaleOf, sleeve
      <4>. QED
        BY <3>2, <4>1, <4>2, <4>3
    <3>. QED
      BY <3>1, <3>2
  <2>3. sleeves[s] = Sold(s, run.sleeves[s], market, t)
    OBVIOUS
  <2>4. run.sleeves[s] = r.sleeves[s] => new[s] = made
    BY DEF SalesOf, SaleOf
  <2>. HIDE DEF sleeves, new, made
  <2>. QED
    BY <2>2, <2>3, <2>4 DEF Visits
<1>2. SalesFold!Closed(market, t, RunType, Order)
  BY <1>0, <1>1 DEF SalesFold!Closed
<1>3. PICK trace \in [0 .. Len(Order) -> RunType] :
           SalesFold!IsTrace(trace, market, t, run, Order)
  BY <1>0, <1>2, SalesFold!FoldTrace
<1>4. SalesFold!FoldOf(market, t, run, Order) = Liquidate(run, market, t)
  BY Zenon DEF SalesFold!FoldOf, SalesFold!FoldLeft, SalesFold!MapThenFoldSet,
               SalesFold!Max, Liquidate, FoldLeft, MapThenFoldSet, Max, SellingSleeve, SaleOf
<1>5. ASSUME NEW k \in 1 .. Len(Order),
             trace[k - 1].sleeves[Order[k]] = run.sleeves[Order[k]]
      PROVE  Visits(trace[k - 1], trace[k], Order[k], sleeves[Order[k]], new[Order[k]])
  <2>1. trace[k - 1] \in RunType /\ Order[k] \in Strategy
    <3>1. k - 1 \in 0 .. Len(Order)
      BY OrderTyped
    <3>. QED
      BY <1>0, <3>1
  <2>2. trace[k] = SellingSleeve(market, t, trace[k - 1], Order[k])
    BY <1>3 DEF SalesFold!IsTrace
  <2>. HIDE DEF sleeves, new
  <2>. QED
    BY <1>1, <1>5, <2>1, <2>2
<1>6. trace[0] = run /\ trace[Len(Order)] = Liquidate(run, market, t)
  BY <1>3, <1>4 DEF SalesFold!IsTrace
<1>. HIDE DEF sleeves, new
<1>7. Visited(run, trace[Len(Order)], sleeves, new)
  BY <1>5, <1>6, VisitsAll
<1>. QED
  BY <1>6, <1>7 DEF sleeves, new
-----------------------------------------------------------------------------
(* The sleeve replayed alone *)

PlayType == [sleeve : SleeveType, equity : Seq(Int)]

Playing(s, market, play, t) ==
    Held(play, Closed(s, Turn(s, play.sleeve, market, t, FALSE), market, t), market.close[s][t])
PlayFold == INSTANCE FoldTheorems WITH Op <- Playing

LEMMA ClosedIs ==
    ASSUME NEW s, NEW sleeve, NEW market, IsMarket(market), NEW t \in 1 .. Bars(market)
    PROVE  Closed(s, sleeve, market, t)
               = IF t < Bars(market) THEN sleeve ELSE Sold(s, sleeve, market, t)
<1>1. CASE t < Bars(market)
  BY <1>1 DEF Closed
<1>2. CASE ~ (t < Bars(market))
  BY <1>2 DEF Closed, Sold
<1>. QED
  BY <1>1, <1>2

LEMMA TurnTyped ==
    ASSUME NEW s \in Strategy, NEW sleeve \in SleeveType,
           NEW market, IsMarket(market), NEW t \in 1 .. Bars(market), NEW allocate
    PROVE  Turn(s, sleeve, market, t, allocate) \in SleeveType
<1>1. OneOrder(Orders(s, sleeve, market, t, allocate), s, market, t)
  BY OrdersAre
<1>2. CASE Orders(s, sleeve, market, t, allocate) = <<>>
  BY <1>2, SettleFew DEF Turn
<1>3. ASSUME NEW fill \in FillType, Orders(s, sleeve, market, t, allocate) = <<fill>>
      PROVE  Turn(s, sleeve, market, t, allocate) \in SleeveType
  BY <1>3, SettleFew, SettledTyped DEF Turn
<1>. QED
  BY <1>1, <1>2, <1>3 DEF OneOrder

LEMMA SoldTyped ==
    ASSUME NEW s \in Strategy, NEW sleeve \in SleeveType,
           NEW market, IsMarket(market), NEW t \in 1 .. Bars(market)
    PROVE  Sold(s, sleeve, market, t) \in SleeveType
<1>1. /\ t \in Nat /\ market.close[s][t] \in Nat \ {0} /\ sleeve.position \in Int
  BY MarketTyped DEF SleeveType
<1>. QED
  BY <1>1, FillTyped, SettledTyped DEF Sold

LEMMA WorthTyped ==
    ASSUME NEW sleeve \in SleeveType, NEW close \in Nat \ {0}
    PROVE  sleeve.cash + sleeve.position * close \in Int
<1>1. sleeve.cash \in Int /\ sleeve.position \in Int
  BY DEF SleeveType
<1>. QED
  BY <1>1

LEMMA OpeningTyped ==
    ASSUME NEW weights \in Weights
    PROVE  /\ Opening(weights) \in RunType
           /\ Allocated(weights) \in [Strategy -> Int]
           /\ \A s \in Strategy : Opening(weights).sleeves[s]
                                      = [cash |-> Allocated(weights)[s], position |-> 0]
<1>1. ASSUME NEW s \in Strategy
      PROVE  (InitialCash * weights[s]) \div 100 \in Int
  <2>1. weights[s] \in 0..100
    BY Zenon DEF Weights
  <2>2. \A x \in 0..100 : x \in Int
    OBVIOUS
  <2>3. PICK w \in Int : weights[s] = w
    BY <2>1, <2>2, Zenon
  <2>4. PICK n \in Int : InitialCash * w = n
    BY ExecutionAssumption DEF ExecutionAssumption
  <2>5. n \div 100 \in Int
    OBVIOUS
  <2>. QED
    BY <2>3, <2>4, <2>5
<1>2. Allocated(weights) \in [Strategy -> Int]
  BY <1>1, Zenon DEF Allocated
<1>3. Reserve(weights) \in Int
  BY <1>2, TotalIsInt, ExecutionAssumption DEF Reserve, ExecutionAssumption
<1>4. [s \in Strategy |-> [cash |-> Allocated(weights)[s], position |-> 0]]
          \in [Strategy -> SleeveType]
  BY <1>2 DEF SleeveType
<1>5. <<>> \in Seq(FillType) /\ 0 \in Int /\ 0 \in Nat /\ FALSE \in BOOLEAN
  OBVIOUS
<1>. QED
  BY <1>2, <1>3, <1>4, <1>5 DEF Opening, RunType

\* A sleeve replayed one bar further, and what it is worth there.
After(s, market, sleeve, t) == Closed(s, Turn(s, sleeve, market, t, FALSE), market, t)
Worth(s, market, sleeve, t) == sleeve.cash + sleeve.position * market.close[s][t]

\* The sleeves of the attribution at every bar, and the equity they end with.
ArePlays(plays, weights, market) ==
    \A s \in Strategy :
        /\ plays[s] \in [0 .. Bars(market) -> SleeveType]
        /\ plays[s][0] = Opening(weights).sleeves[s]
        /\ \A t \in 1 .. Bars(market) : plays[s][t] = After(s, market, plays[s][t - 1], t)
        /\ Last(Attribution(weights, market)[s])
               = Worth(s, market, plays[s][Bars(market)], Bars(market))

LEMMA PlaysExist ==
    ASSUME NEW weights \in Weights, NEW market, IsMarket(market)
    PROVE  \E plays : ArePlays(plays, weights, market)
<1>. DEFINE n == Bars(market)
            bars == [t \in 1 .. n |-> t]
            IsPlay(s, play) ==
                /\ play \in [0 .. n -> SleeveType]
                /\ play[0] = Opening(weights).sleeves[s]
                /\ \A t \in 1 .. n : play[t] = After(s, market, play[t - 1], t)
                /\ Last(Attribution(weights, market)[s]) = Worth(s, market, play[n], n)
<1>0. /\ n \in Nat \ {0} /\ bars \in Seq(1 .. n) /\ Len(bars) = n
      /\ \A t \in 1 .. n : bars[t] = t
  BY DEF IsMarket
<1>. HIDE DEF n, bars
<1>1. ASSUME NEW s \in Strategy
      PROVE  \E play : IsPlay(s, play)
  <2>. DEFINE base == [sleeve |-> Opening(weights).sleeves[s], equity |-> <<>>]
  <2>1. base \in PlayType
    <3>1. Opening(weights).sleeves[s] \in SleeveType
      BY OpeningTyped DEF RunType
    <3>. QED
      BY <3>1 DEF PlayType
  <2>2. ASSUME NEW play \in PlayType, NEW t \in 1 .. n
        PROVE  /\ Playing(s, market, play, t)
                    = [sleeve |-> After(s, market, play.sleeve, t),
                       equity |-> Append(play.equity,
                                         Worth(s, market, After(s, market, play.sleeve, t), t))]
               /\ After(s, market, play.sleeve, t) \in SleeveType
               /\ Worth(s, market, After(s, market, play.sleeve, t), t) \in Int
    <3>. DEFINE turned == Turn(s, play.sleeve, market, t, FALSE)
                sleeve == After(s, market, play.sleeve, t)
    <3>1. play.sleeve \in SleeveType /\ t \in 1 .. Bars(market)
      BY DEF PlayType, n
    <3>2. turned \in SleeveType
      BY <3>1, TurnTyped
    <3>3. sleeve = Closed(s, turned, market, t)
      BY DEF After
    <3>. HIDE DEF turned, sleeve
    <3>4. sleeve \in SleeveType
      BY <3>1, <3>2, <3>3, ClosedIs, SoldTyped
    <3>5. market.close[s][t] \in Nat \ {0}
      BY <3>1, MarketTyped
    <3>6. Worth(s, market, sleeve, t) \in Int
      BY <3>4, <3>5, WorthTyped DEF Worth
    <3>. QED
      BY <3>4, <3>6, Zenon DEF Playing, Held, After, Worth, sleeve
  <2>3. ASSUME NEW play \in PlayType, NEW t \in 1 .. n
        PROVE  Playing(s, market, play, t) \in PlayType
    <3>1. play.equity \in Seq(Int)
      BY DEF PlayType
    <3>. DEFINE sleeve == After(s, market, play.sleeve, t)
                worth == Worth(s, market, sleeve, t)
    <3>2. /\ Playing(s, market, play, t)
               = [sleeve |-> sleeve, equity |-> Append(play.equity, worth)]
          /\ sleeve \in SleeveType /\ worth \in Int
      BY <2>2, Zenon
    <3>. HIDE DEF sleeve, worth
    <3>. QED
      BY <3>1, <3>2 DEF PlayType
  <2>4. PlayFold!Closed(s, market, PlayType, bars)
    BY <1>0, <2>3 DEF PlayFold!Closed
  <2>5. PICK trace \in [0 .. n -> PlayType] : PlayFold!IsTrace(trace, s, market, base, bars)
    BY <1>0, <2>1, <2>4, PlayFold!FoldTrace
  <2>6. PlayFold!FoldOf(s, market, base, bars).equity = Sleeve(s, weights, market)
    BY Zenon DEF PlayFold!FoldOf, PlayFold!FoldLeft, PlayFold!MapThenFoldSet, PlayFold!Max,
                 Sleeve, FoldLeft, MapThenFoldSet, Max, Playing, Turn, bars, n
  <2>. DEFINE play == [t \in 0 .. n |-> trace[t].sleeve]
  <2>7. \A t \in 0 .. n : trace[t].sleeve \in SleeveType /\ trace[t].equity \in Seq(Int)
    BY DEF PlayType
  <2>8. play \in [0 .. n -> SleeveType] /\ play[0] = Opening(weights).sleeves[s]
    <3>1. 0 \in 0 .. n /\ trace[0] = base
      BY <1>0, <2>5 DEF PlayFold!IsTrace
    <3>. QED
      BY <2>7, <3>1
  <2>9. ASSUME NEW t \in 1 .. n
        PROVE  LET sleeve == After(s, market, play[t - 1], t)
               IN  /\ trace[t] = [sleeve |-> sleeve,
                                  equity |-> Append(trace[t - 1].equity,
                                                    Worth(s, market, sleeve, t))]
                   /\ Worth(s, market, sleeve, t) \in Int
    <3>1. t - 1 \in 0 .. n /\ trace[t - 1] \in PlayType
      BY <1>0
    <3>2. trace[t] = Playing(s, market, trace[t - 1], t)
      BY <1>0, <2>5 DEF PlayFold!IsTrace
    <3>3. play[t - 1] = trace[t - 1].sleeve
      BY <3>1
    <3>. HIDE DEF play
    <3>. QED
      BY <2>2, <3>1, <3>2, <3>3, Zenon
  <2>10. ASSUME NEW t \in 1 .. n
         PROVE  play[t] = After(s, market, play[t - 1], t)
    <3>1. t \in 0 .. n
      BY <1>0
    <3>2. play[t] = trace[t].sleeve
      BY <3>1
    <3>. DEFINE sleeve == After(s, market, play[t - 1], t)
                equity == Append(trace[t - 1].equity, Worth(s, market, sleeve, t))
    <3>. HIDE DEF play
    <3>3. trace[t] = [sleeve |-> sleeve, equity |-> equity]
      BY <2>9, Zenon
    <3>. HIDE DEF sleeve, equity
    <3>4. play[t] = sleeve
      BY <3>2, <3>3
    <3>. QED
      BY <3>4 DEF sleeve
  <2>11. Last(Attribution(weights, market)[s]) = Worth(s, market, play[n], n)
    <3>1. n \in 1 .. n /\ n - 1 \in 0 .. n
      BY <1>0
    <3>. DEFINE worth == Worth(s, market, play[n], n)
    <3>2. trace[n].equity = Append(trace[n - 1].equity, worth) /\ worth \in Int
      <4>. DEFINE sleeve == After(s, market, play[n - 1], n)
                  last == Worth(s, market, sleeve, n)
                  equity == Append(trace[n - 1].equity, last)
      <4>. HIDE DEF play
      <4>1. trace[n] = [sleeve |-> sleeve, equity |-> equity] /\ last \in Int
        BY <2>9, <3>1, Zenon
      <4>2. last = worth
        BY <2>10, <3>1, Zenon
      <4>. HIDE DEF sleeve, last, worth
      <4>3. trace[n].equity = equity
        <5>. HIDE DEF equity
        <5>. QED
          BY <4>1
      <4>. QED
        BY <4>1, <4>2, <4>3
    <3>3. trace[n - 1].equity \in Seq(Int)
      BY <2>7, <3>1
    <3>4. Sleeve(s, weights, market) = trace[n].equity
      BY <1>0, <2>5, <2>6 DEF PlayFold!IsTrace
    <3>. HIDE DEF worth
    <3>5. Last(trace[n].equity) = worth
      BY <3>2, <3>3 DEF Last
    <3>. QED
      BY <3>4, <3>5 DEF Attribution, worth
  <2>. HIDE DEF play
  <2>. QED
    BY <2>8, <2>10, <2>11
<1>2. \A s \in Strategy : IsPlay(s, [x \in Strategy |-> CHOOSE play : IsPlay(x, play)][s])
  BY <1>1, Zenon
<1>. QED
  BY <1>2, Zenon DEF ArePlays, n
-----------------------------------------------------------------------------
(* The run, bar by bar *)

\* The equity of a run that holds nothing.
Flat(run) == run.reserve + Total([s \in Strategy |-> run.sleeves[s].cash])
HoldsNothing(run) == \A s \in Strategy : run.sleeves[s].position = 0

\* The guard would not refuse a run that holds nothing for the equity it has.
Calm(run) == HoldsNothing(run) => ~ Breached(Max({run.peak, Flat(run)}), Flat(run))

\* A run that has traded k bars and was not halted.  The sleeves are those of
\* the attribution unless a purchase had no signal.
Going(run, k, weights, market, plays) ==
    /\ run \in RunType /\ run.halted = FALSE /\ run.last = k /\ run.reserve = Reserve(weights)
    /\ Calm(run)
    /\ \A fill \in ToSet(run.fills) : fill.at \in 1 .. k /\ HasSignal(fill, market)
    /\ \/ \E fill \in ToSet(run.fills) : Initial(fill, market)
       \/ \A s \in Strategy :
              run.sleeves[s] = IF k = 0 THEN plays[s][0]
                               ELSE Turn(s, plays[s][k - 1], market, k, FALSE)

\* A run that was halted.
Halting(run, market) ==
    /\ run \in RunType /\ run.halted = TRUE /\ run.last \in 1 .. Bars(market)
    /\ run.fills # <<>> /\ Last(run.fills).at = run.last
    /\ \A fill \in ToSet(run.fills) :
           /\ fill.at \in 1 .. run.last
           /\ HasSignal(fill, market) \/ (fill.side = "sell" /\ fill.at = run.last)

LEMMA EquityTyped ==
    ASSUME NEW run \in RunType, NEW market, IsMarket(market), NEW t \in 1 .. Bars(market)
    PROVE  /\ Equity(run, market, t) \in Int /\ Flat(run) \in Int
           /\ HoldsNothing(run) => Equity(run, market, t) = Flat(run)
<1>. DEFINE worth == [s \in Strategy |-> run.sleeves[s].cash
                                         + run.sleeves[s].position * market.close[s][t]]
            cash == [s \in Strategy |-> run.sleeves[s].cash]
<1>0. \A s \in Strategy : run.sleeves[s] \in SleeveType /\ market.close[s][t] \in Nat \ {0}
  BY MarketTyped DEF RunType
<1>1. worth \in [Strategy -> Int]
  <2>1. \A s \in Strategy :
            run.sleeves[s].cash + run.sleeves[s].position * market.close[s][t] \in Int
    BY <1>0, WorthTyped
  <2>. QED
    BY <2>1, Zenon
<1>2. cash \in [Strategy -> Int]
  BY <1>0 DEF SleeveType
<1>3. HoldsNothing(run) => worth = cash
  <2>. SUFFICES ASSUME HoldsNothing(run)
                PROVE  worth = cash
    OBVIOUS
  <2>1. ASSUME NEW s \in Strategy
        PROVE  run.sleeves[s].cash + run.sleeves[s].position * market.close[s][t]
                   = run.sleeves[s].cash
    <3>1. /\ run.sleeves[s].cash \in Int /\ run.sleeves[s].position = 0
          /\ market.close[s][t] \in Int
      BY <1>0 DEF SleeveType, HoldsNothing
    <3>. QED
      BY <3>1
  <2>. QED
    BY <2>1, Zenon
<1>4. run.reserve \in Int
  BY DEF RunType
<1>5. Equity(run, market, t) = run.reserve + Total(worth) /\ Flat(run) = run.reserve + Total(cash)
  BY Zenon DEF Equity, Flat
<1>. HIDE DEF worth, cash
<1>6. Total(worth) \in Int /\ Total(cash) \in Int
  BY <1>1, <1>2, TotalIsInt
<1>. QED
  BY <1>3, <1>4, <1>5, <1>6

LEMMA OpeningGoes ==
    ASSUME NEW weights \in Weights, NEW market, IsMarket(market),
           NEW plays, ArePlays(plays, weights, market)
    PROVE  Going(Opening(weights), 0, weights, market, plays)
<1>. DEFINE run == Opening(weights)
<1>1. /\ run.halted = FALSE /\ run.last = 0 /\ run.reserve = Reserve(weights)
      /\ run.fills = <<>> /\ run.peak = 0 /\ run \in RunType
  BY OpeningTyped DEF Opening
<1>2. ToSet(run.fills) = {}
  BY <1>1 DEF ToSet
<1>3. \A s \in Strategy : run.sleeves[s] = plays[s][0]
  BY DEF ArePlays
<1>4. ~ Breached(Max({run.peak, Flat(run)}), Flat(run))
  <2>1. [s \in Strategy |-> run.sleeves[s].cash] = Allocated(weights)
    <3>1. \A s \in Strategy : run.sleeves[s].cash = Allocated(weights)[s]
      <4>1. \A s \in Strategy :
                run.sleeves[s] = [cash |-> Allocated(weights)[s], position |-> 0]
        BY OpeningTyped
      <4>2. \A sleeve, x, y : sleeve = [cash |-> x, position |-> y] => sleeve.cash = x
        OBVIOUS
      <4>. QED
        BY <4>1, <4>2, Zenon
    <3>2. DOMAIN Allocated(weights) = Strategy
      BY DEF Allocated
    <3>3. Allocated(weights) = [s \in Strategy |-> Allocated(weights)[s]]
      BY OpeningTyped
    <3>. QED
      BY <3>1, <3>3, Zenon
  <2>2. PICK total \in Int : Total(Allocated(weights)) = total
    BY OpeningTyped, TotalIsInt
  <2>3. InitialCash \in Nat \ {0}
    BY ExecutionAssumption DEF ExecutionAssumption
  <2>4. Flat(run) = InitialCash
    BY <1>1, <2>1, <2>2, <2>3 DEF Flat, Reserve
  <2>5. Max({0, InitialCash}) = InitialCash
    BY <2>3, MaximumOfTwo
  <2>6. DrawdownLimit # Unlimited => 100 * 0 < DrawdownLimit * InitialCash
    <3>1. \A x \in 1..99 : x \in Nat \ {0}
      OBVIOUS
    <3>2. DrawdownLimit # Unlimited => DrawdownLimit \in Nat \ {0}
      BY <3>1, ExecutionAssumption, Zenon DEF ExecutionAssumption
    <3>3. \A x, y \in Nat \ {0} : 100 * 0 < x * y
      OBVIOUS
    <3>. QED
      BY <2>3, <3>2, <3>3, Zenon
  <2>7. DrawdownLimit # Unlimited
            => ~ (100 * (InitialCash - InitialCash) >= DrawdownLimit * InitialCash)
    <3>1. InitialCash - InitialCash = 0
      BY <2>3
    <3>2. \A x \in Nat \ {0} : DrawdownLimit \in Int => DrawdownLimit * x \in Int
      OBVIOUS
    <3>3. DrawdownLimit # Unlimited => DrawdownLimit \in Int
      <4>1. \A x \in 1..99 : x \in Int
        OBVIOUS
      <4>. QED
        BY <4>1, ExecutionAssumption, Zenon DEF ExecutionAssumption
    <3>. QED
      BY <2>3, <2>6, <3>1, <3>2, <3>3
  <2>. QED
    BY <1>1, <2>3, <2>4, <2>5, <2>7 DEF Breached
<1>. HIDE DEF run
<1>. QED
  BY <1>1, <1>2, <1>3, <1>4 DEF Going, Calm, run

Checked(traded, q, market, t, peak, equity) ==
    /\ q \in RunType /\ q.last = t /\ q.peak = peak /\ q.reserve = traded.reserve
    /\ q.halted = Breached(peak, equity)
    /\ ~ Breached(peak, equity) => q.fills = traded.fills /\ q.sleeves = traded.sleeves
    /\ Breached(peak, equity)
           => Adds(traded, q, UNION {SalesOf(traded, market, t)[s] : s \in Strategy})

\* The state the guard leaves: the trades of the bar, liquidated when refused.
LEMMA CheckIs ==
    ASSUME NEW traded \in RunType, NEW market, IsMarket(market), NEW t \in 1 .. Bars(market),
           NEW equity, equity = Equity(traded, market, t),
           NEW peak, peak = Max({traded.peak, equity})
    PROVE  Checked(traded, Check(traded, market, t), market, t, peak, equity)
<1>. DEFINE marked == Marked(traded, traded.peak, equity)
            sold == Liquidate(marked, market, t)
            q == Check(traded, market, t)
<1>1. equity \in Int /\ traded.peak \in Int
  BY EquityTyped DEF RunType
<1>2. peak \in Int
  BY <1>1, MaximumOfTwo
<1>3. Breached(peak, equity) \in BOOLEAN
  BY DEF Breached
<1>4. marked = [traded EXCEPT !.peak = peak, !.halted = Breached(peak, equity)]
  BY Zenon DEF Marked
<1>5. q = [(IF marked.halted THEN sold ELSE marked) EXCEPT !.last = t]
  BY Zenon DEF Check, Guarded
<1>. HIDE DEF marked
<1>6. /\ marked \in RunType /\ marked.peak = peak /\ marked.halted = Breached(peak, equity)
      /\ marked.fills = traded.fills /\ marked.sleeves = traded.sleeves
      /\ marked.reserve = traded.reserve
  BY <1>2, <1>3, <1>4 DEF RunType
<1>7. /\ sold \in RunType /\ Same(marked, sold)
      /\ Adds(marked, sold, UNION {SalesOf(marked, market, t)[s] : s \in Strategy})
  BY <1>6, LiquidateIs DEF Visited
<1>8. SalesOf(marked, market, t) = SalesOf(traded, market, t)
  BY <1>6, Zenon DEF SalesOf, SaleOf
<1>9. Adds(traded, sold, UNION {SalesOf(traded, market, t)[s] : s \in Strategy})
  BY <1>6, <1>7, <1>8 DEF Adds
<1>. HIDE DEF sold, q
<1>10. t \in Nat
  BY MarketTyped DEF IsMarket
<1>11. CASE Breached(peak, equity)
  <2>1. marked.halted
    BY <1>6, <1>11
  <2>2. q = [sold EXCEPT !.last = t]
    BY <1>5, <2>1
  <2>3. /\ q \in RunType /\ q.last = t /\ q.peak = sold.peak /\ q.halted = sold.halted
        /\ q.reserve = sold.reserve /\ q.fills = sold.fills
    BY <1>7, <1>10, <2>2 DEF RunType
  <2>4. Adds(traded, q, UNION {SalesOf(traded, market, t)[s] : s \in Strategy})
    BY <1>9, <2>3 DEF Adds
  <2>. QED
    BY <1>6, <1>7, <1>11, <2>3, <2>4 DEF Same, q, Checked
<1>12. CASE ~ Breached(peak, equity)
  <2>1. ~ marked.halted
    BY <1>6, <1>12
  <2>2. q = [marked EXCEPT !.last = t]
    BY <1>5, <2>1
  <2>3. /\ q \in RunType /\ q.last = t /\ q.peak = marked.peak /\ q.halted = marked.halted
        /\ q.reserve = marked.reserve /\ q.fills = marked.fills /\ q.sleeves = marked.sleeves
    BY <1>6, <1>10, <2>2 DEF RunType
  <2>. QED
    BY <1>6, <1>12, <2>3 DEF q, Checked
<1>. QED
  BY <1>11, <1>12

\* The orders of a bar are signalled, and they are a purchase without a signal
\* or what the replay of the sleeves does as well.
LEMMA OrdersOfAre ==
    ASSUME NEW run \in RunType, NEW market, IsMarket(market), NEW t \in 1 .. Bars(market)
    PROVE  \A fill \in UNION {OrdersOf(run, market, t)[s] : s \in Strategy} :
               fill \in FillType /\ fill.at = t /\ HasSignal(fill, market)
<1>. SUFFICES ASSUME NEW s \in Strategy,
                     NEW fill \in ToSet(Orders(s, run.sleeves[s], market, t, TRUE))
              PROVE  fill \in FillType /\ fill.at = t /\ HasSignal(fill, market)
  BY DEF OrdersOf
<1>. DEFINE orders == Orders(s, run.sleeves[s], market, t, TRUE)
<1>1. OneOrder(orders, s, market, t)
  <2>1. run.sleeves[s] \in SleeveType
    BY DEF RunType
  <2>. QED
    BY <2>1, OrdersAre
<1>. HIDE DEF orders
<1>2. ToSet(<<>>) = {} /\ \A x : ToSet(<<x>>) = {x}
  BY DEF ToSet
<1>. QED
  BY <1>1, <1>2 DEF OneOrder, orders

LEMMA TurnsAlone ==
    ASSUME NEW run \in RunType, NEW market, IsMarket(market), NEW t \in 1 .. Bars(market)
    PROVE  \/ \E fill \in UNION {OrdersOf(run, market, t)[s] : s \in Strategy} :
                  Initial(fill, market)
           \/ \A s \in Strategy : Turn(s, run.sleeves[s], market, t, TRUE)
                                      = Turn(s, run.sleeves[s], market, t, FALSE)
<1>. SUFFICES ASSUME NEW s \in Strategy,
                     Turn(s, run.sleeves[s], market, t, TRUE)
                         # Turn(s, run.sleeves[s], market, t, FALSE)
              PROVE  \E fill \in OrdersOf(run, market, t)[s] : Initial(fill, market)
  OBVIOUS
<1>1. Orders(s, run.sleeves[s], market, t, TRUE) # Orders(s, run.sleeves[s], market, t, FALSE)
  BY DEF Turn
<1>2. run.sleeves[s] \in SleeveType
  BY DEF RunType
<1>3. \E fill \in ToSet(Orders(s, run.sleeves[s], market, t, TRUE)) : Initial(fill, market)
  BY <1>1, <1>2, OrdersWithoutAllocation
<1>. QED
  BY <1>3 DEF OrdersOf

\* A bar that neither trades nor sells leaves the equity as it was.
LEMMA QuietBar ==
    ASSUME NEW run \in RunType, NEW market, IsMarket(market), NEW t \in 1 .. Bars(market),
           Calm(run), NEW traded, traded = Trade(run, market, t),
           UNION {OrdersOf(run, market, t)[s] : s \in Strategy} = {},
           UNION {SalesOf(traded, market, t)[s] : s \in Strategy} = {}
    PROVE  ~ Breached(Max({traded.peak, Equity(traded, market, t)}), Equity(traded, market, t))
<1>1. /\ traded \in RunType /\ Same(run, traded)
      /\ \A s \in Strategy : traded.sleeves[s] = Turn(s, run.sleeves[s], market, t, TRUE)
  BY TradeLeaves, Zenon DEF Trades
<1>2. ASSUME NEW s \in Strategy
      PROVE  traded.sleeves[s] = run.sleeves[s]
  <2>. DEFINE orders == Orders(s, run.sleeves[s], market, t, TRUE)
  <2>1. run.sleeves[s] \in SleeveType
    BY DEF RunType
  <2>2. ToSet(orders) = {}
    BY DEF OrdersOf
  <2>3. OneOrder(orders, s, market, t)
    BY <2>1, OrdersAre
  <2>4. \A x : ToSet(<<x>>) = {x}
    BY DEF ToSet
  <2>5. traded.sleeves[s] = FoldLeft(Settled, run.sleeves[s], orders)
    BY <1>1 DEF Turn
  <2>. HIDE DEF orders
  <2>6. orders = <<>>
    BY <2>2, <2>3, <2>4 DEF OneOrder
  <2>. QED
    BY <2>1, <2>5, <2>6, SettleFew
<1>3. HoldsNothing(traded)
  <2>1. ASSUME NEW s \in Strategy
        PROVE  traded.sleeves[s].position = 0
    <3>1. SalesOf(traded, market, t)[s] = {}
      OBVIOUS
    <3>. QED
      BY <3>1 DEF SalesOf
  <2>. QED
    BY <2>1 DEF HoldsNothing
<1>4. HoldsNothing(run)
  BY <1>2, <1>3 DEF HoldsNothing
<1>5. Flat(traded) = Flat(run)
  <2>1. [s \in Strategy |-> traded.sleeves[s].cash] = [s \in Strategy |-> run.sleeves[s].cash]
    BY <1>2, Zenon
  <2>. QED
    BY <1>1, <2>1 DEF Flat, Same
<1>6. Equity(traded, market, t) = Flat(run) /\ traded.peak = run.peak
  BY <1>1, <1>3, <1>5, EquityTyped DEF Same
<1>. QED
  BY <1>4, <1>6 DEF Calm

LEMMA BarGoes ==
    ASSUME NEW weights, NEW market, IsMarket(market),
           NEW plays, ArePlays(plays, weights, market),
           NEW k \in 1 .. Bars(market), NEW run, Going(run, k - 1, weights, market, plays)
    PROVE  \/ Going(Bar(run, market, k), k, weights, market, plays)
           \/ Halting(Bar(run, market, k), market)
<1>. DEFINE traded == Trade(run, market, k)
            equity == Equity(traded, market, k)
            peak == Max({traded.peak, equity})
            orders == UNION {OrdersOf(run, market, k)[s] : s \in Strategy}
            sales == UNION {SalesOf(traded, market, k)[s] : s \in Strategy}
            q == Check(traded, market, k)
<1>0. /\ run \in RunType /\ run.halted = FALSE /\ run.reserve = Reserve(weights) /\ Calm(run)
      /\ k \in Nat \ {0} /\ k \in 1 .. Bars(market) /\ Bars(market) \in Nat
  BY DEF Going, IsMarket
<1>1. Bar(run, market, k) = q
  BY <1>0 DEF Bar
<1>2. /\ traded \in RunType /\ Same(run, traded) /\ Adds(run, traded, orders)
      /\ \A s \in Strategy : traded.sleeves[s] = Turn(s, run.sleeves[s], market, k, TRUE)
  <2>1. Trades(run, traded, market, k)
    BY <1>0, TradeLeaves
  <2>. QED
    BY <2>1, Zenon DEF Trades
<1>3. /\ q \in RunType /\ q.last = k /\ q.peak = peak /\ q.reserve = traded.reserve
      /\ q.halted = Breached(peak, equity)
      /\ ~ Breached(peak, equity) => q.fills = traded.fills /\ q.sleeves = traded.sleeves
      /\ Breached(peak, equity) => Adds(traded, q, sales)
  <2>1. \A x : x \in RunType => Checked(x, Check(x, market, k), market, k,
                                       Max({x.peak, Equity(x, market, k)}),
                                       Equity(x, market, k))
    BY CheckIs
  <2>2. Checked(traded, q, market, k, peak, equity)
    BY <1>2, <2>1
  <2>. HIDE DEF traded, q, peak, equity
  <2>. QED
    BY <2>2 DEF Checked, sales
<1>4. \A fill \in orders : fill.at = k /\ HasSignal(fill, market)
  BY <1>0, OrdersOfAre
<1>5. \A fill \in ToSet(run.fills) : fill.at \in 1 .. k - 1 /\ HasSignal(fill, market)
  BY DEF Going
<1>6. /\ equity \in Int /\ Flat(traded) \in Int /\ traded.peak \in Int
      /\ HoldsNothing(traded) => equity = Flat(traded)
  BY <1>2, EquityTyped DEF RunType
<1>7. orders = {} /\ sales = {} => ~ Breached(peak, equity)
  BY <1>0, QuietBar
<1>8. \A fill \in sales : fill.side = "sell" /\ fill.at = k
  <2>. SUFFICES ASSUME NEW s \in Strategy, traded.sleeves[s].position # 0
                PROVE  /\ SaleOf(s, traded, market, k).side = "sell"
                       /\ SaleOf(s, traded, market, k).at = k
    BY DEF SalesOf
  <2>. HIDE DEF traded
  <2>. QED
    BY SaleIs
<1>9. \/ \E fill \in orders : Initial(fill, market)
      \/ \A s \in Strategy : traded.sleeves[s] = Turn(s, run.sleeves[s], market, k, FALSE)
  BY <1>0, <1>2, TurnsAlone
<1>. HIDE DEF traded, equity, peak, orders, sales, q
<1>10. CASE ~ Breached(peak, equity)
  <2>1. q.halted = FALSE /\ q.fills = traded.fills /\ q.sleeves = traded.sleeves
    BY <1>3, <1>10 DEF Breached
  <2>2. q.reserve = Reserve(weights)
    BY <1>0, <1>2, <1>3 DEF Same
  <2>3. Calm(q)
    <3>. SUFFICES ASSUME HoldsNothing(q)
                  PROVE  ~ Breached(Max({q.peak, Flat(q)}), Flat(q))
      BY DEF Calm
    <3>1. HoldsNothing(traded)
      BY <2>1 DEF HoldsNothing
    <3>2. Flat(q) = Flat(traded)
      BY <1>3, <2>1 DEF Flat
    <3>3. Flat(q) = equity
      BY <1>6, <3>1, <3>2
    <3>4. peak \in Int /\ peak >= equity
      BY <1>6, MaximumOfTwo DEF peak
    <3>5. Max({peak, equity}) = peak
      BY <1>6, <3>4, MaximumOfTwo
    <3>. QED
      BY <1>3, <1>10, <3>3, <3>5
  <2>4. ToSet(q.fills) = ToSet(run.fills) \union orders
    BY <1>2, <2>1 DEF Adds
  <2>5. \A fill \in ToSet(q.fills) : fill.at \in 1 .. k /\ HasSignal(fill, market)
    BY <1>0, <1>4, <1>5, <2>4
  <2>6. \/ \E fill \in ToSet(q.fills) : Initial(fill, market)
        \/ \A s \in Strategy :
               q.sleeves[s] = IF k = 0 THEN plays[s][0]
                              ELSE Turn(s, plays[s][k - 1], market, k, FALSE)
    <3>1. CASE \E fill \in ToSet(run.fills) \union orders : Initial(fill, market)
      BY <2>4, <3>1
    <3>2. CASE ~ \E fill \in ToSet(run.fills) \union orders : Initial(fill, market)
      <4>1. \A s \in Strategy :
                run.sleeves[s] = IF k - 1 = 0 THEN plays[s][0]
                                 ELSE Turn(s, plays[s][(k - 1) - 1], market, k - 1, FALSE)
        BY <3>2 DEF Going
      <4>2. ASSUME NEW s \in Strategy
            PROVE  run.sleeves[s] = plays[s][k - 1]
        <5>1. CASE k = 1
          BY <4>1, <5>1
        <5>2. CASE k # 1
          <6>1. k - 1 \in 1 .. Bars(market) /\ k - 1 < Bars(market) /\ k - 1 # 0
            BY <1>0, <5>2
          <6>2. plays[s][k - 1] = After(s, market, plays[s][(k - 1) - 1], k - 1)
            BY <6>1 DEF ArePlays
          <6>3. After(s, market, plays[s][(k - 1) - 1], k - 1)
                    = Turn(s, plays[s][(k - 1) - 1], market, k - 1, FALSE)
            BY <6>1, ClosedIs DEF After
          <6>. QED
            BY <4>1, <6>1, <6>2, <6>3
        <5>. QED
          BY <5>1, <5>2
      <4>3. \A s \in Strategy : traded.sleeves[s] = Turn(s, run.sleeves[s], market, k, FALSE)
        BY <1>9, <3>2
      <4>. QED
        BY <1>0, <2>1, <4>2, <4>3
    <3>. QED
      BY <3>1, <3>2
  <2>. QED
    BY <1>1, <1>3, <2>1, <2>2, <2>3, <2>5, <2>6 DEF Going
<1>11. CASE Breached(peak, equity)
  <2>1. q.halted = TRUE
    BY <1>3, <1>11 DEF Breached
  <2>2. Adds(run, q, orders \union sales)
    BY <1>2, <1>3, <1>11, AddsTwice
  <2>3. orders \union sales # {}
    BY <1>7, <1>11
  <2>4. ToSet(q.fills) = ToSet(run.fills) \union (orders \union sales)
        /\ q.fills # <<>> /\ Last(q.fills) \in orders \union sales
    BY <2>2, <2>3 DEF Adds
  <2>5. Last(q.fills).at = k
    BY <1>4, <1>8, <2>4
  <2>6. ASSUME NEW fill \in ToSet(q.fills)
        PROVE  /\ fill.at \in 1 .. k
               /\ HasSignal(fill, market) \/ (fill.side = "sell" /\ fill.at = k)
    <3>1. \A x \in 1 .. k - 1 : x \in 1 .. k
      BY <1>0
    <3>. QED
      BY <1>0, <1>4, <1>5, <1>8, <2>4, <3>1
  <2>7. Halting(q, market)
    BY <1>0, <1>3, <2>1, <2>4, <2>5, <2>6 DEF Halting
  <2>. QED
    BY <1>1, <2>7
<1>. QED
  BY <1>10, <1>11
-----------------------------------------------------------------------------
(* The run as a whole *)

Barring(market, d, run, t) == Bar(run, market, t)
BarFold == INSTANCE FoldTheorems WITH Op <- Barring

\* What a halted run returns.
EndsHalted(paper, market) ==
    /\ paper.halted = TRUE /\ paper.fills \in Seq(FillType) /\ paper.fills # <<>>
    /\ Last(paper.fills).at = paper.last
    /\ \A fill \in ToSet(paper.fills) :
           /\ fill.at \in 1 .. Bars(market) /\ fill.at <= paper.last
           /\ HasSignal(fill, market) \/ (fill.side = "sell" /\ fill.at = paper.last)

\* What a run to the end of the sample returns: its equity is the one the
\* sleeves of the attribution end with, unless a purchase had no signal.
EndsWhole(paper, weights, market) ==
    /\ paper.halted = FALSE /\ paper.fills \in Seq(FillType)
    /\ \A fill \in ToSet(paper.fills) :
           /\ fill.at \in 1 .. Bars(market)
           /\ HasSignal(fill, market) \/ (fill.side = "sell" /\ fill.at = Bars(market))
    /\ \/ \E fill \in ToSet(paper.fills) : Initial(fill, market)
       \/ paper.equity = Reserve(weights)
                       + Total([s \in Strategy |-> Last(Attribution(weights, market)[s])])

LEMMA BarTyped ==
    ASSUME NEW run \in RunType, NEW market, IsMarket(market), NEW t \in 1 .. Bars(market)
    PROVE  Bar(run, market, t) \in RunType
<1>1. Trade(run, market, t) \in RunType
  BY TradeLeaves DEF Trades
<1>2. \A x : x \in RunType => Checked(x, Check(x, market, t), market, t,
                                     Max({x.peak, Equity(x, market, t)}),
                                     Equity(x, market, t))
  BY CheckIs
<1>3. \A x : x \in RunType => Check(x, market, t) \in RunType
  BY <1>2, Zenon DEF Checked
<1>. QED
  BY <1>1, <1>3 DEF Bar

\* Every run goes to the end of the sample or is halted.
LEMMA RunGoes ==
    ASSUME NEW weights \in Weights, NEW market, IsMarket(market),
           NEW plays, ArePlays(plays, weights, market)
    PROVE  \E run : /\ PaperRun(weights, market) = Result(Ended(run, market), market)
                    /\ \/ Going(run, Bars(market), weights, market, plays)
                       \/ Halting(run, market)
<1>. DEFINE n == Bars(market)
            bars == [t \in 1 .. n |-> t]
            I == [k \in 0 .. n |-> {run \in RunType :
                                       \/ Going(run, k, weights, market, plays)
                                       \/ Halting(run, market)}]
            run == BarFold!FoldOf(market, 0, Opening(weights), bars)
<1>0. /\ n \in Nat \ {0} /\ bars \in Seq(1 .. n) /\ Len(bars) = n
      /\ \A t \in 1 .. n : bars[t] = t
  BY DEF IsMarket
<1>1. PaperRun(weights, market) = Result(Ended(run, market), market)
  BY Zenon DEF BarFold!FoldOf, BarFold!FoldLeft, BarFold!MapThenFoldSet, BarFold!Max,
               PaperRun, FoldLeft, MapThenFoldSet, Max, Barring
<1>2. BarFold!Closed(market, 0, RunType, bars)
  <2>. HIDE DEF bars
  <2>. QED
    BY <1>0, BarTyped DEF BarFold!Closed, Barring
<1>3. Opening(weights) \in I[0]
  <2>1. 0 \in 0 .. n
    BY <1>0
  <2>. QED
    BY <2>1, OpeningGoes, OpeningTyped
<1>4. ASSUME NEW k \in 1 .. n, NEW r \in I[k - 1]
      PROVE  Bar(r, market, k) \in I[k]
  <2>1. k - 1 \in 0 .. n /\ k \in 0 .. n /\ k \in 1 .. Bars(market)
    BY <1>0
  <2>2. r \in RunType /\ (Going(r, k - 1, weights, market, plays) \/ Halting(r, market))
    BY <2>1
  <2>3. Bar(r, market, k) \in RunType
    BY <2>1, <2>2, BarTyped
  <2>4. \/ Going(Bar(r, market, k), k, weights, market, plays)
        \/ Halting(Bar(r, market, k), market)
    <3>1. CASE Going(r, k - 1, weights, market, plays)
      BY <2>1, <3>1, BarGoes
    <3>2. CASE Halting(r, market)
      <4>1. Bar(r, market, k) = r
        BY <3>2 DEF Bar, Halting
      <4>. QED
        BY <3>2, <4>1
    <3>. QED
      BY <2>2, <3>1, <3>2
  <2>. QED
    BY <2>1, <2>3, <2>4
<1>5. I \in [0 .. n -> SUBSET RunType]
  OBVIOUS
<1>. HIDE DEF n, bars, I
<1>6. run \in I[n]
  <2>1. \A k \in 1 .. Len(bars) : \A r \in I[k - 1] : Barring(market, 0, r, bars[k]) \in I[k]
    BY <1>0, <1>4 DEF Barring
  <2>. QED
    BY <1>0, <1>2, <1>3, <1>5, <2>1, BarFold!FoldInduction
<1>7. Going(run, n, weights, market, plays) \/ Halting(run, market)
  <2>1. n \in 0 .. n
    BY <1>0
  <2>. HIDE DEF run
  <2>. QED
    BY <1>6, <2>1 DEF I
<1>. QED
  BY <1>1, <1>7 DEF n

LEMMA PaperRunIs ==
    ASSUME NEW weights \in Weights, NEW market, IsMarket(market)
    PROVE  \/ EndsHalted(PaperRun(weights, market), market)
           \/ EndsWhole(PaperRun(weights, market), weights, market)
<1>. DEFINE n == Bars(market)
            paper == PaperRun(weights, market)
<1>1. PICK plays : ArePlays(plays, weights, market)
  BY PlaysExist
<1>2. PICK run : /\ paper = Result(Ended(run, market), market)
                 /\ Going(run, n, weights, market, plays) \/ Halting(run, market)
  BY <1>1, RunGoes
<1>0. n \in Nat \ {0} /\ n \in 1 .. Bars(market)
  BY DEF IsMarket
<1>. HIDE DEF n, paper
<1>3. CASE Halting(run, market)
  <2>1. Ended(run, market) = run
    BY <1>3 DEF Ended, Halting
  <2>2. /\ paper.fills = run.fills /\ paper.halted = run.halted /\ paper.last = run.last
    BY <1>2, <2>1 DEF Result
  <2>3. run.fills \in Seq(FillType) /\ run.last \in 1 .. Bars(market)
    BY <1>3 DEF Halting, RunType
  <2>4. ASSUME NEW fill \in ToSet(run.fills)
        PROVE  fill.at \in 1 .. Bars(market) /\ fill.at <= run.last
    <3>1. fill.at \in 1 .. run.last
      BY <1>3 DEF Halting
    <3>. QED
      BY <1>0, <2>3, <3>1 DEF n
  <2>5. EndsHalted(paper, market)
    BY <1>3, <2>2, <2>3, <2>4 DEF EndsHalted, Halting
  <2>. QED
    BY <2>5 DEF paper
<1>4. CASE Going(run, n, weights, market, plays)
  <2>. DEFINE q == Liquidate(run, market, n)
              sales == UNION {SalesOf(run, market, n)[s] : s \in Strategy}
              sleeves == [s \in Strategy |-> Sold(s, run.sleeves[s], market, n)]
  <2>1. Ended(run, market) = q /\ run \in RunType
    BY <1>4 DEF Ended, Going, n
  <2>2. Visited(run, q, sleeves, SalesOf(run, market, n))
    BY <1>0, <2>1, LiquidateIs
  <2>3. \A s \in Strategy : sleeves[s] = Sold(s, run.sleeves[s], market, n)
    OBVIOUS
  <2>4. \A fill \in sales : fill.side = "sell" /\ fill.at = n
    <3>. SUFFICES ASSUME NEW s \in Strategy, run.sleeves[s].position # 0
                  PROVE  /\ SaleOf(s, run, market, n).side = "sell"
                         /\ SaleOf(s, run, market, n).at = n
      BY DEF SalesOf
    <3>. QED
      BY SaleIs
  <2>. HIDE DEF q, sales, sleeves
  <2>5. /\ q \in RunType /\ q.reserve = Reserve(weights) /\ q.halted = FALSE /\ q.last = n
        /\ ToSet(q.fills) = ToSet(run.fills) \union sales
        /\ \A s \in Strategy : q.sleeves[s] = Sold(s, run.sleeves[s], market, n)
    <3>1. q \in RunType /\ Same(run, q) /\ Adds(run, q, sales)
      BY <2>2 DEF Visited, sales
    <3>2. \A s \in Strategy : q.sleeves[s] = sleeves[s]
      BY <2>2 DEF Visited
    <3>. QED
      BY <1>4, <2>3, <3>1, <3>2 DEF Going, Same, Adds
  <2>6. /\ paper.fills = q.fills /\ paper.halted = q.halted
        /\ paper.equity = Equity(q, market, q.last)
    BY <1>2, <2>1 DEF Result
  <2>7. q.fills \in Seq(FillType)
    BY <2>5 DEF RunType
  <2>8. ASSUME NEW fill \in ToSet(q.fills)
        PROVE  /\ fill.at \in 1 .. Bars(market)
               /\ HasSignal(fill, market) \/ (fill.side = "sell" /\ fill.at = Bars(market))
    <3>1. CASE fill \in ToSet(run.fills)
      BY <1>4, <3>1 DEF Going, n
    <3>2. CASE fill \in sales
      <4>1. fill.side = "sell" /\ fill.at = n
        BY <2>4, <3>2
      <4>. QED
        BY <1>0, <4>1 DEF n
    <3>. QED
      BY <2>5, <3>1, <3>2
  <2>9. \/ \E fill \in ToSet(q.fills) : Initial(fill, market)
        \/ paper.equity = Reserve(weights)
                        + Total([s \in Strategy |-> Last(Attribution(weights, market)[s])])
    <3>. SUFFICES ASSUME ~ \E fill \in ToSet(q.fills) : Initial(fill, market)
                  PROVE  paper.equity
                             = Reserve(weights)
                             + Total([s \in Strategy |-> Last(Attribution(weights, market)[s])])
      OBVIOUS
    <3>1. ~ \E fill \in ToSet(run.fills) : Initial(fill, market)
      BY <2>5
    <3>2. ASSUME NEW s \in Strategy
          PROVE  q.sleeves[s].cash + q.sleeves[s].position * market.close[s][n]
                     = Last(Attribution(weights, market)[s])
      <4>1. run.sleeves[s] = Turn(s, plays[s][n - 1], market, n, FALSE)
        BY <1>0, <1>4, <3>1 DEF Going
      <4>2. plays[s][n] = After(s, market, plays[s][n - 1], n)
        BY <1>0, <1>1 DEF ArePlays
      <4>3. After(s, market, plays[s][n - 1], n) = Sold(s, run.sleeves[s], market, n)
        <5>1. ~ (n < Bars(market))
          BY <1>0 DEF n
        <5>. QED
          BY <1>0, <4>1, <5>1, ClosedIs DEF After
      <4>4. q.sleeves[s] = plays[s][n]
        BY <2>5, <4>2, <4>3
      <4>5. Last(Attribution(weights, market)[s]) = Worth(s, market, plays[s][n], n)
        BY <1>1 DEF ArePlays, n
      <4>. QED
        BY <4>4, <4>5 DEF Worth
    <3>3. Equity(q, market, n)
              = Reserve(weights)
              + Total([s \in Strategy |-> Last(Attribution(weights, market)[s])])
      <4>1. [s \in Strategy |-> q.sleeves[s].cash + q.sleeves[s].position * market.close[s][n]]
                = [s \in Strategy |-> Last(Attribution(weights, market)[s])]
        BY <3>2, Zenon
      <4>. QED
        BY <2>5, <4>1, Zenon DEF Equity
    <3>. QED
      BY <2>5, <2>6, <3>3
  <2>10. EndsWhole(paper, weights, market)
    BY <2>5, <2>6, <2>7, <2>8, <2>9 DEF EndsWhole
  <2>. QED
    BY <2>10 DEF paper
<1>. QED
  BY <1>2, <1>3, <1>4

\* A fill that is signalled, or that liquidates, has a reason: all the lineage
\* refuses is a sale that a halted run made before its halt.
LEMMA ReasonIs ==
    ASSUME NEW market, IsMarket(market), NEW fill \in FillType, fill.at \in 1 .. Bars(market),
           NEW halted \in BOOLEAN, NEW halt,
           \/ HasSignal(fill, market)
           \/ fill.side = "sell" /\ fill.at = IF halted THEN halt ELSE Bars(market)
    PROVE  /\ Reason(fill, market, halted, halt) = Refused
                  => halted /\ fill.side = "sell" /\ fill.at # halt
           /\ Initial(fill, market)
                  => Reason(fill, market, halted, halt) = "initial_allocation"
<1>. DEFINE entry == market.entry[fill.strategy][fill.at]
            exit == market.exit[fill.strategy][fill.at]
            reason == Reason(fill, market, halted, halt)
<1>0. /\ fill.side \in {"buy", "sell"} /\ entry \in BOOLEAN /\ exit \in BOOLEAN
      /\ Refused \notin {"risk_halt", "entry_signal", "initial_allocation",
                         "exit_signal", "end_of_sample"}
  BY MarketTyped, ExecutionAssumption DEF FillType, ExecutionAssumption
<1>1. reason = CASE halted /\ fill.side = "sell" ->
                        IF fill.at = halt THEN "risk_halt" ELSE Refused
                 [] fill.side = "buy" /\ entry -> "entry_signal"
                 [] fill.side = "buy" /\ ~entry /\ fill.at = 1 -> "initial_allocation"
                 [] fill.side = "sell" /\ ~halted /\ exit -> "exit_signal"
                 [] fill.side = "sell" /\ ~halted /\ ~exit /\ fill.at = Bars(market)
                        -> "end_of_sample"
                 [] OTHER -> Refused
  BY Zenon DEF Reason
<1>2. /\ fill.side = "buy" => entry \/ fill.at = 1
      /\ fill.side = "sell" => \/ exit
                               \/ halted /\ fill.at = halt
                               \/ ~ halted /\ fill.at = Bars(market)
  BY DEF HasSignal
<1>3. Initial(fill, market) <=> fill.side = "buy" /\ fill.at = 1 /\ ~ entry
  BY DEF Initial
<1>. HIDE DEF entry, exit, reason
<1>4. CASE fill.side = "buy" /\ entry
  <2>1. reason = "entry_signal"
    BY <1>1, <1>4
  <2>. QED
    BY <1>0, <1>3, <1>4, <2>1 DEF reason
<1>5. CASE fill.side = "buy" /\ ~ entry
  <2>1. reason = "initial_allocation"
    BY <1>1, <1>2, <1>5
  <2>. QED
    BY <1>0, <2>1 DEF reason
<1>6. CASE fill.side = "sell" /\ halted
  <2>1. reason = IF fill.at = halt THEN "risk_halt" ELSE Refused
    BY <1>1, <1>6
  <2>. QED
    BY <1>0, <1>3, <1>6, <2>1 DEF reason
<1>7. CASE fill.side = "sell" /\ ~ halted
  <2>1. reason \in {"exit_signal", "end_of_sample"}
    BY <1>1, <1>2, <1>7
  <2>. QED
    BY <1>0, <1>3, <1>7, <2>1 DEF reason
<1>. QED
  BY <1>0, <1>4, <1>5, <1>6, <1>7

\* What the lineage of a paper run says of it.  A refusal says that the run was
\* halted after a sale on an exit signal; a run that was not halted and has no
\* initial allocation ends with the equity of the attribution.
Explained(paper, weights, market) ==
    LET lineage == ToSet(Lineage(paper.fills, market, paper.halted, paper.last))
    IN  /\ Refused \in lineage =>
               /\ paper.halted
               /\ \E i \in 1 .. Len(paper.fills) :
                      /\ paper.fills[i].side = "sell"
                      /\ paper.fills[i].at < Last(paper.fills).at
                      /\ market.exit[paper.fills[i].strategy][paper.fills[i].at]
        /\ ~ paper.halted /\ "initial_allocation" \notin lineage =>
               paper.equity = Reserve(weights)
                            + Total([s \in Strategy |-> Last(Attribution(weights, market)[s])])

LEMMA LineageIs ==
    ASSUME NEW paper, NEW market, paper.fills \in Seq(FillType)
    PROVE  ToSet(Lineage(paper.fills, market, paper.halted, paper.last))
               = {Reason(fill, market, paper.halted, paper.last) : fill \in ToSet(paper.fills)}
<1>. DEFINE fills == paper.fills
            reason(fill) == Reason(fill, market, paper.halted, paper.last)
            lineage == [i \in 1 .. Len(fills) |-> reason(fills[i])]
<1>1. Lineage(paper.fills, market, paper.halted, paper.last) = lineage
  BY DEF Lineage
<1>2. fills \in Seq(FillType) /\ DOMAIN fills = 1 .. Len(fills)
  OBVIOUS
<1>3. DOMAIN lineage = 1 .. Len(fills) /\ \A i \in 1 .. Len(fills) : lineage[i] = reason(fills[i])
  OBVIOUS
<1>. HIDE DEF fills, lineage, reason
<1>4. ToSet(lineage) = {reason(fill) : fill \in ToSet(fills)}
  BY <1>2, <1>3 DEF ToSet
<1>. QED
  BY <1>1, <1>4, Zenon DEF fills, reason

\* Over any market prices and signals, run_paper_portfolio makes no fill that
\* build_fill_lineage cannot explain, unless a strategy sold on its exit signal
\* before the drawdown guard halted the run; and the final equity of a run that
\* was not halted and bought nothing without a signal is the cash reserve with
\* what _sleeve_returns says its sleeves end with.
THEOREM PaperRunExplained ==
    ASSUME NEW weights \in Weights, NEW market, IsMarket(market)
    PROVE  Explained(PaperRun(weights, market), weights, market)
<1>. DEFINE paper == PaperRun(weights, market)
            reason(fill) == Reason(fill, market, paper.halted, paper.last)
            lineage == ToSet(Lineage(paper.fills, market, paper.halted, paper.last))
<1>1. EndsHalted(paper, market) \/ EndsWhole(paper, weights, market)
  BY PaperRunIs
<1>. HIDE DEF paper
<1>2. /\ paper.halted \in BOOLEAN /\ paper.fills \in Seq(FillType)
      /\ \A fill \in ToSet(paper.fills) :
             /\ fill.at \in 1 .. Bars(market)
             /\ \/ HasSignal(fill, market)
                \/ /\ fill.side = "sell"
                   /\ fill.at = IF paper.halted THEN paper.last ELSE Bars(market)
  BY <1>1 DEF EndsHalted, EndsWhole
<1>3. ASSUME NEW fill \in ToSet(paper.fills)
      PROVE  /\ fill \in FillType
             /\ reason(fill) = Refused
                    => paper.halted /\ fill.side = "sell" /\ fill.at # paper.last
             /\ Initial(fill, market) => reason(fill) = "initial_allocation"
  <2>1. fill \in FillType
    BY <1>2 DEF ToSet
  <2>. QED
    BY <1>2, <2>1, ReasonIs
<1>4. lineage = {reason(fill) : fill \in ToSet(paper.fills)}
  BY <1>2, LineageIs
<1>. HIDE DEF lineage, reason
<1>5. ASSUME Refused \in lineage
      PROVE  /\ paper.halted
             /\ \E i \in 1 .. Len(paper.fills) :
                    /\ paper.fills[i].side = "sell"
                    /\ paper.fills[i].at < Last(paper.fills).at
                    /\ market.exit[paper.fills[i].strategy][paper.fills[i].at]
  <2>1. PICK fill \in ToSet(paper.fills) : reason(fill) = Refused
    BY <1>4, <1>5
  <2>2. paper.halted /\ fill.side = "sell" /\ fill.at # paper.last
    BY <1>3, <2>1
  <2>3. EndsHalted(paper, market)
    BY <1>1, <2>2 DEF EndsWhole
  <2>4. /\ fill.at \in 1 .. Bars(market) /\ fill.at <= paper.last /\ HasSignal(fill, market)
        /\ Last(paper.fills).at = paper.last
    BY <2>2, <2>3 DEF EndsHalted
  <2>5. paper.last \in Nat
    <3>1. Last(paper.fills) \in FillType
      BY <1>2, <2>3 DEF EndsHalted, Last
    <3>. QED
      BY <2>4, <3>1 DEF FillType
  <2>6. fill.at < Last(paper.fills).at /\ market.exit[fill.strategy][fill.at]
    <3>1. fill.at \in Nat
      BY <1>3 DEF FillType
    <3>. QED
      BY <2>2, <2>4, <2>5, <3>1 DEF HasSignal
  <2>7. PICK i \in 1 .. Len(paper.fills) : paper.fills[i] = fill
    BY <1>2 DEF ToSet
  <2>. QED
    BY <2>2, <2>6, <2>7
<1>6. ASSUME ~ paper.halted, "initial_allocation" \notin lineage
      PROVE  paper.equity = Reserve(weights)
                          + Total([s \in Strategy |-> Last(Attribution(weights, market)[s])])
  <2>1. EndsWhole(paper, weights, market)
    BY <1>1, <1>6 DEF EndsHalted
  <2>2. ~ \E fill \in ToSet(paper.fills) : Initial(fill, market)
    BY <1>3, <1>4, <1>6
  <2>. QED
    BY <2>1, <2>2 DEF EndsWhole
<1>. QED
  BY <1>5, <1>6, Zenon DEF Explained, lineage, paper
-----------------------------------------------------------------------------
(* The books: the fills posted again, one after the other *)

Posting(c, d, books, fill) == Post(books, fill)
PostFold == INSTANCE FoldTheorems WITH Op <- Posting

LEMMA PostTyped ==
    ASSUME NEW books \in [Strategy -> SleeveType] \union {Refused}, NEW fill \in FillType
    PROVE  Post(books, fill) \in [Strategy -> SleeveType] \union {Refused}
<1>1. CASE books = Refused
  BY <1>1 DEF Post
<1>2. CASE books # Refused
  <2>1. fill.strategy \in Strategy /\ books \in [Strategy -> SleeveType]
    BY <1>2 DEF FillType
  <2>2. Settled(books[fill.strategy], fill) \in SleeveType
    BY <2>1, SettledTyped
  <2>3. [books EXCEPT ![fill.strategy] = Settled(@, fill)] \in [Strategy -> SleeveType]
    BY <2>1, <2>2
  <2>. QED
    BY <2>3 DEF Post
<1>. QED
  BY <1>1, <1>2

\* Posting one fill more is one posting more.
LEMMA PostAppend ==
    ASSUME NEW books \in [Strategy -> SleeveType], NEW fills \in Seq(FillType),
           NEW fill \in FillType
    PROVE  FoldLeft(Post, books, Append(fills, fill)) = Post(FoldLeft(Post, books, fills), fill)
<1>. DEFINE V == [Strategy -> SleeveType] \union {Refused}
            longer == Append(fills, fill)
<1>1. longer \in Seq(FillType) /\ \A k \in 1 .. Len(longer) : longer[k] \in FillType
  OBVIOUS
<1>. HIDE DEF longer
<1>2. PostFold!Closed(0, 0, V, longer)
  BY <1>1, PostTyped DEF PostFold!Closed, Posting
<1>3. PostFold!FoldOf(0, 0, books, longer) = Posting(0, 0, PostFold!FoldOf(0, 0, books, fills), fill)
  <2>1. books \in V
    OBVIOUS
  <2>. HIDE DEF V
  <2>. QED
    BY <1>2, <2>1, PostFold!FoldAppend DEF longer
<1>4. \A seq : PostFold!FoldOf(0, 0, books, seq) = FoldLeft(Post, books, seq)
  BY Zenon DEF PostFold!FoldOf, PostFold!FoldLeft, PostFold!MapThenFoldSet, PostFold!Max,
               FoldLeft, MapThenFoldSet, Max, Posting
<1>. QED
  BY <1>3, <1>4, Zenon DEF Posting, longer

LEMMA PostNothing ==
    ASSUME NEW books \in [Strategy -> SleeveType]
    PROVE  FoldLeft(Post, books, <<>>) = books
<1>. DEFINE fills == <<>>
<1>1. fills \in Seq(FillType) /\ Len(fills) = 0
  OBVIOUS
<1>. HIDE DEF fills
<1>2. PostFold!Closed(0, 0, [Strategy -> SleeveType], fills)
  BY <1>1 DEF PostFold!Closed
<1>3. PICK trace \in [0 .. Len(fills) -> [Strategy -> SleeveType]] :
           PostFold!IsTrace(trace, 0, 0, books, fills)
  BY <1>1, <1>2, PostFold!FoldTrace
<1>4. PostFold!FoldOf(0, 0, books, fills) = FoldLeft(Post, books, fills)
  BY Zenon DEF PostFold!FoldOf, PostFold!FoldLeft, PostFold!MapThenFoldSet, PostFold!Max,
               FoldLeft, MapThenFoldSet, Max, Posting
<1>. QED
  BY <1>1, <1>3, <1>4 DEF PostFold!IsTrace, fills

\* A fill that fits its sleeve: it sells all there is, or buys into an empty
\* sleeve what its cash covers.
Fits(sleeve, fill) ==
    /\ fill.quantity > 0 /\ fill.fee = Fee(fill.quantity, fill.price)
    /\ fill.side = "sell" => fill.quantity = sleeve.position
    /\ fill.side = "buy" => sleeve.position = 0 /\ Cost(fill.quantity, fill.price) <= sleeve.cash

\* A larger quantity costs no less.
LEMMA CostGrows ==
    ASSUME NEW a \in Nat, NEW b \in Nat, a <= b, NEW price \in Nat
    PROVE  Cost(a, price) <= Cost(b, price)
<1>1. PICK e \in Nat : b = a + e
  <2>1. b - a \in Nat /\ b = a + (b - a)
    OBVIOUS
  <2>. QED
    BY <2>1
<1>2. PICK x \in Nat, y \in Nat : a * price = x /\ e * price = y
  OBVIOUS
<1>3. b * price = x + y
  <2>1. (a + e) * price = a * price + e * price
    OBVIOUS
  <2>. QED
    BY <1>1, <1>2, <2>1
<1>4. Commission \in Nat
  BY ExecutionAssumption DEF ExecutionAssumption
<1>5. PICK u \in Nat, v \in Nat : x * Commission = u /\ y * Commission = v
  BY <1>4
<1>6. (x + y) * Commission = u + v
  <2>1. (x + y) * Commission = x * Commission + y * Commission
    BY <1>4
  <2>. QED
    BY <1>5, <2>1
<1>7. u \div 100 <= (u + v) \div 100
  OBVIOUS
<1>8. Fee(a, price) = u \div 100 /\ Fee(b, price) = (u + v) \div 100
  BY <1>2, <1>3, <1>5, <1>6 DEF Fee
<1>9. u \div 100 \in Int /\ (u + v) \div 100 \in Int
  OBVIOUS
<1>. QED
  BY <1>2, <1>3, <1>7, <1>8, <1>9 DEF Cost

LEMMA AffordableCovers ==
    ASSUME NEW cash \in Int, NEW close \in Nat \ {0}, Affordable(cash, close) > 0
    PROVE  Cost(Affordable(cash, close), FillPrice("buy", close)) <= cash
<1>1. PICK price \in Nat \ {0} : FillPrice("buy", close) = price
  BY PricesTyped
<1>2. PICK n \in Int : cash \div price = n
  OBVIOUS
<1>. DEFINE S == {0} \union {q \in 1 .. n : Cost(q, price) <= cash}
<1>3. Affordable(cash, close) = Max(S)
  BY <1>1, <1>2 DEF Affordable
<1>4. \E bound \in Nat : S \in SUBSET (0 .. bound)
  <2>1. CASE n < 0
    <3>1. S \in SUBSET (0 .. 0)
      BY <2>1
    <3>. QED
      BY <3>1
  <2>2. CASE n \in Nat
    <3>1. S \in SUBSET (0 .. n)
      BY <2>2
    <3>. QED
      BY <2>2, <3>1
  <2>. QED
    BY <2>1, <2>2
<1>5. S # {} /\ \A x \in S : x # 0 => Cost(x, price) <= cash
  OBVIOUS
<1>. HIDE DEF S
<1>6. TotalFold!Max(S) \in S
  BY <1>4, <1>5, TotalFold!Maximum
<1>7. TotalFold!Max(S) = Max(S)
  BY Zenon DEF TotalFold!Max, Max
<1>. QED
  BY <1>1, <1>3, <1>5, <1>6, <1>7

\* Every order of a bar fits its sleeve, and is made at a price of the bar.
FitOrder(orders, s, sleeve, market, t) ==
    \/ orders = <<>>
    \/ \E fill \in FillType :
           /\ orders = <<fill>> /\ fill.strategy = s /\ fill.at = t /\ Fits(sleeve, fill)
           /\ fill.price = FillPrice(fill.side, market.close[s][t])

LEMMA OrdersFit ==
    ASSUME NEW s \in Strategy, NEW sleeve \in SleeveType,
           NEW market, IsMarket(market), NEW t \in 1 .. Bars(market), NEW allocate
    PROVE  FitOrder(Orders(s, sleeve, market, t, allocate), s, sleeve, market, t)
<1>. DEFINE close == market.close[s][t]
            desired == Desired(s, sleeve.cash, close)
            affordable == Affordable(sleeve.cash, close)
            quantity == Min({desired, affordable})
            opens == \/ allocate /\ t = 1 /\ sleeve.cash > 0
                     \/ market.entry[s][t]
            buy == Fill(s, "buy", t, quantity, close)
            sell == Fill(s, "sell", t, sleeve.position, close)
            orders == Orders(s, sleeve, market, t, allocate)
<1>1. /\ sleeve.cash \in Int /\ sleeve.position \in Int
      /\ t \in Nat /\ close \in Nat \ {0}
  BY MarketTyped DEF SleeveType
<1>. HIDE DEF close
<1>2. desired \in Int /\ affordable \in Nat
  BY <1>1, DesiredTyped, AffordableTyped
<1>3. quantity \in Int /\ (quantity > 0 => quantity <= affordable)
  <2>. HIDE DEF desired, affordable
  <2>1. \E x \in {desired, affordable} : \A y \in {desired, affordable} : x <= y
    BY <1>2
  <2>2. /\ quantity \in {desired, affordable}
        /\ \A y \in {desired, affordable} : quantity <= y
    BY <2>1 DEF Min
  <2>. QED
    BY <1>2, <2>2
<1>4. orders = IF opens /\ sleeve.position = 0
               THEN IF quantity > 0 THEN <<buy>> ELSE <<>>
               ELSE IF market.exit[s][t] /\ sleeve.position > 0 THEN <<sell>> ELSE <<>>
  BY Zenon DEF Orders, close
<1>. HIDE DEF quantity
<1>5. /\ buy \in FillType /\ buy.strategy = s /\ buy.side = "buy" /\ buy.at = t
      /\ sell \in FillType /\ sell.strategy = s /\ sell.side = "sell" /\ sell.at = t
  BY <1>1, <1>3, FillTyped
<1>6. /\ buy.quantity = quantity /\ buy.price = FillPrice("buy", close)
      /\ buy.fee = Fee(quantity, FillPrice("buy", close))
      /\ sell.quantity = sleeve.position /\ sell.price = FillPrice("sell", close)
      /\ sell.fee = Fee(sleeve.position, FillPrice("sell", close))
  BY DEF Fill
<1>7. quantity > 0 => Cost(quantity, FillPrice("buy", close)) <= sleeve.cash
  <2>. SUFFICES ASSUME quantity > 0
                PROVE  Cost(quantity, FillPrice("buy", close)) <= sleeve.cash
    OBVIOUS
  <2>1. PICK price \in Nat \ {0} : FillPrice("buy", close) = price
    BY <1>1, PricesTyped
  <2>. HIDE DEF affordable
  <2>2. quantity \in Nat /\ quantity <= affordable /\ affordable > 0
    BY <1>2, <1>3
  <2>3. Cost(quantity, price) <= Cost(affordable, price)
    BY <1>2, <2>2, CostGrows
  <2>4. Cost(affordable, price) <= sleeve.cash
    BY <1>1, <2>1, <2>2, AffordableCovers DEF affordable
  <2>5. Cost(quantity, price) \in Int /\ Cost(affordable, price) \in Int
    <3>1. quantity \in Int /\ affordable \in Int /\ price \in Int
      BY <1>2, <1>3
    <3>. QED
      BY <3>1, CostsTyped, Zenon
  <2>. QED
    BY <1>1, <2>1, <2>3, <2>4, <2>5
<1>. HIDE DEF buy, sell, orders
<1>8. CASE opens /\ sleeve.position = 0 /\ quantity > 0
  <2>1. Fits(sleeve, buy) /\ buy.price = FillPrice(buy.side, close) /\ orders = <<buy>>
    BY <1>3, <1>4, <1>5, <1>6, <1>7, <1>8 DEF Fits
  <2>. QED
    BY <1>5, <2>1 DEF FitOrder, orders, close
<1>9. CASE ~ (opens /\ sleeve.position = 0) /\ market.exit[s][t] /\ sleeve.position > 0
  <2>1. Fits(sleeve, sell) /\ sell.price = FillPrice(sell.side, close) /\ orders = <<sell>>
    BY <1>1, <1>4, <1>5, <1>6, <1>9 DEF Fits
  <2>. QED
    BY <1>5, <2>1 DEF FitOrder, orders, close
<1>. QED
  BY <1>4, <1>8, <1>9 DEF FitOrder, orders
\* The amounts of a run are large enough for whole units: the commission does
\* not eat a sale, every member is allocated something, and no close is so
\* low that its sale is rounded down to nothing.
WholeUnits(weights, market) ==
    /\ Commission < 100
    /\ \A s \in Strategy : weights[s] = 0 \/ InitialCash * weights[s] >= 100
    /\ \E s \in Strategy : weights[s] # 0
    /\ \A s \in Strategy, t \in 1 .. Bars(market) : (100 - Slippage) * market.close[s][t] >= 100

Worthless(sleeve) == sleeve.cash <= 0 /\ sleeve.position = 0

\* A fill that fits leaves no short position, and no debt where units are whole.
LEMMA FitsLeaves ==
    ASSUME NEW sleeve \in SleeveType, NEW fill \in FillType, Fits(sleeve, fill)
    PROVE  /\ Settled(sleeve, fill).position >= 0
           /\ fill.side = "sell" => Settled(sleeve, fill).position = 0
           /\ (/\ Commission < 100 /\ sleeve.cash >= 0
               /\ fill.side = "sell" => fill.price > 0)
              => Settled(sleeve, fill).cash >= 0 /\ ~ Worthless(Settled(sleeve, fill))
<1>1. /\ sleeve.cash \in Int /\ sleeve.position \in Int /\ fill.side \in {"buy", "sell"}
      /\ fill.quantity \in Int /\ fill.price \in Int /\ fill.fee \in Int
      /\ fill.quantity > 0 /\ fill.fee = Fee(fill.quantity, fill.price)
  BY DEF SleeveType, FillType, Fits
<1>2. CASE fill.side = "buy"
  <2>1. PICK cost \in Int : Cost(fill.quantity, fill.price) = cost
    BY <1>1, CostsTyped
  <2>2. sleeve.position = 0 /\ cost <= sleeve.cash
    BY <1>2, <2>1 DEF Fits
  <2>3. Settled(sleeve, fill) = [cash |-> sleeve.cash - cost,
                                 position |-> sleeve.position + fill.quantity]
    BY <1>2, <2>1 DEF Settled
  <2>. QED
    BY <1>1, <1>2, <2>2, <2>3 DEF Worthless
<1>3. CASE fill.side = "sell"
  <2>1. fill.quantity = sleeve.position
    BY <1>3 DEF Fits
  <2>2. Settled(sleeve, fill) = [cash |-> sleeve.cash + fill.quantity * fill.price - fill.fee,
                                 position |-> sleeve.position - fill.quantity]
    BY <1>3 DEF Settled
  <2>3. ASSUME Commission < 100, fill.price > 0
        PROVE  fill.quantity * fill.price - fill.fee > 0
    <3>1. PICK n \in Nat \ {0} : fill.quantity * fill.price = n
      BY <1>1, <2>3
    <3>2. Commission \in Nat
      BY ExecutionAssumption DEF ExecutionAssumption
    <3>3. PICK m \in Nat : n * Commission = m
      BY <3>2
    <3>4. m <= 99 * n
      <4>1. PICK rest \in Nat : n * (99 - Commission) = rest
        <5>1. 99 - Commission \in Nat
          BY <2>3, <3>2
        <5>. QED
          BY <5>1
      <4>2. n * (99 - Commission) = 99 * n - n * Commission
        BY <3>2
      <4>. QED
        BY <3>3, <4>1, <4>2
    <3>5. fill.fee = m \div 100
      BY <1>1, <3>1, <3>3 DEF Fee
    <3>6. m \div 100 < n
      BY <3>4
    <3>. QED
      BY <3>1, <3>5, <3>6
  <2>4. Settled(sleeve, fill).position = 0
    BY <1>1, <2>1, <2>2
  <2>5. PICK worth \in Int : fill.quantity * fill.price = worth
    BY <1>1
  <2>6. Settled(sleeve, fill).cash = sleeve.cash + worth - fill.fee
    BY <2>2, <2>5
  <2>. QED
    BY <1>1, <1>3, <2>3, <2>4, <2>5, <2>6 DEF Worthless
<1>. QED
  BY <1>1, <1>2, <1>3

\* The books of a run that has got to bar k: its fills, posted in order, give
\* its sleeves.
Booked(run, k, weights, market) ==
    /\ run \in RunType
    /\ FoldLeft(Post, Opening(weights).sleeves, run.fills) = run.sleeves
    /\ \A i, j \in 1 .. Len(run.fills) : i <= j => run.fills[i].at <= run.fills[j].at
    /\ \A i \in 1 .. Len(run.fills) :
           /\ run.fills[i].at <= k
           /\ run.fills[i].fee = Fee(run.fills[i].quantity, run.fills[i].price)
    /\ \A s \in Strategy :
           /\ run.sleeves[s].position >= 0
           /\ WholeUnits(weights, market)
              => /\ run.sleeves[s].cash >= 0
                 /\ weights[s] # 0 => ~ Worthless(run.sleeves[s])

\* Only the fills and the sleeves matter.
LEMMA BookedSame ==
    ASSUME NEW run, NEW k, NEW weights, NEW market, Booked(run, k, weights, market),
           NEW q \in RunType, q.fills = run.fills, q.sleeves = run.sleeves
    PROVE  Booked(q, k, weights, market)
BY DEF Booked

LEMMA BookedLater ==
    ASSUME NEW k \in Nat, NEW run, NEW weights, NEW market, Booked(run, k, weights, market)
    PROVE  Booked(run, k + 1, weights, market)
<1>1. ASSUME NEW i \in 1 .. Len(run.fills)
      PROVE  run.fills[i].at <= k + 1
  <2>1. run.fills[i] \in FillType /\ run.fills[i].at <= k
    BY DEF Booked, RunType
  <2>2. run.fills[i].at \in Nat
    BY <2>1 DEF FillType
  <2>. QED
    BY <2>1, <2>2
<1>. QED
  BY <1>1 DEF Booked

LEMMA TradedBooked ==
    ASSUME NEW k \in Nat, NEW run, NEW weights \in Weights, NEW market,
           Booked(run, k, weights, market),
           NEW fill \in FillType, Fits(run.sleeves[fill.strategy], fill), fill.at = k,
           WholeUnits(weights, market) /\ fill.side = "sell" => fill.price > 0
    PROVE  Booked(Traded(run, fill), k, weights, market)
<1>. DEFINE s == fill.strategy
            sleeve == run.sleeves[s]
            q == Traded(run, fill)
            opening == Opening(weights).sleeves
            n == Len(run.fills)
<1>1. /\ run \in RunType /\ run.fills \in Seq(FillType) /\ run.sleeves \in [Strategy -> SleeveType]
      /\ s \in Strategy /\ sleeve \in SleeveType /\ n \in Nat
  BY DEF Booked, RunType, FillType
<1>2. opening \in [Strategy -> SleeveType]
  BY OpeningTyped DEF RunType
<1>3. q \in RunType /\ q.sleeves = [run.sleeves EXCEPT ![s] = Settled(sleeve, fill)]
  BY <1>1, TradedIs DEF Visits
<1>4. q.fills = Append(run.fills, fill)
  BY <1>1 DEF Traded, RunType
<1>5. FoldLeft(Post, opening, q.fills) = q.sleeves
  <2>1. FoldLeft(Post, opening, q.fills) = Post(run.sleeves, fill)
    <3>1. FoldLeft(Post, opening, run.fills) = run.sleeves
      BY DEF Booked
    <3>. HIDE DEF opening
    <3>. QED
      BY <1>1, <1>2, <1>4, <3>1, PostAppend
  <2>2. run.sleeves # Refused
    <3>1. Refused \notin [Strategy -> SleeveType]
      BY ExecutionAssumption, Zenon DEF ExecutionAssumption, SleeveType
    <3>. QED
      BY <1>1, <3>1
  <2>3. /\ fill.side = "sell" => ~ (fill.quantity > sleeve.position)
        /\ fill.side = "buy" => ~ (Cost(fill.quantity, fill.price) > sleeve.cash)
    <3>1. /\ sleeve.cash \in Int /\ sleeve.position \in Int
          /\ fill.quantity \in Int /\ fill.price \in Int
      BY <1>1 DEF SleeveType, FillType
    <3>2. Cost(fill.quantity, fill.price) \in Int
      BY <3>1, CostsTyped
    <3>. HIDE DEF sleeve
    <3>3. Fits(sleeve, fill)
      BY DEF sleeve
    <3>. QED
      BY <3>1, <3>2, <3>3 DEF Fits
  <2>4. Post(run.sleeves, fill) = [run.sleeves EXCEPT ![s] = Settled(@, fill)]
    BY <2>2, <2>3 DEF Post
  <2>. QED
    BY <1>3, <2>1, <2>4
<1>6. /\ Len(q.fills) = n + 1 /\ q.fills[n + 1] = fill
      /\ \A i \in 1 .. n : q.fills[i] = run.fills[i] /\ q.fills[i].at \in Nat
  <2>1. \A i \in 1 .. n : run.fills[i].at \in Nat
    <3>1. \A i \in 1 .. n : run.fills[i] \in FillType
      BY <1>1
    <3>2. \A x \in FillType : x.at \in Nat
      BY DEF FillType
    <3>. QED
      BY <3>1, <3>2
  <2>. QED
    BY <1>1, <1>4, <2>1
<1>7. ASSUME NEW i \in 1 .. Len(q.fills)
      PROVE  /\ q.fills[i].at <= k
             /\ q.fills[i].fee = Fee(q.fills[i].quantity, q.fills[i].price)
  <2>1. CASE i \in 1 .. n
    BY <1>6, <2>1 DEF Booked
  <2>2. CASE i = n + 1
    <3>1. fill.fee = Fee(fill.quantity, fill.price)
      BY DEF Fits
    <3>. QED
      BY <1>6, <2>2, <3>1
  <2>. QED
    BY <1>1, <1>6, <2>1, <2>2
<1>8. ASSUME NEW i \in 1 .. Len(q.fills), NEW j \in 1 .. Len(q.fills), i <= j
      PROVE  q.fills[i].at <= q.fills[j].at
  <2>. HIDE DEF q
  <2>1. CASE j \in 1 .. n
    <3>1. i \in 1 .. n
      BY <1>1, <1>6, <1>8, <2>1
    <3>. QED
      BY <1>6, <1>8, <2>1, <3>1 DEF Booked
  <2>2. CASE j = n + 1
    BY <1>6, <1>7, <2>2
  <2>. QED
    BY <1>1, <1>6, <2>1, <2>2
<1>9. ASSUME NEW x \in Strategy
      PROVE  /\ q.sleeves[x].position >= 0
             /\ WholeUnits(weights, market)
                => /\ q.sleeves[x].cash >= 0
                   /\ weights[x] # 0 => ~ Worthless(q.sleeves[x])
  <2>1. CASE x = s
    <3>1. q.sleeves[x] = Settled(sleeve, fill)
      BY <1>1, <1>3, <2>1
    <3>2. WholeUnits(weights, market) => Commission < 100 /\ sleeve.cash >= 0
      BY <1>1 DEF WholeUnits, Booked
    <3>. HIDE DEF q
    <3>. QED
      BY <1>1, <3>1, <3>2, FitsLeaves
  <2>2. CASE x # s
    <3>1. q.sleeves[x] = run.sleeves[x]
      BY <1>1, <1>3, <2>2
    <3>. QED
      BY <3>1 DEF Booked
  <2>. QED
    BY <2>1, <2>2
<1>. HIDE DEF q
<1>10. Booked(q, k, weights, market)
  BY <1>3, <1>5, <1>7, <1>8, <1>9 DEF Booked
<1>. QED
  BY <1>10 DEF q

\* A sale of a market of whole units brings something.
LEMMA SalePriced ==
    ASSUME NEW weights, NEW market, IsMarket(market), NEW s \in Strategy,
           NEW t \in 1 .. Bars(market), WholeUnits(weights, market)
    PROVE  FillPrice("sell", market.close[s][t]) > 0
<1>1. Slippage \in 0 .. 99 /\ market.close[s][t] \in Nat \ {0}
  BY ExecutionAssumption, MarketTyped DEF ExecutionAssumption
<1>2. PICK n \in Int : (100 - Slippage) * market.close[s][t] = n
  BY <1>1
<1>3. n >= 100
  BY <1>2 DEF WholeUnits
<1>4. FillPrice("sell", market.close[s][t]) = n \div 100
  BY <1>2 DEF FillPrice
<1>. QED
  BY <1>3, <1>4

BookedRuns(k, weights, market) == {run \in RunType : Booked(run, k, weights, market)}

LEMMA TradeBooked ==
    ASSUME NEW weights \in Weights, NEW market, IsMarket(market), NEW k \in 1 .. Bars(market),
           NEW run, Booked(run, k, weights, market)
    PROVE  Booked(Trade(run, market, k), k, weights, market)
<1>. DEFINE K == BookedRuns(k, weights, market)
<1>0. Order \in Seq(Strategy) /\ \A j \in 1 .. Len(Order) : Order[j] \in Strategy
  BY OrderTyped
<1>1. ASSUME NEW r \in K, NEW s \in Strategy
      PROVE  TradingSleeve(market, k, r, s) \in K
  <2>. DEFINE sleeve == r.sleeves[s]
              orders == Orders(s, sleeve, market, k, TRUE)
              q == FoldLeft(Traded, r, orders)
  <2>1. r \in RunType /\ Booked(r, k, weights, market) /\ sleeve \in SleeveType /\ k \in Nat
    BY MarketTyped DEF BookedRuns, RunType
  <2>2. FitOrder(orders, s, sleeve, market, k)
    <3>. HIDE DEF sleeve
    <3>. QED
      BY <2>1, OrdersFit
  <2>. HIDE DEF orders
  <2>3. CASE orders = <<>>
    <3>1. q = r
      BY <2>1, <2>3, TradeFew
    <3>. QED
      BY <2>1, <3>1 DEF TradingSleeve, orders, BookedRuns
  <2>4. ASSUME NEW fill \in FillType, orders = <<fill>>, fill.strategy = s, fill.at = k,
               Fits(sleeve, fill), fill.price = FillPrice(fill.side, market.close[s][k])
        PROVE  TradingSleeve(market, k, r, s) \in K
    <3>1. q = Traded(r, fill)
      BY <2>1, <2>4, TradeFew
    <3>2. WholeUnits(weights, market) /\ fill.side = "sell" => fill.price > 0
      BY <2>4, SalePriced
    <3>3. Booked(Traded(r, fill), k, weights, market)
      BY <2>1, <2>4, <3>2, TradedBooked
    <3>. HIDE DEF q
    <3>4. q \in K
      BY <3>1, <3>3 DEF Booked, BookedRuns
    <3>. QED
      BY <3>4, Zenon DEF q, orders, TradingSleeve
  <2>. QED
    BY <2>2, <2>3, <2>4 DEF FitOrder
<1>2. run \in K
  BY DEF Booked, BookedRuns
<1>. HIDE DEF K
<1>3. SleevesFold!Closed(market, k, K, Order)
  BY <1>0, <1>1 DEF SleevesFold!Closed
<1>4. PICK trace \in [0 .. Len(Order) -> K] : SleevesFold!IsTrace(trace, market, k, run, Order)
  BY <1>0, <1>2, <1>3, SleevesFold!FoldTrace
<1>5. SleevesFold!FoldOf(market, k, run, Order) = Trade(run, market, k)
  BY Zenon DEF SleevesFold!FoldOf, SleevesFold!FoldLeft, SleevesFold!MapThenFoldSet,
               SleevesFold!Max, Trade, FoldLeft, MapThenFoldSet, Max, TradingSleeve
<1>6. Trade(run, market, k) \in K
  <2>1. Len(Order) \in 0 .. Len(Order)
    BY OrderTyped
  <2>. QED
    BY <1>4, <1>5, <2>1 DEF SleevesFold!IsTrace
<1>. QED
  BY <1>6 DEF K, BookedRuns

LEMMA LiquidateBooked ==
    ASSUME NEW weights \in Weights, NEW market, IsMarket(market), NEW k \in 1 .. Bars(market),
           NEW run, Booked(run, k, weights, market)
    PROVE  /\ Booked(Liquidate(run, market, k), k, weights, market)
           /\ HoldsNothing(Liquidate(run, market, k))
           /\ Same(run, Liquidate(run, market, k))
<1>. DEFINE K == BookedRuns(k, weights, market)
<1>0. Order \in Seq(Strategy) /\ \A j \in 1 .. Len(Order) : Order[j] \in Strategy
  BY OrderTyped
<1>1. ASSUME NEW r \in K, NEW s \in Strategy
      PROVE  SellingSleeve(market, k, r, s) \in K
  <2>. DEFINE sleeve == r.sleeves[s]
              sale == SaleOf(s, r, market, k)
              close == market.close[s][k]
  <2>1. r \in RunType /\ Booked(r, k, weights, market) /\ sleeve \in SleeveType /\ k \in Nat
    BY MarketTyped DEF BookedRuns, RunType
  <2>2. CASE sleeve.position = 0
    BY <2>1, <2>2 DEF SellingSleeve, BookedRuns
  <2>3. CASE sleeve.position # 0
    <3>1. sleeve.position \in Int /\ sleeve.position > 0 /\ close \in Nat \ {0}
      BY <2>1, <2>3, MarketTyped DEF SleeveType, Booked
    <3>2. /\ sale \in FillType /\ sale.strategy = s /\ sale.side = "sell" /\ sale.at = k
      <4>. HIDE DEF close
      <4>1. sale = Fill(s, "sell", k, sleeve.position, close)
        BY DEF SaleOf, close
      <4>. HIDE DEF sale, sleeve
      <4>. QED
        BY <2>1, <3>1, <4>1, FillTyped
    <3>3. /\ sale.quantity = sleeve.position /\ sale.price = FillPrice("sell", close)
          /\ sale.fee = Fee(sleeve.position, FillPrice("sell", close))
      BY DEF SaleOf, Fill
    <3>. HIDE DEF sale
    <3>4. Fits(sleeve, sale)
      <4>. HIDE DEF sleeve
      <4>. QED
        BY <3>1, <3>2, <3>3 DEF Fits
    <3>5. WholeUnits(weights, market) => sale.price > 0
      BY <3>3, SalePriced
    <3>6. Booked(Traded(r, sale), k, weights, market)
      BY <2>1, <3>2, <3>4, <3>5, TradedBooked
    <3>7. SellingSleeve(market, k, r, s) = Traded(r, sale)
      BY <2>3 DEF SellingSleeve, sale
    <3>. QED
      BY <3>6, <3>7 DEF Booked, BookedRuns
  <2>. QED
    BY <2>2, <2>3
<1>2. run \in K
  BY DEF Booked, BookedRuns
<1>. HIDE DEF K
<1>3. SalesFold!Closed(market, k, K, Order)
  BY <1>0, <1>1 DEF SalesFold!Closed
<1>4. PICK trace \in [0 .. Len(Order) -> K] : SalesFold!IsTrace(trace, market, k, run, Order)
  BY <1>0, <1>2, <1>3, SalesFold!FoldTrace
<1>5. SalesFold!FoldOf(market, k, run, Order) = Liquidate(run, market, k)
  BY Zenon DEF SalesFold!FoldOf, SalesFold!FoldLeft, SalesFold!MapThenFoldSet,
               SalesFold!Max, Liquidate, FoldLeft, MapThenFoldSet, Max, SellingSleeve, SaleOf
<1>6. Liquidate(run, market, k) \in K
  <2>1. Len(Order) \in 0 .. Len(Order)
    BY OrderTyped
  <2>. QED
    BY <1>4, <1>5, <2>1 DEF SalesFold!IsTrace
<1>. DEFINE sleeves == [s \in Strategy |-> Sold(s, run.sleeves[s], market, k)]
<1>7. Visited(run, Liquidate(run, market, k), sleeves, SalesOf(run, market, k))
  BY LiquidateIs DEF Booked
<1>8. ASSUME NEW s \in Strategy
      PROVE  Liquidate(run, market, k).sleeves[s].position = 0
  <2>1. Liquidate(run, market, k).sleeves[s] = Sold(s, run.sleeves[s], market, k)
    <3>1. sleeves[s] = Sold(s, run.sleeves[s], market, k)
      OBVIOUS
    <3>. HIDE DEF sleeves
    <3>. QED
      BY <1>7, <3>1 DEF Visited
  <2>2. run.sleeves[s].position \in Int
    BY DEF Booked, RunType, SleeveType
  <2>3. Sold(s, run.sleeves[s], market, k).position = 0
    BY <2>2 DEF Sold, Settled, Fill
  <2>. QED
    BY <2>1, <2>3
<1>. HIDE DEF sleeves
<1>9. Same(run, Liquidate(run, market, k))
  BY <1>7 DEF Visited
<1>. QED
  BY <1>6, <1>8, <1>9 DEF K, BookedRuns, HoldsNothing

\* What holds of a run after k bars: its books, and that a halt sold everything.
Kept(run, k, weights, market) ==
    /\ Booked(run, k, weights, market)
    /\ run.reserve = Reserve(weights)
    /\ run.last \in IF k = 0 THEN {0} ELSE 1 .. k
    /\ run.halted \in BOOLEAN /\ (run.halted => k > 0 /\ HoldsNothing(run))

LEMMA BarKept ==
    ASSUME NEW weights \in Weights, NEW market, IsMarket(market), NEW k \in 1 .. Bars(market),
           NEW run, Kept(run, k - 1, weights, market)
    PROVE  Kept(Bar(run, market, k), k, weights, market)
<1>0. k \in Nat \ {0} /\ k - 1 \in Nat /\ (k - 1) + 1 = k
  BY DEF IsMarket
<1>1. Booked(run, k, weights, market)
  <2>1. Booked(run, (k - 1) + 1, weights, market)
    BY <1>0, BookedLater DEF Kept
  <2>. QED
    BY <1>0, <2>1
<1>2. CASE run.halted
  <2>1. Bar(run, market, k) = run
    BY <1>2 DEF Bar
  <2>2. run.last \in 1 .. k
    BY <1>0, <1>2 DEF Kept
  <2>3. run.last \in IF k = 0 THEN {0} ELSE 1 .. k
    BY <1>0, <2>2
  <2>4. run.reserve = Reserve(weights) /\ run.halted = TRUE /\ k > 0 /\ HoldsNothing(run)
    BY <1>0, <1>2 DEF Kept
  <2>5. Kept(run, k, weights, market)
    BY <1>1, <2>3, <2>4, Zenon DEF Kept
  <2>. QED
    BY <2>1, <2>5
<1>3. CASE ~ run.halted
  <2>. DEFINE traded == Trade(run, market, k)
              equity == Equity(traded, market, k)
              peak == Max({traded.peak, equity})
              marked == Marked(traded, traded.peak, equity)
              sold == Liquidate(marked, market, k)
              q == Check(traded, market, k)
  <2>1. Booked(traded, k, weights, market)
    BY <1>1, TradeBooked
  <2>2. traded \in RunType /\ Same(run, traded)
    <3>1. run \in RunType
      BY <1>1 DEF Booked
    <3>. QED
      BY <3>1, TradeLeaves DEF Trades
  <2>3. q = [(IF marked.halted THEN sold ELSE marked) EXCEPT !.last = k]
    BY Zenon DEF Check, Guarded
  <2>4. marked = [traded EXCEPT !.peak = peak, !.halted = Breached(peak, equity)]
    BY Zenon DEF Marked
  <2>5. equity \in Int /\ traded.peak \in Int
    BY <2>2, EquityTyped DEF RunType
  <2>6. peak \in Int /\ Breached(peak, equity) \in BOOLEAN
    BY <2>5, MaximumOfTwo DEF Breached
  <2>. HIDE DEF traded, equity, peak, marked
  <2>7. /\ marked \in RunType /\ marked.fills = traded.fills /\ marked.sleeves = traded.sleeves
        /\ marked.reserve = traded.reserve /\ marked.halted \in BOOLEAN
    BY <2>2, <2>4, <2>6 DEF RunType
  <2>8. Booked(marked, k, weights, market)
    BY <2>1, <2>7, BookedSame
  <2>9. Booked(sold, k, weights, market) /\ HoldsNothing(sold) /\ Same(marked, sold)
    BY <2>8, LiquidateBooked
  <2>10. sold \in RunType
    BY <2>9 DEF Booked
  <2>11. marked.reserve = Reserve(weights)
    BY <2>2, <2>7 DEF Kept, Same
  <2>. HIDE DEF sold
  <2>12. ASSUME NEW r \in RunType, Booked(r, k, weights, market), r.reserve = Reserve(weights),
                r.halted => HoldsNothing(r), q = [r EXCEPT !.last = k]
         PROVE  Kept(q, k, weights, market)
    <3>. HIDE DEF q
    <3>1. /\ q \in RunType /\ q.fills = r.fills /\ q.sleeves = r.sleeves /\ q.last = k
          /\ q.halted = r.halted /\ q.reserve = r.reserve /\ q.halted \in BOOLEAN
      BY <1>0, <2>12 DEF RunType
    <3>2. Booked(q, k, weights, market)
      BY <2>12, <3>1, BookedSame
    <3>3. q.halted => HoldsNothing(q)
      BY <2>12, <3>1 DEF HoldsNothing
    <3>4. q.last \in IF k = 0 THEN {0} ELSE 1 .. k
      BY <1>0, <3>1
    <3>. QED
      BY <1>0, <2>12, <3>1, <3>2, <3>3, <3>4 DEF Kept
  <2>13. Kept(q, k, weights, market)
    <3>. HIDE DEF q
    <3>1. CASE marked.halted
      BY <2>3, <2>9, <2>10, <2>11, <2>12, <3>1 DEF Same
    <3>2. CASE ~ marked.halted
      BY <2>3, <2>7, <2>8, <2>11, <2>12, <3>2
    <3>. QED
      BY <3>1, <3>2
  <2>14. Bar(run, market, k) = q
    BY <1>3 DEF Bar, traded
  <2>. HIDE DEF q
  <2>. QED
    BY <2>13, <2>14
<1>. QED
  BY <1>2, <1>3

LEMMA OpeningKept ==
    ASSUME NEW weights \in Weights, NEW market
    PROVE  Kept(Opening(weights), 0, weights, market)
<1>. DEFINE run == Opening(weights)
<1>1. /\ run \in RunType /\ run.fills = <<>> /\ run.reserve = Reserve(weights)
      /\ run.last = 0 /\ run.halted = FALSE
      /\ \A s \in Strategy : run.sleeves[s] = [cash |-> Allocated(weights)[s], position |-> 0]
  BY OpeningTyped DEF Opening
<1>. HIDE DEF run
<1>2. FoldLeft(Post, run.sleeves, run.fills) = run.sleeves
  BY <1>1, PostNothing DEF RunType
<1>3. ASSUME NEW s \in Strategy
      PROVE  /\ run.sleeves[s].position >= 0
             /\ WholeUnits(weights, market)
                => /\ run.sleeves[s].cash >= 0
                   /\ weights[s] # 0 => ~ Worthless(run.sleeves[s])
  <2>1. run.sleeves[s].cash = (InitialCash * weights[s]) \div 100 /\ run.sleeves[s].position = 0
    <3>1. Allocated(weights)[s] = (InitialCash * weights[s]) \div 100
      BY Zenon DEF Allocated
    <3>2. run.sleeves[s] = [cash |-> Allocated(weights)[s], position |-> 0]
      BY <1>1, Zenon
    <3>. QED
      BY <3>1, <3>2
  <2>2. PICK n \in Int : InitialCash * weights[s] = n
    <3>1. weights[s] \in 0..100
      BY DEF Weights
    <3>2. \A x \in 0..100 : InitialCash * x \in Int
      BY ExecutionAssumption DEF ExecutionAssumption
    <3>. QED
      BY <3>1, <3>2
  <2>3. WholeUnits(weights, market) => n >= 100 \/ weights[s] = 0
    BY <2>2 DEF WholeUnits
  <2>4. n >= 100 => n \div 100 > 0
    OBVIOUS
  <2>5. n \div 100 \in Int /\ (n = 0 => n \div 100 = 0)
    OBVIOUS
  <2>6. weights[s] = 0 => n = 0
    BY <2>2, ExecutionAssumption DEF ExecutionAssumption
  <2>. QED
    BY <2>1, <2>2, <2>3, <2>4, <2>5, <2>6 DEF Worthless
<1>4. Len(run.fills) = 0
  BY <1>1
<1>5. Booked(run, 0, weights, market)
  BY <1>1, <1>2, <1>3, <1>4 DEF Booked, run
<1>. QED
  BY <1>1, <1>5 DEF Kept, run

\* The books of every run, at the end of the sample or at its halt.
LEMMA RunKept ==
    ASSUME NEW weights \in Weights, NEW market, IsMarket(market)
    PROVE  \E run : /\ PaperRun(weights, market) = Result(Ended(run, market), market)
                    /\ Kept(run, Bars(market), weights, market)
<1>. DEFINE n == Bars(market)
            bars == [t \in 1 .. n |-> t]
            I == [k \in 0 .. n |-> {run \in RunType : Kept(run, k, weights, market)}]
            run == BarFold!FoldOf(market, 0, Opening(weights), bars)
<1>0. /\ n \in Nat \ {0} /\ bars \in Seq(1 .. n) /\ Len(bars) = n
      /\ \A t \in 1 .. n : bars[t] = t
  BY DEF IsMarket
<1>1. PaperRun(weights, market) = Result(Ended(run, market), market)
  BY Zenon DEF BarFold!FoldOf, BarFold!FoldLeft, BarFold!MapThenFoldSet, BarFold!Max,
               PaperRun, FoldLeft, MapThenFoldSet, Max, Barring
<1>2. BarFold!Closed(market, 0, RunType, bars)
  <2>. HIDE DEF bars
  <2>. QED
    BY <1>0, BarTyped DEF BarFold!Closed, Barring
<1>3. Opening(weights) \in I[0]
  <2>1. 0 \in 0 .. n
    BY <1>0
  <2>. QED
    BY <2>1, OpeningKept, OpeningTyped
<1>4. ASSUME NEW k \in 1 .. n, NEW r \in I[k - 1]
      PROVE  Bar(r, market, k) \in I[k]
  <2>1. k - 1 \in 0 .. n /\ k \in 0 .. n /\ k \in 1 .. Bars(market)
    BY <1>0
  <2>2. r \in RunType /\ Kept(r, k - 1, weights, market)
    BY <2>1
  <2>3. Bar(r, market, k) \in RunType
    BY <2>1, <2>2, BarTyped
  <2>4. Kept(Bar(r, market, k), k, weights, market)
    BY <2>1, <2>2, BarKept
  <2>. QED
    BY <2>1, <2>3, <2>4
<1>5. I \in [0 .. n -> SUBSET RunType]
  OBVIOUS
<1>. HIDE DEF n, bars, I
<1>6. run \in I[n]
  <2>1. \A k \in 1 .. Len(bars) : \A r \in I[k - 1] : Barring(market, 0, r, bars[k]) \in I[k]
    BY <1>0, <1>4 DEF Barring
  <2>. QED
    BY <1>0, <1>2, <1>3, <1>5, <2>1, BarFold!FoldInduction
<1>7. Kept(run, n, weights, market)
  <2>1. n \in 0 .. n
    BY <1>0
  <2>. HIDE DEF run
  <2>. QED
    BY <1>6, <2>1 DEF I
<1>. QED
  BY <1>1, <1>7 DEF n

LEMMA TotalIsPositive ==
    ASSUME NEW f \in [Strategy -> Nat], NEW one \in Strategy, f[one] > 0
    PROVE  Total(f) > 0
<1>0. Order \in Seq(Strategy) /\ Len(Order) \in Nat
  BY OrderTyped
<1>1. \A k \in 1 .. Len(Order) : f[Order[k]] \in Nat
  BY OrderTyped
<1>2. PICK i \in 1 .. Len(Order) : Order[i] = one
  BY DEF Strategy, ToSet
<1>. DEFINE I == [k \in 0 .. Len(Order) |-> {x \in Nat : k >= i => x > 0}]
<1>3. TotalFold!Closed(f, 0, Nat, Order)
  BY <1>1 DEF TotalFold!Closed, Totalling
<1>4. I \in [0 .. Len(Order) -> SUBSET Nat] /\ 0 \in I[0]
  BY <1>0
<1>5. ASSUME NEW k \in 1 .. Len(Order), NEW x \in I[k - 1]
      PROVE  Totalling(f, 0, x, Order[k]) \in I[k]
  <2>1. x \in Nat /\ (k - 1 >= i => x > 0) /\ k \in Int /\ i \in Int
    BY <1>0
  <2>2. f[Order[k]] \in Nat /\ (k = i => f[Order[k]] > 0)
    BY <1>1, <1>2
  <2>3. x + f[Order[k]] \in Nat /\ (k >= i => x + f[Order[k]] > 0)
    BY <2>1, <2>2
  <2>. QED
    BY <2>3 DEF Totalling
<1>. HIDE DEF I
<1>6. TotalFold!FoldOf(f, 0, 0, Order) \in I[Len(Order)]
  BY <1>0, <1>3, <1>4, <1>5, TotalFold!FoldInduction
<1>7. TotalFold!FoldOf(f, 0, 0, Order) = Total(f)
  BY Zenon DEF TotalFold!FoldOf, TotalFold!FoldLeft, TotalFold!MapThenFoldSet, TotalFold!Max,
               Total, FoldLeft, MapThenFoldSet, Max, Totalling
<1>8. Len(Order) \in 0 .. Len(Order) /\ Len(Order) >= i
  BY <1>0
<1>. QED
  BY <1>6, <1>7, <1>8 DEF I

\* The fills of a run, posted in order from its allocations, are what a broker
\* would do and end with its final equity.
LEMMA BooksReconcile ==
    ASSUME NEW weights \in Weights, NEW market, IsMarket(market), WholeUnits(weights, market)
    PROVE  Reconciles(PaperRun(weights, market).fills, weights, PaperRun(weights, market).equity)
<1>. DEFINE n == Bars(market)
            paper == PaperRun(weights, market)
<1>0. n \in Nat \ {0} /\ n \in 1 .. Bars(market)
  BY DEF IsMarket
<1>. HIDE DEF n, paper
<1>1. PICK run : paper = Result(Ended(run, market), market) /\ Kept(run, n, weights, market)
  BY RunKept DEF n, paper
<1>. DEFINE q == Ended(run, market)
<1>2. /\ Booked(q, n, weights, market) /\ HoldsNothing(q)
      /\ q.reserve = Reserve(weights) /\ q.last \in 1 .. Bars(market)
  <2>1. run.last \in 1 .. n /\ run.reserve = Reserve(weights)
    BY <1>0, <1>1 DEF Kept
  <2>2. CASE run.halted
    BY <1>1, <2>1, <2>2 DEF Ended, Kept, n
  <2>3. CASE ~ run.halted
    <3>1. q = Liquidate(run, market, n)
      BY <2>3 DEF Ended, n
    <3>2. /\ Booked(Liquidate(run, market, n), n, weights, market)
          /\ HoldsNothing(Liquidate(run, market, n)) /\ Same(run, Liquidate(run, market, n))
      BY <1>0, <1>1, LiquidateBooked DEF Kept
    <3>. HIDE DEF q
    <3>. QED
      BY <2>1, <3>1, <3>2 DEF Same, n
  <2>. QED
    BY <2>2, <2>3
<1>3. paper.fills = q.fills /\ paper.equity = Equity(q, market, q.last)
  BY <1>1 DEF Result
<1>. HIDE DEF q
<1>4. q \in RunType
  BY <1>2 DEF Booked
<1>. DEFINE cash == [s \in Strategy |-> q.sleeves[s].cash]
<1>5. paper.equity = Reserve(weights) + Total(cash)
  <2>1. paper.equity = Flat(q)
    BY <1>2, <1>3, <1>4, EquityTyped
  <2>. QED
    BY <1>2, <2>1, Zenon DEF Flat
<1>6. /\ cash \in [Strategy -> Nat]
      /\ \E s \in Strategy : cash[s] > 0
  <2>1. ASSUME NEW s \in Strategy
        PROVE  q.sleeves[s].cash \in Nat /\ (weights[s] # 0 => q.sleeves[s].cash > 0)
    <3>1. q.sleeves[s].cash \in Int /\ q.sleeves[s].position = 0
      BY <1>2, <1>4 DEF RunType, SleeveType, HoldsNothing
    <3>2. q.sleeves[s].cash >= 0 /\ (weights[s] # 0 => ~ Worthless(q.sleeves[s]))
      BY <1>2 DEF Booked
    <3>. QED
      BY <3>1, <3>2 DEF Worthless
  <2>2. \E s \in Strategy : weights[s] # 0
    BY DEF WholeUnits
  <2>. QED
    BY <2>1, <2>2, Zenon
<1>7. Reserve(weights) \in Int
  BY <1>2, <1>4 DEF RunType
<1>8. Total(cash) \in Int /\ Total(cash) > 0
  <2>. HIDE DEF cash
  <2>1. cash \in [Strategy -> Int]
    BY <1>6
  <2>. QED
    BY <1>6, <2>1, TotalIsInt, TotalIsPositive
<1>9. FoldLeft(Post, Opening(weights).sleeves, q.fills) = q.sleeves
  BY <1>2 DEF Booked
<1>10. Balanced(q.sleeves, paper.equity - Reserve(weights))
  <2>1. q.sleeves # Refused
    <3>1. Refused \notin [Strategy -> SleeveType]
      BY ExecutionAssumption, Zenon DEF ExecutionAssumption, SleeveType
    <3>. QED
      BY <1>4, <3>1 DEF RunType
  <2>2. Total([s \in Strategy |-> q.sleeves[s].cash]) = paper.equity - Reserve(weights)
    <3>1. Total(cash) = paper.equity - Reserve(weights)
      <4>. HIDE DEF cash
      <4>. QED
        BY <1>5, <1>7, <1>8
    <3>. QED
      BY <3>1, Zenon
  <2>. HIDE DEF cash
  <2>. QED
    BY <1>2, <2>1, <2>2, Zenon DEF Balanced, HoldsNothing
<1>11. paper.equity > Reserve(weights)
  <2>. HIDE DEF cash
  <2>. QED
    BY <1>5, <1>7, <1>8
<1>12. /\ \A i, j \in 1 .. Len(q.fills) : i <= j => q.fills[i].at <= q.fills[j].at
       /\ \A i \in 1 .. Len(q.fills) : q.fills[i].fee = Fee(q.fills[i].quantity, q.fills[i].price)
  BY <1>2 DEF Booked
<1>. HIDE DEF cash
<1>13. Reconciles(q.fills, weights, paper.equity)
  BY <1>9, <1>10, <1>11, <1>12, Zenon DEF Reconciles
<1>. QED
  BY <1>3, <1>13 DEF paper

\* What verify_persisted_portfolio_run takes for the halt is where the run was
\* halted.
HaltOf(paper) == IF paper.halted /\ paper.fills # <<>> THEN Last(paper.fills).at ELSE 0

LEMMA LineageReproduces ==
    ASSUME NEW weights \in Weights, NEW market, IsMarket(market)
    PROVE  LET paper == PaperRun(weights, market)
           IN  Lineage(paper.fills, market, paper.halted, paper.last)
                   = Lineage(paper.fills, market, paper.halted, HaltOf(paper))
<1>. DEFINE paper == PaperRun(weights, market)
<1>1. EndsHalted(paper, market) \/ EndsWhole(paper, weights, market)
  BY PaperRunIs
<1>. HIDE DEF paper
<1>2. CASE EndsHalted(paper, market)
  <2>1. HaltOf(paper) = paper.last
    BY <1>2 DEF EndsHalted, HaltOf
  <2>. QED
    BY <2>1 DEF paper
<1>3. CASE EndsWhole(paper, weights, market)
  <2>1. paper.halted = FALSE
    BY <1>3 DEF EndsWhole
  <2>2. \A fill, a, b : Reason(fill, market, FALSE, a) = Reason(fill, market, FALSE, b)
    BY DEF Reason
  <2>3. \A a, b : Lineage(paper.fills, market, FALSE, a) = Lineage(paper.fills, market, FALSE, b)
    BY <2>2, Zenon DEF Lineage
  <2>. QED
    BY <2>1, <2>3 DEF paper
<1>. QED
  BY <1>1, <1>2, <1>3

\* Over any market prices and signals of whole units, validate_execution_ledger
\* accepts the ledger run_paper_portfolio leaves, and verify_fill_lineage finds
\* the reasons build_fill_lineage had given, halted or not.
THEOREM PaperRunReplays ==
    ASSUME NEW weights \in Weights, NEW market, IsMarket(market), WholeUnits(weights, market)
    PROVE  LET paper == PaperRun(weights, market)
           IN  /\ Reconciles(paper.fills, weights, paper.equity)
               /\ Lineage(paper.fills, market, paper.halted, paper.last)
                      = Lineage(paper.fills, market, paper.halted, HaltOf(paper))
BY BooksReconcile, LineageReproduces, Zenon
=============================================================================
