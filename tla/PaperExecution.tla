--------------------------- MODULE PaperExecution ---------------------------
(***************************************************************************)
(* The paper run of a portfolio and everything recomputed from its ledger: *)
(* isolated brokers per strategy, the drawdown guard, the reasons of the   *)
(* fills, the accounting replay and the sleeve replay of the attribution   *)
(* (paper.py, paper_risk.py, portfolio_paper.py, execution_lineage.py,     *)
(* ledger_replay.py, portfolio_executor.py).                               *)
(*                                                                         *)
(* Abstractions: money, prices and quantities are integers, a quantity is  *)
(* rounded down, and costs are percentages; timestamps are 1..Len; market  *)
(* data, weights and cost parameters are valid.                            *)
(***************************************************************************)
EXTENDS Integers, Sequences, SequencesExt, FiniteSetsExt

CONSTANTS
    Order,          \* the strategies, in the order the brokers are visited
    MaxPosition,    \* position_sizing.max_position of each, in percent
    InitialCash, Commission, Slippage,
    DrawdownLimit,  \* in percent
    Unlimited,      \* no drawdown limit
    Refused         \* raised instead of a reason or of books

Strategy == ToSet(Order)

ExecutionAssumption ==
    /\ Order \in Seq(ToSet(Order)) /\ Order # <<>> /\ IsInjective(Order)
    /\ MaxPosition \in [Strategy -> 1..100]
    /\ InitialCash \in Nat \ {0} /\ Commission \in Nat /\ Slippage \in 0..99
    /\ DrawdownLimit \in 1..99 \/ DrawdownLimit = Unlimited
    /\ Refused \notin {"risk_halt", "entry_signal", "initial_allocation",
                       "exit_signal", "end_of_sample"}
    /\ Refused \notin [Strategy -> [cash : Int, position : Int]]
ASSUME ExecutionAssumption

(***************************************************************************)
(* The broker.  A sleeve is the cash and the position of one strategy.     *)
(***************************************************************************)
Total(f) == FoldLeft(LAMBDA sum, s : sum + f[s], 0, Order)

FillPrice(side, close) ==
    ((IF side = "buy" THEN 100 + Slippage ELSE 100 - Slippage) * close) \div 100
Fee(quantity, price) == (quantity * price * Commission) \div 100
Cost(quantity, price) == quantity * price + Fee(quantity, price)

\* The largest quantity whose cost the cash covers.
Affordable(cash, close) ==
    LET price == FillPrice("buy", close)
    IN  Max({0} \union {q \in 1..(cash \div price) : Cost(q, price) <= cash})

Desired(s, cash, close) == (cash * MaxPosition[s]) \div (100 * close)

Fill(s, side, at, quantity, close) ==
    [strategy |-> s, side |-> side, at |-> at, quantity |-> quantity,
     price |-> FillPrice(side, close), fee |-> Fee(quantity, FillPrice(side, close))]

Settled(sleeve, fill) ==
    IF fill.side = "buy"
    THEN [cash |-> sleeve.cash - Cost(fill.quantity, fill.price),
          position |-> sleeve.position + fill.quantity]
    ELSE [cash |-> sleeve.cash + fill.quantity * fill.price - fill.fee,
          position |-> sleeve.position - fill.quantity]

\* What one sleeve does at one bar, as at most one fill; "allocate" says that
\* the first bar buys without a signal.
Orders(s, sleeve, market, t, allocate) ==
    LET close == market.close[s][t]
        quantity == Min({Desired(s, sleeve.cash, close), Affordable(sleeve.cash, close)})
        opens == \/ allocate /\ t = 1 /\ sleeve.cash > 0
                 \/ market.entry[s][t]
    IN  IF opens /\ sleeve.position = 0
        THEN IF quantity > 0 THEN <<Fill(s, "buy", t, quantity, close)>> ELSE <<>>
        ELSE IF market.exit[s][t] /\ sleeve.position > 0
             THEN <<Fill(s, "sell", t, sleeve.position, close)>> ELSE <<>>

(***************************************************************************)
(* The run of a portfolio.                                                 *)
(***************************************************************************)
Bars(market) == Len(market.close[Order[1]])

\* Positive closes and the signals of every strategy at the same timestamps.
IsMarket(market) ==
    /\ Bars(market) \in Nat \ {0}
    /\ market.close \in [Strategy -> [1..Bars(market) -> Nat \ {0}]]
    /\ market.entry \in [Strategy -> [1..Bars(market) -> BOOLEAN]]
    /\ market.exit \in [Strategy -> [1..Bars(market) -> BOOLEAN]]

Allocated(weights) == [s \in Strategy |-> (InitialCash * weights[s]) \div 100]
Reserve(weights) == InitialCash - Total(Allocated(weights))

Traded(run, fill) ==
    [run EXCEPT !.sleeves[fill.strategy] = Settled(@, fill), !.fills = Append(@, fill)]

Trade(run, market, t) ==
    FoldLeft(LAMBDA r, s : FoldLeft(Traded, r, Orders(s, r.sleeves[s], market, t, TRUE)),
             run, Order)

Liquidate(run, market, t) ==
    FoldLeft(LAMBDA r, s :
                 IF r.sleeves[s].position = 0 THEN r
                 ELSE Traded(r, Fill(s, "sell", t, r.sleeves[s].position, market.close[s][t])),
             run, Order)

Equity(run, market, t) ==
    run.reserve + Total([s \in Strategy |-> run.sleeves[s].cash
                                          + run.sleeves[s].position * market.close[s][t]])

\* PaperRiskController.check
Breached(peak, equity) ==
    \/ equity <= 0
    \/ DrawdownLimit # Unlimited /\ 100 * (peak - equity) >= DrawdownLimit * peak

\* After the trades of a bar: mark and check; a refusal liquidates.
Marked(traded, peak, equity) ==
    [traded EXCEPT !.peak = Max({peak, equity}), !.halted = Breached(Max({peak, equity}), equity)]

Guarded(marked, market, t) ==
    [(IF marked.halted THEN Liquidate(marked, market, t) ELSE marked) EXCEPT !.last = t]

Check(traded, market, t) ==
    Guarded(Marked(traded, traded.peak, Equity(traded, market, t)), market, t)

\* A faulty guard that liquidates and then trades on.
BarTradingOn(run, market, t) == Check(Trade(run, market, t), market, t)

\* One bar: trade, mark, check; a halted run has ended.
Bar(run, market, t) == IF run.halted THEN run ELSE Check(Trade(run, market, t), market, t)

Opening(weights) ==
    [sleeves |-> [s \in Strategy |-> [cash |-> Allocated(weights)[s], position |-> 0]],
     reserve |-> Reserve(weights), fills |-> <<>>, peak |-> 0, halted |-> FALSE, last |-> 0]

\* What is left open at the end of the sample is sold.
Ended(run, market) == IF run.halted THEN run ELSE Liquidate(run, market, Bars(market))

Result(run, market) ==
    [fills |-> run.fills, halted |-> run.halted, last |-> run.last,
     equity |-> Equity(run, market, run.last)]

\* run_paper_portfolio
PaperRun(weights, market) ==
    Result(Ended(FoldLeft(LAMBDA run, t : Bar(run, market, t), Opening(weights),
                          [t \in 1..Bars(market) |-> t]), market), market)

(***************************************************************************)
(* What is recomputed from the fills.                                      *)
(***************************************************************************)
\* The decision that authorises a fill; a halted run sells at its halt only.
Reason(fill, market, halted, halt) ==
    LET entry == market.entry[fill.strategy][fill.at]
        exit == market.exit[fill.strategy][fill.at]
    IN  CASE halted /\ fill.side = "sell" ->
                 IF fill.at = halt THEN "risk_halt" ELSE Refused
          [] fill.side = "buy" /\ entry -> "entry_signal"
          [] fill.side = "buy" /\ ~entry /\ fill.at = 1 -> "initial_allocation"
          [] fill.side = "sell" /\ ~halted /\ exit -> "exit_signal"
          [] fill.side = "sell" /\ ~halted /\ ~exit /\ fill.at = Bars(market) -> "end_of_sample"
          [] OTHER -> Refused

\* build_fill_lineage: the reasons, one of them Refused when it raises.
Lineage(fills, market, halted, halt) ==
    [i \in 1..Len(fills) |-> Reason(fills[i], market, halted, halt)]

Post(books, fill) ==
    IF \/ books = Refused
       \/ fill.side = "sell" /\ fill.quantity > books[fill.strategy].position
       \/ fill.side = "buy" /\ Cost(fill.quantity, fill.price) > books[fill.strategy].cash
    THEN Refused ELSE [books EXCEPT ![fill.strategy] = Settled(@, fill)]

Balanced(books, cash) ==
    /\ books # Refused
    /\ \A s \in Strategy : books[s].position = 0
    /\ Total([s \in Strategy |-> books[s].cash]) = cash

\* validate_execution_ledger: replay the fills from the allocations, refuse
\* what no broker would do, end flat and reconcile with the final equity.
Reconciles(fills, weights, equity) ==
    /\ equity > Reserve(weights)
    /\ \A i, j \in 1..Len(fills) : i <= j => fills[i].at <= fills[j].at
    /\ \A i \in 1..Len(fills) : fills[i].fee = Fee(fills[i].quantity, fills[i].price)
    /\ Balanced(FoldLeft(Post, Opening(weights).sleeves, fills), equity - Reserve(weights))

\* A faulty end of the sample that leaves the position open.
LeftOpen(s, sleeve, market, t) == sleeve

\* At the last bar an open sleeve is sold.
Closed(s, sleeve, market, t) ==
    IF t < Bars(market) \/ sleeve.position = 0 THEN sleeve
    ELSE Settled(sleeve, Fill(s, "sell", t, sleeve.position, market.close[s][t]))

Held(play, sleeve, close) ==
    [sleeve |-> sleeve, equity |-> Append(play.equity, sleeve.cash + sleeve.position * close)]

\* _sleeve_returns: the sleeve replayed alone, from its signals, to the end of
\* the sample, as the equity at each bar.
Sleeve(s, weights, market) ==
    FoldLeft(LAMBDA play, t :
                 Held(play, Closed(s, FoldLeft(Settled, play.sleeve,
                                               Orders(s, play.sleeve, market, t, FALSE)),
                                   market, t),
                      market.close[s][t]),
             [sleeve |-> Opening(weights).sleeves[s], equity |-> <<>>],
             [t \in 1..Bars(market) |-> t]).equity

Attribution(weights, market) == [s \in Strategy |-> Sleeve(s, weights, market)]
=============================================================================
