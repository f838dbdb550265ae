-------------------------- MODULE ResearchPlanning --------------------------
(***************************************************************************)
(* From the evidence of one generation to a plan: signals, the director's  *)
(* ranking, the budget (portfolio_feedback.py, research_director.py,       *)
(* research_budget.py, research_planner.py).                               *)
(*                                                                         *)
(* A signal carries its merit, the director's weighted average in          *)
(* thousandths, and its sum, the plain sum the budget divides by.          *)
(***************************************************************************)
EXTENDS Integers, SequencesExt, FiniteSetsExt

CONSTANTS
    StrategyOrder,                      \* the strategies in the order of their ids
    MaxRequests,                        \* ResearchDirectorPolicy
    TotalUnits, MinUnits, MaxUnits      \* ResearchBudgetPolicy

PlanningAssumption ==
    /\ StrategyOrder \in Seq(ToSet(StrategyOrder)) /\ IsInjective(StrategyOrder)
    /\ MaxRequests \in Nat \ {0} /\ TotalUnits \in Nat \ {0}
    /\ MinUnits \in Nat \ {0} /\ MaxUnits \in Nat /\ MaxUnits >= MinUnits
ASSUME PlanningAssumption

\* ResearchReason, in the order of the values.
Reasons == <<"capacity", "degraded", "diversification", "halted">>

\* Merits, in thousandths.
Merits == 0..1000

\* What a plan is built from: scores that are finite and not negative, as
\* build_research_plan makes them and allocate_budget demands.
Evaluation ==
    [strategy : ToSet(StrategyOrder), validated : BOOLEAN, eligible : BOOLEAN,
     simulated : BOOLEAN, novel : BOOLEAN, merit : Merits, sum : Nat]
Intelligence ==
    [selected : Seq(ToSet(StrategyOrder)), admitted : BOOLEAN, correlated : BOOLEAN,
     merit : Merits, sum : Nat]
IsEvidence(evidence) ==
    evidence.evaluations \in Seq(Evaluation) /\ evidence.portfolio \in Intelligence

(***************************************************************************)
(* Signals.                                                                *)
(***************************************************************************)
\* build_research_plan: why the candidate of an evaluation needs research.
ReasonOf(evaluation) ==
    CASE ~evaluation.validated \/ ~evaluation.eligible -> "degraded"
      [] evaluation.validated /\ evaluation.eligible /\ ~evaluation.simulated -> "halted"
      [] evaluation.validated /\ evaluation.eligible /\ evaluation.simulated ->
             IF evaluation.novel THEN "capacity" ELSE "diversification"

\* build_portfolio_feedback: one signal for every selected strategy.
PortfolioReason(portfolio) ==
    CASE ~portfolio.admitted -> "degraded"
      [] portfolio.admitted /\ portfolio.correlated -> "diversification"
      [] portfolio.admitted /\ ~portfolio.correlated -> "capacity"

Signal(s, reason, evidence) ==
    [strategy |-> s, reason |-> reason, merit |-> evidence.merit, sum |-> evidence.sum]

\* The signals of the evaluations, then those of the portfolio, which share
\* one reason and are sorted by strategy: "selected" lists them in that order.
Signals(evidence) ==
    [i \in DOMAIN evidence.evaluations |->
        Signal(evidence.evaluations[i].strategy, ReasonOf(evidence.evaluations[i]),
               evidence.evaluations[i])]
    \o [i \in DOMAIN evidence.portfolio.selected |->
        Signal(evidence.portfolio.selected[i], PortfolioReason(evidence.portfolio),
               evidence.portfolio)]

(***************************************************************************)
(* prioritize: the best signal of each key, by merit, reason and strategy, *)
(* up to the limit.  The id of a request is its key.                       *)
(***************************************************************************)
Key(signal) == <<signal.reason, signal.strategy>>
Keys(signals) == {Key(signals[i]) : i \in DOMAIN signals}
Place(seq, x) == CHOOSE i \in DOMAIN seq : seq[i] = x

Best(signals, key) ==
    Max({signals[i].merit : i \in {j \in DOMAIN signals : Key(signals[j]) = key}})

Ahead(signals, a, b) ==
    LET rank(k) == <<-Best(signals, k), Place(Reasons, k[1]), Place(StrategyOrder, k[2])>>
    IN  \E i \in 1..3 : rank(a)[i] < rank(b)[i] /\ \A j \in 1..i - 1 : rank(a)[j] = rank(b)[j]

\* The sort: the key at place i has i - 1 keys ahead of it.
Ranked(signals) ==
    LET keys == Keys(signals)
    IN  [i \in 1..Cardinality(keys) |->
            CHOOSE k \in keys : Cardinality({a \in keys : Ahead(signals, a, k)}) = i - 1]

Prioritize(signals) ==
    LET ranked == Ranked(signals)
    IN  [i \in 1..Min({MaxRequests, Len(ranked)}) |->
            [id |-> ranked[i], priority |-> 1000 - Best(signals, ranked[i])]]

(***************************************************************************)
(* allocate_budget: proportional shares within the limits of a request,    *)
(* then one unit at a time until the total is met or no request can move.  *)
(***************************************************************************)
Sum(f) == FoldLeft(+, 0, f)

\* A unit of request i is worth scores[i] / units[i]: is i worth less than j?
Cheaper(scores, units, i, j) == scores[i] * units[j] < scores[j] * units[i]

\* A faulty reduction that takes units below the minimum of a request.
ReduceAny(scores, units, ids) ==
    LET i == CHOOSE k \in DOMAIN units : units[k] = Max(ToSet(units))
    IN  [units EXCEPT ![i] = @ - 1]

\* The cheapest unit goes first, the smaller id among equals.
Reduce(scores, units, ids) ==
    LET able == {k \in DOMAIN units : units[k] > MinUnits}
        least(k) == \A j \in able \ {k} :
                        \/ Cheaper(scores, units, k, j)
                        \/ /\ ~Cheaper(scores, units, j, k)
                           /\ \/ Place(Reasons, ids[k][1]) < Place(Reasons, ids[j][1])
                              \/ /\ ids[k][1] = ids[j][1]
                                 /\ Place(StrategyOrder, ids[k][2]) < Place(StrategyOrder, ids[j][2])
    IN  IF able = {} THEN units ELSE [units EXCEPT ![CHOOSE k \in able : least(k)] = @ - 1]

\* The dearest unit is added first, the earlier request among equals.
Grow(scores, units) ==
    LET able == {k \in DOMAIN units : units[k] < MaxUnits}
        most(k) == \A j \in able \ {k} :
                       \/ Cheaper(scores, units, j, k)
                       \/ ~Cheaper(scores, units, k, j) /\ k < j
    IN  IF able = {} THEN units ELSE [units EXCEPT ![CHOOSE k \in able : most(k)] = @ + 1]

Allocate(sums, ids) ==
    LET scores == IF Sum(sums) > 0 THEN sums ELSE [i \in DOMAIN sums |-> 1]
        shares == [i \in DOMAIN sums |->
                      Max({MinUnits, Min({MaxUnits, (TotalUnits * scores[i]) \div Sum(scores)})})]
        times(n) == [k \in 1..n |-> k]
        reduced == FoldLeft(LAMBDA u, k : Reduce(scores, u, ids), shares,
                            times(Sum(shares) - TotalUnits))
    IN  FoldLeft(LAMBDA u, k : Grow(scores, u), reduced, times(TotalUnits - Sum(reduced)))

\* build_research_plan: the budget takes the LAST signal of a request's key,
\* the director took the best.
Plan(evidence) ==
    LET signals == Signals(evidence)
        requests == Prioritize(signals)
        ids == [i \in DOMAIN requests |-> requests[i].id]
        sums == [i \in DOMAIN ids |->
                    signals[SelectLastInSeq(signals, LAMBDA s : Key(s) = ids[i])].sum]
    IN  [requests |-> requests, units |-> Allocate(sums, ids)]
=============================================================================
