-------------------------- MODULE MCTradingFactory --------------------------
(***************************************************************************)
(* Two strategies; markets of three bars and of one.  The markets of the   *)
(* first scenes run over every close, entry and exit of the first          *)
(* strategy; the last two scenes race the processes of the registry on two *)
(* chosen markets, with portfolios of both strategies and of the first.    *)
(***************************************************************************)
EXTENDS TradingFactory, TLC

CONSTANTS s1, s2, p1, e1, e2, c1, c2, v1, f1, f2, pf1, pf2

MCOrder == <<s1, s2>>
MCMaxPosition == s1 :> 100 @@ s2 :> 50
Weights(x, y) == s1 :> x @@ s2 :> y

Bundle(n) == [close : [1..n -> {8, 12}], entry : [1..n -> BOOLEAN], exit : [1..n -> BOOLEAN],
              early : BOOLEAN]
MCBundle == Bundle(3) \union Bundle(1)
MCMarket ==
    [b \in MCBundle |->
        LET series(s) == SubSeq(s, 1, Len(b.close))
        IN  [close |-> s1 :> b.close @@ s2 :> series(<<10, 9, 10>>),
             entry |-> s1 :> b.entry @@ s2 :> series(<<b.early, TRUE, FALSE>>),
             exit |-> s1 :> b.exit @@ s2 :> series(<<FALSE, FALSE, TRUE>>)]]

B(close, entry) ==
    [close |-> close, entry |-> entry, exit |-> <<FALSE, FALSE, TRUE>>, early |-> FALSE]
B1 == B(<<8, 12, 12>>, <<TRUE, FALSE, FALSE>>)
B2 == B(<<12, 8, 12>>, <<FALSE, TRUE, FALSE>>)

D(bundle, x, y) == [bundle |-> bundle, weights |-> Weights(x, y)]
MCDefinition == {D(B1, 60, 30), D(B1, 30, 60), D(B2, 60, 30), D(B1, 60, 0)}
S(definition, processes) == [portfolio |-> definition, crew |-> processes]
MCScene ==
    {S(D(b, 60, 30), {e1}) : b \in MCBundle}
    \union {S(None, {p1, e1, e2}), S(D(B1, 60, 30), {e1, c1, c2, v1})}

\* The evidence of a generation: the first strategy passes or fails, with
\* the second or alone, before or after a portfolio was built.
Ev(s, validated, merit) ==
    [strategy |-> s, validated |-> validated, eligible |-> TRUE, simulated |-> TRUE,
     novel |-> TRUE, merit |-> merit, sum |-> 2 * merit]
MCEvidence ==
    [evaluations :
        {<<Ev(s1, TRUE, 300), Ev(s2, FALSE, 100)>>, <<Ev(s1, TRUE, 100), Ev(s2, TRUE, 200)>>,
         <<Ev(s1, FALSE, 0)>>},
     portfolio :
        {[selected |-> <<>>, admitted |-> FALSE, correlated |-> FALSE, merit |-> 0, sum |-> 0]}
        \union {[selected |-> <<s1, s2>>, admitted |-> TRUE, correlated |-> x,
                 merit |-> 250, sum |-> 700] : x \in BOOLEAN}]
MCPopulation == {{s1}, {s1, s2}}

A(return, volatility, x, y) ==
    [return |-> return, volatility |-> volatility, risk |-> s1 :> x @@ s2 :> y]
MCAssessed == pf1 :> {A(5, 10, 5, 5), A(-1, 10, 9, -1)} @@ pf2 :> {A(5, 30, 0, 0)}

ASSUME Lifecycle!LifecycleAssumption
ASSUME Data!CacheAssumption
ASSUME Work!WorkAssumption
ASSUME WholeMarkets
=============================================================================
