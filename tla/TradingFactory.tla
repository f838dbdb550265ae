--------------------------- MODULE TradingFactory ---------------------------
(***************************************************************************)
(* The stages around the research runner, side by side: market data is     *)
(* loaded and registered, research is planned and queued, portfolios are   *)
(* saved, executed and certified, their health is recorded.  The stages    *)
(* share no table, file or object: what one leaves the next receives as an *)
(* argument, and the inputs of each are enumerated here.  So an invariant  *)
(* of one stage sees the steps of that stage only, and a behaviour runs    *)
(* one stage, chosen when it begins, with every interleaving of the        *)
(* processes in it.                                                        *)
(***************************************************************************)
EXTENDS PortfolioRuns, ResearchPlanning

CONSTANTS
    Stage,
    Loader, Frame, File, Torn, Loads,
    Planner, Evidence, Population, Plans,
    Writer, Reader, Assessed, Generation, MinReturn, MaxVolatility, MaxRisk, MaxRows

VARIABLES
    stage,
    final, temp, content, load, loads, given, datasets,
    queue, plan, work, turn, offered, last, lost,
    ledger, task

Data == INSTANCE MarketDataCache WITH left <- loads

\* Every plan a caller executes was made of such evidence.
EvidenceAssumption == \A e \in Evidence : IsEvidence(e)
ASSUME EvidenceAssumption

MadePlans == {Plan(e) : e \in Evidence}
Work == INSTANCE ResearchWork WITH Planned <- MadePlans
Lifecycle == INSTANCE PortfolioLifecycle

dataVars == <<final, temp, content, load, loads, given, datasets>>
workVars == <<queue, plan, work, turn, offered, last, lost>>
lifecycleVars == <<ledger, task>>
allVars == <<vars, dataVars, workVars, lifecycleVars, stage>>

FactoryInit ==
    /\ stage \in Stage
    /\ IF stage = "portfolio" THEN Init
       ELSE /\ portfolio = None /\ crew = {} /\ runs = {} /\ certificates = {}
            /\ evidence = [s \in Strategy |-> TRUE]
            /\ proc = [p \in Process |-> Idle] /\ overlapped = FALSE
    /\ Data!Init /\ Work!Init /\ Lifecycle!Init

FactoryNext ==
    \/ /\ stage = "portfolio" /\ Next
       /\ UNCHANGED <<dataVars, workVars, lifecycleVars, stage>>
    \/ /\ stage = "data" /\ Data!Next
       /\ UNCHANGED <<vars, workVars, lifecycleVars, stage>>
    \/ /\ stage = "planning" /\ Work!Next
       /\ UNCHANGED <<vars, dataVars, lifecycleVars, stage>>
    \/ /\ stage = "lifecycle" /\ Lifecycle!Next
       /\ UNCHANGED <<vars, dataVars, workVars, stage>>

FactorySpec == FactoryInit /\ [][FactoryNext]_allVars
-----------------------------------------------------------------------------
\* The types of the state of every stage.
StagesTypeOK == TypeOK /\ Data!TypeOK /\ Work!TypeOK /\ Lifecycle!TypeOK

\* Two loads of one key truncate, mix and steal each other's temporary files
\* and a crash leaves a new data file beside an old manifest: still every frame
\* a load returns, or registers, is one the provider gave.
LoadsAreProvided == Data!LoadsAreProvided

\* A plan that is executed spends the whole budget, no more and no less,
\* unless the limits of its requests forbid it: more only when every request is
\* at its minimum, less only when every request is at its maximum.
BudgetKept ==
    \A p \in Planner :
        LET units == plan[p]
        IN  units # <<>> =>
            /\ \A i \in DOMAIN units : units[i] \in MinUnits..MaxUnits
            /\ Sum(units) > TotalUnits => \A i \in DOMAIN units : units[i] = MinUnits
            /\ Sum(units) < TotalUnits => \A i \in DOMAIN units : units[i] = MaxUnits

\* However the plans of the callers interleave, a queued request has the best
\* priority it was offered since it last left the queue.
QueueKeepsBest == Work!QueueKeepsBest

\* A consumption that fails after it has removed the request loses only what a
\* later plan offered again, of another caller or of the same one.
LostOnlyToLaterPlan == Work!LostOnlyToLaterPlan

\* A record that does not increase the generation of its portfolio was written
\* by a writer that had read the ledger before the row it repeats was there.
DisorderOnlyByRace == Lifecycle!DisorderOnlyByRace

\* A decision shown after the ledger verified is at least as new as every
\* decision recorded before that verification, and asks to rebalance exactly
\* when it names strategies to replace.
ShownIsNewest == Lifecycle!ShownIsNewest
=============================================================================
