SPECIFICATION FactorySpec
CONSTANTS
    s1 = s1  s2 = s2  p1 = p1  e1 = e1  e2 = e2  c1 = c1  c2 = c2  v1 = v1
    f1 = f1  f2 = f2  pf1 = pf1  pf2 = pf2
    None = None
    Stage = {"data", "planning", "portfolio", "lifecycle"}
    Loader = {l1, l2}
    Frame = {f1, f2}
    File = {1, 2, 3, 4, 5, 6}
    Torn = Torn
    Loads = 4
    StrategyOrder <- MCOrder
    MaxRequests = 4
    TotalUnits = 7
    MinUnits = 2
    MaxUnits = 5
    Planner = {q1, q2}
    Evidence <- MCEvidence
    Population <- MCPopulation
    Plans = 2
    Order <- MCOrder
    MaxPosition <- MCMaxPosition
    InitialCash = 1000
    Commission = 1
    Slippage = 2
    DrawdownLimit = 10
    Unlimited = Unlimited
    Refused = Refused
    Market <- MCMarket
    Definition <- MCDefinition
    Scene <- MCScene
    Publisher = {p1}
    Executor = {e1, e2}
    Certifier = {c1, c2}
    Reviser = {v1}
    Writer = {w1, w2}
    Reader = {r1}
    Assessed <- MCAssessed
    Generation = {0, 1}
    MinReturn = 0
    MaxVolatility = 25
    MaxRisk = 60
    MaxRows = 3
INVARIANTS
    StagesTypeOK
    LoadsAreProvided
    BudgetKept
    QueueKeepsBest
    LostOnlyToLaterPlan
    ExecutionReplays
    AnswersAreStored
    RefusedOnlyForCause
    SleevesReplayTheRun
    DisorderOnlyByRace
    ShownIsNewest
CHECK_DEADLOCK FALSE
