CONSTANTS
    r1 = r1
    r2 = r2
    r3 = r3
    p1 = p1
    p2 = p2
    Population = {p1, p2}
    Fitness <- MCFitness
    NoStop = NoStop
    Runner = {r1, r2, r3}
    Evolver = {w1}
    Job <- MCJob
    Rounds = 1
    Starts = 3
    None = None
SPECIFICATION Spec
INVARIANTS
    TypeOK
    CheckpointsPaired
    ForksOnlyBesideEvolvers
    MemoryIsDurable
    EvidenceFailsOnlyInCompany
PROPERTIES
    OneUninterruptedRun
    RunsEnd
CHECK_DEADLOCK FALSE
