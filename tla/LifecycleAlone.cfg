CONSTANTS
    s1 = s1
    s2 = s2
    w1 = w1
    w2 = w2
    c1 = c1
    c2 = c2
    Strategy = {s1, s2}
    Candidate = {s1}
    Monitored = {s1, s2}
    Cause = {drawdown}
    Observations = {20}
    SuccessorOf <- MCSuccessorOf
    Verdict <- Outcomes
    Run = {run1}
    AdmissionReason = {verified}
    Worker = {w1}
    Connection = {c1}
    ConnectionOf <- OneConnection
    Duty <- StageDuties
    NoConnection = NoConnection
SPECIFICATION Spec
INVARIANTS
    TypeOK
    PaperIsAdmitted
    AdmissionIsLogged
    StageWasLogged
    DegradedIsRequested
    CycleIsBacked
PROPERTIES
    StageFollowsTable
