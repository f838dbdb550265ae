CONSTANTS
    Strategy = {s1, s2}
    Fraction = {0, 1, 2, 3}
    Loss = {1, 2}
    Time = {0, 1, 2}
    Nonce = {n1}
    IntentId = {i1}
    MaxAuthorizedCapital = 2
    MaxRiskCapital = 1
    MaxLoss = 1
    Worker = {w1}
    Journaled = {w1}
    OperatorEvent = {}
    NoWorker = NoWorker
    MaxAuthorizations = 2
    MaxCertificates = 1
    MaxIntents = 1
SPECIFICATION Spec
INVARIANTS
    FillWithinAuthority
CHECK_DEADLOCK FALSE
