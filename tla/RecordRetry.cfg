CONSTANTS
    Strategy = {s1}
    Fraction = {1}
    Loss = {1}
    Time = {0, 1}
    Nonce = {n1}
    IntentId = {i1}
    MaxAuthorizedCapital = 1
    MaxRiskCapital = 1
    MaxLoss = 1
    Worker = {w1}
    Journaled = {w1}
    OperatorEvent = {"CREATED", "VALIDATED", "CANCELLED"}
    NoWorker = NoWorker
    MaxAuthorizations = 1
    MaxCertificates = 1
    MaxIntents = 1
SPECIFICATION Spec
INVARIANTS
    IdenticalRetriesReturn
