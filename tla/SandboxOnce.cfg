CONSTANTS
    Strategy = {s1}
    Fraction = {1}
    Loss = {1}
    Time = {0, 1}
    Nonce = {n1, n2}
    IntentId = {i1}
    MaxAuthorizedCapital = 1
    MaxRiskCapital = 1
    MaxLoss = 1
    Worker = {w1, w2}
    Journaled = {w1}
    OperatorEvent = {"CANCELLED"}
    NoWorker = NoWorker
    MaxAuthorizations = 1
    MaxCertificates = 2
    MaxIntents = 2
SPECIFICATION Spec
INVARIANTS
    AtMostOneFill
    FillIsDurable
PROPERTIES
    ImplementsOnce
