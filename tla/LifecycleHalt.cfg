CONSTANTS
    s1 = s1
    s2 = s2
    w1 = w1
    w2 = w2
    c1 = c1
    c2 = c2
    Strategy = {s1, s2}
    Candidate = {s1, s2}
    Monitored = {s1}
    Cause = {drawdown}
    Observations = {20}
    SuccessorOf <- MCSuccessorOf
    Verdict <- AnyVerdict
    Run = {run1}
    AdmissionReason = {verified}
    Worker = {w1, w2}
    Connection = {c1, c2}
    ConnectionOf <- OwnConnections
    Duty <- ControlDuties
    NoConnection = NoConnection
SPECIFICATION Spec
PROPERTIES
    HaltIsFinal
