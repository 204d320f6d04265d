CONSTANTS
    Agents = {a1}
    InitialScore = 10
    Deltas = {5}
    DecayNum = 1
    DecayDen = 2
    MaxActions = 1
    ThrottleThreshold = 1
    QuarantineThreshold = 2
    MaxViolations = 1
    MinTrust = 2
    Grantable = {"PolicyModify"}
    MaxCount = 2
SPECIFICATION Spec
INVARIANTS QuarantineIsolates
