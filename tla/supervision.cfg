CONSTANTS
    Agents = {a1}
    InitialScore = 2
    Deltas = {6}
    DecayNum = 9
    DecayDen = 10
    MaxActions = 1
    ThrottleThreshold = 2
    QuarantineThreshold = 3
    MaxViolations = 2
    MinTrust = 2
    Minute = 3
    SessionIds = {s1}
    Owners = {a1}
    NoSession = NoSession
    MaxIdle = 2
    MaxTurns = 1
    DecayThreshold = 6
    TrustReadings = {1, 10}
SPECIFICATION SupervisionSpec
INVARIANTS FloodBound
PROPERTIES BurstsAreSuspended CleanupSparesRecent
CONSTANT HistoryBound = 5
