CONSTANTS
    FailureThreshold = 2
    RecoveryTimeout = 1
    HalfOpenSuccessThreshold = 1
    CounterModulus = 1
    MaxRetries = 1
    Callers = {c1, c2}
SPECIFICATION BusySpec
INVARIANTS HalfOpenAdmitsProbe
PROPERTIES CallsReturn RecoversWhenHealthy
