CONSTANTS
    FailureThreshold = 2
    RecoveryTimeout = 1
    HalfOpenSuccessThreshold = 2
    CounterModulus = 2
    MaxRetries = 1
    Callers = {c1, c2}
SPECIFICATION Spec
INVARIANTS HalfOpenAdmitsProbe
