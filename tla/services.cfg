CONSTANTS
    Names = {n1, n2}
    Versions = {v1, v2}
    OwnVersion = v1
    NoCard = NoCard
    MaxInFlight = 1
    Tasks = {t1, t2}
    NoTask = NoTask
    Writers = {w1, w2}
    Episodes = {e1, e2}
    Instants <- MCInstants
    Keywords = {kw1}
    RowLimit = 1
    MaxRows = 2
    Keys = {k1, k2}
    Releases = {r1, r2}
    Nothing = Nothing
    CredentialNames = {c1, c2}
    Secrets = {x1, x2}
    NoSecret = NoSecret
    MaxCredentials = 4
    Slots = {s1, s2}
    Guests <- MCGuests
    Endless = Endless
    TrapTexts <- MCTrapTexts
    MaxFuel = 2
    PageBytes = 4
    MaxMemory = 8
    MaxEpoch = 2
    MaxSize = 3
    Limits = {1, 2}
    Capacity = 2
    TokenUnit = 3
    RefillPerTick = 2
    RefillInterval = 1
    MaxIdle = 3
    MaxWindow = 5
    CounterModulus = 2
SPECIFICATION ServicesSpec
INVARIANTS BucketTypeOK TrustIsMonotone QueriesFollowTime LoadedAsSigned TrapsAreDeserved AnswerIsOfTheFile WindowBound
PROPERTIES RemovalIsComplete ExecutionsEnd AcquireReturns
