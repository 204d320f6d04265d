CONSTANTS
    BaseDelay = 4
    MaxDelay = 12
    UseJitter = TRUE
    MaxRetries = 3
    AttemptTimeout = 5
    Skills = {s1, s2, s3}
    DependencyLists <- MCDependencyLists
    PolicyNames = {"default-safety", "site", "team"}
    Requests <- MCRequests
    Policies <- MCPolicies
    NoPolicy = NoPolicy
    Checked = {c1, c2, c3}
    Tools = {"file_read", "other"}
    Addresses <- MCAddresses
    Texts <- MCTexts
    Agents <- MCAgents
    Actions <- MCActions
    Targets <- MCTargets
    Junk <- MCJunk
    Severities = {0}
    Metadata = {"null", "note"}
    MaxEntries = 2
    MaxTampers = 3
SPECIFICATION DecisionsSpec
INVARIANTS LatencyBound ResolutionIsRight PriorityDecides UntouchedVerifies TipCommits
PROPERTIES BackoffGrows SweepIsFair GatesFollowTheirRules OneWriteIsDetected
CHECK_DEADLOCK FALSE
