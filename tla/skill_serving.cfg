CONSTANTS
    Calls = {c1, c2}
    Skills <- MCSkills
    Trees <- MCTrees
    Words <- MCPlainWords
    Scores <- MCScores
    Builtins = {"echo"}
    NoSkill = NoSkill
    Absent = Absent
    CacheCapacity = 1
    MaxListed = 2
SPECIFICATION FairSpec
INVARIANTS CacheAgrees IndexesComplete LedgerFitsAnswer
PROPERTIES LookupIsCurrent RefreshHappens
