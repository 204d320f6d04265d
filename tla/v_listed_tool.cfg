CONSTANTS
    Calls = {c1}
    Skills <- MCSkills
    Trees <- MCTrees
    Words <- MCWords
    Scores <- MCScores
    Builtins = {"echo"}
    NoSkill = NoSkill
    Absent = Absent
    CacheCapacity = 1
    MaxListed = 2
SPECIFICATION Spec
PROPERTY ListedToolIsFound
