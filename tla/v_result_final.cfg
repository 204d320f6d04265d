CONSTANTS
    Tasks = {t1}
    NoTask = NoTask
SPECIFICATION TasksSpec
INVARIANT ResultIsFinal
