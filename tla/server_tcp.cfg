SPECIFICATION Spec
CONSTANTS
    Tasks = {t1}
    NoOwner = noOwner
    Watcher = watcher
    TCP = {s1, s2}
    UDP = {}
    Tags = {g}
    TaskTags <- MCTaskTags
    Reader = reader
    Timer = timer
    App = app
SYMMETRY Symmetry
INVARIANTS   LateResultsAreOfLosers NothingLeftBehind
CHECK_DEADLOCK FALSE
