SPECIFICATION FairSpec
CONSTANTS
    Tasks = {t1}
    NoOwner = noOwner
    Watcher = watcher
    TCP = {}
    UDP = {u1}
    Tags = {g}
    TaskTags <- MCTaskTags
    Reader = reader
    Timer = timer
    App = app
 
PROPERTY OrphansAreReclaimed
CHECK_DEADLOCK FALSE
