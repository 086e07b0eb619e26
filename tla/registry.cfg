SPECIFICATION FairSpec
CONSTANTS
    Tasks = {t1, t2}
    Owners = {o1, o2}
    Callers = {g1, g2}
    Watcher = watcher
    NoOwner = noOwner
INVARIANTS TypeOK OwnershipCoherent AvailableIsAnnounced
PROPERTIES  ExpiredIsOfferedAgain
