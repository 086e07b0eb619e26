SPECIFICATION FairSpec
CONSTANTS
    Nodes = {a, b, c}
    Hub = b
    Links <- Star
    Objects = {o1}
    Payloads = {d1}
    Nil = nil
    Workers = {b}
    Works <- MCWorks
    Submissions = 1
    MaxVersion = 3
    Lossy = TRUE
INVARIANTS TypeOK VersionsAreEarned
 
CHECK_DEADLOCK FALSE
