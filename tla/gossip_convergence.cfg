SPECIFICATION Spec
CONSTANTS
    Nodes = {a, b}
    Hub = a
    Links <- Star
    Objects = {o1}
    Payloads = {d1, d2}
    Nil = nil
    Workers = {a}
    Works <- MCWorks
    Submissions = 2
    MaxVersion = 9
    Lossy = FALSE
INVARIANT Converged
CHECK_DEADLOCK FALSE
