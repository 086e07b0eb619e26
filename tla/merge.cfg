SPECIFICATION Spec
CONSTANTS
    Objects = {o1, o2}
    Nil = nil
    Writers = {g1, g2}
    MaxVersion = 3
    Results = {r1, r2, r3}
SYMMETRY Symmetry
INVARIANTS TypeOK NoUpdateIsLost EventsTellTheHistory EndsAreTold
CHECK_DEADLOCK FALSE
