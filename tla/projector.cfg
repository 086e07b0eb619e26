SPECIFICATION FairSpec
CONSTANTS
    Objects = {o1}
    Nil = nil
    MaxVersion = 3
    Tags = {g}
    Star = star
    TCP = {}
    UDP = {u1}
    OutboxSize = 2
    Writer = w
INVARIANT TypeOK
PROPERTY NeverBackwards
PROPERTY SubscribersCatchUp
