SPECIFICATION FairSpec
CONSTANTS
    Clients = {c1}
    Sessions = {s1}
    Streams = {st1, st2}
    User = u1
    UserOf <- OneUser
    MaxFaults = 2
    MaxRequests = 3
    Nil = Nil
PROPERTIES
    LossRecovered
    ConnectionEnds
