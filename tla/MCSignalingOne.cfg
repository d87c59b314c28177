SPECIFICATION Spec
CONSTANTS
    Clients = {c1}
    Sessions = {s1, s2}
    Streams = {st1, st2, st3}
    User = u1
    UserOf <- OneUser
    MaxFaults = 3
    MaxRequests = 3
    Nil = Nil
SYMMETRY Symmetry
INVARIANTS
    TypeOK
    NoOrphanStream
    OneOpens
    LossCovered
    AttachMatches
    OneLoop
PROPERTY
    ImplementsSlots
