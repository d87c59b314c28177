SPECIFICATION Spec
CONSTANTS
    Clients = {c1, c2}
    Sessions = {s1}
    Streams = {st1, st2, st3}
    User = u1
    UserOf <- OneUser
    MaxFaults = 1
    MaxRequests = 3
    Nil = Nil
SYMMETRY Symmetry
INVARIANTS
    HeirReachable
    HeirStaysMember
    NoGhostMember
    GoneLeavesNothing
