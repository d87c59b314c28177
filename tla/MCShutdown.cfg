SPECIFICATION FairSpec
CONSTANTS
    Requests = {r1, r2, r3}
    Sockets = {w1, w2}
INVARIANTS
    ClosedAfterDraining
    NoQueryCutOff
    ClosedInOrder
PROPERTY
    SignalEnds
