SPECIFICATION PooledSpec
CONSTANTS
    Users = {u1}
    Tokens = {t1, t2, t3}
    Requests = {r1, r2, r3}
    MaxConns = 2
    Nil = Nil
SYMMETRY Symmetry
INVARIANTS
    ConnectionsReturned
    EmptyPoolDrains
