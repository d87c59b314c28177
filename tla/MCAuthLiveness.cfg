SPECIFICATION FairSpec
CONSTANTS
    Users = {u1}
    Tokens = {t1, t2}
    Requests = {r1, r2}
    Nil = Nil
PROPERTY
    RequestsTerminate
