SPECIFICATION Spec
CONSTANTS
    Users = {u1}
    Tokens = {t1, t2, t3}
    Requests = {r1, r2, r3}
    Nil = Nil
SYMMETRY Symmetry
INVARIANTS
    TypeOK
    OneActivePerFamily
    HeldTokensStored
    OneRegistrationWins
    NoWaitCycle
PROPERTY
    ImplementsFamilies
