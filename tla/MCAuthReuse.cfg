SPECIFICATION Spec
CONSTANTS
    Users = {u1}
    Tokens = {t1, t2}
    Requests = {r1}
    Nil = Nil
SYMMETRY Symmetry
PROPERTY
    ReuseRotatesFamily
