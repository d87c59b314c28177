SPECIFICATION Spec
CONSTANTS
    Funcs = {f1, f2, f3}
    Callers = {k1, k2}
SYMMETRY Symmetry
INVARIANTS
    ClosedInReverse
    ReturnMeansClosed
    FailuresReported
