SPECIFICATION Spec
CONSTANTS
    Users = {u1, u2}
    Second = 3
    AccessTTL = 2
    RefreshTTL = 5
    ReconnectTTL = 4
    Horizon = 9
    MaxTokens = 2
SYMMETRY Symmetry
INVARIANTS
    NoCrossUse
    NeverPastTTL
    UsableForItsTime
    StorageOutlivesToken
