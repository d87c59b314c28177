SPECIFICATION Spec
CONSTANTS
    PingPeriod = 5
    PongWait = 12
    Lag = 1
    RoundTrip = 2
    MaxBusy = 6
INVARIANTS
    LiveKept
    VanishedDropped
