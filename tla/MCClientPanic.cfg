SPECIFICATION Spec
CONSTANTS
    T1 = 1
    T2 = 8
    T4 = 10
    TimeoutFactor = 64
    ChanCap = 10
    MaxResponses = 1
    Slack = 1
INVARIANT
    NoPanic
