SPECIFICATION FairSpec
CONSTANTS
    T1 = 1
    T2 = 2
    T4 = 2
    TimeoutFactor = 4
    ChanCap = 2
    MaxResponses = 3
    Slack = 2
INVARIANTS
    TypeOK
    ResponsesInOrder
    ProceedingIsEarned
    EachFailureAcked
PROPERTIES
    RequestsInTime
    KeepsPromise
    NothingHangs
