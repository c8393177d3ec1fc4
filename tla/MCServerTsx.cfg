SPECIFICATION FairSpec
CONSTANTS
    T1 = 1
    T2 = 3
    T4 = 5
    TimeoutFactor = 4
    ChanCap = 2
    MaxArrivals = 3
    MaxProvisionals = 2
    Slack = 2
INVARIANTS
    TypeOK
    MailboxOpen
PROPERTIES
    SentInPlace
    KeepsPromise
    NothingHangs
