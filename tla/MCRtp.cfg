SPECIFICATION Spec
CONSTANTS
    QueueSize = 2
    SeqSpan = 2
    StampSpan = 2
    Starts <- MCStarts
    Samples = {3}
    Ssrc = ssrc
    Other = other
    OwnHeaders <- MCOwnHeaders
    Lengths = {8}
    PayloadTypes = {8, 128}
    RtcpDatagrams <- MCRtcpDatagrams
    LoneHeaders <- MCLoneHeaders
    LoneDatagrams <- MCLoneDatagrams
    MaxSent = 3
    MaxRtcp = 1
    MaxFaults = 1
    MaxCalls = 2
INVARIANTS TypeOK InOrder GapsCountLoss ReadAsWritten
PROPERTY EndsAreNoticed
CHECK_DEADLOCK FALSE
