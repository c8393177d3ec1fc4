SPECIFICATION FairSpec
CONSTANTS
    Tsx = {t1, t2, t3}
    Packet = {p1, p2, p3}
    ClientKey = {ck}
    ServerKey = {sk}
    NoTsx = NoTsx
    NoKey = NoKey
    ChanCap = 1
INVARIANTS
    TableSound
    RightTransaction
PROPERTIES
    EveryPacketEnds
