SPECIFICATION FairSpec
CONSTANTS
    Session = {s1}
    Packets = 4
    NoSession = NoSession
INVARIANTS
    TablesSound
    EventsInOrder
    AckNeverAnswered
    OneGoodbye
PROPERTIES
    NumberFallsOnlyByAck
    NothingHangs
