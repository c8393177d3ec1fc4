SPECIFICATION Spec
CONSTANTS
    Session = {s1}
    Packets = 3
    NoSession = NoSession
INVARIANT
    RemoteTagIsSet
