SPECIFICATION FairSpec
CONSTANTS
    near = near
    far = far
    Conn = {1, 2}
    Peer = {near, far}
    Here = Here
    Native = {near}
    Udp = Udp
    Sender = {u1, u2}
    ReadTask = ReadTask
    Nobody = Nobody
    Streams <- SmallStreams
    MaxResets = 1
    MaxStalls = 1
    MaxBusy = 3
    MaxBeside = 0
    Routes <- SmallRoutes
INVARIANTS
    TypeOK
    RegistryTracksConnections
    MessagesIntact
    WholeWrites
PROPERTIES
    Progress
