SPECIFICATION Spec
CONSTANTS
    Params <- MCParams
    Remote <- MCRemote
    NoSdp = NoSdp
INVARIANT
    NothingMissing
