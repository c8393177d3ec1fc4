SPECIFICATION Spec
CONSTANTS
    Params <- MCParams
    Remote <- MCRemote
    NoSdp = NoSdp
INVARIANTS
    AnswerSound
    OffersPresent
PROPERTIES
    AnswerIsFinal
    KeepsPromise
