\* A limit of 2 bytes, payloads at and over it.
SPECIFICATION FairSpec
CONSTANTS
    MaxFrame = 2
    Sizes = {2, 3}
    MaxSends = 2
    MaxPeerMessages = 3
INVARIANTS
    TypeOK
    WithinLimit
    EndIsTrue
    OkMeansSent
    NothingAfterOwnClose
    PermanentIsDeserved
PROPERTIES
    ImplementsDuplex
    EveryCallReturns
