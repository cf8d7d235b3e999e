\* Both limits on; request bodies below, at and over theirs; a declared length
\* over usize; seconds over u64, and dates on either side of the clock.
SPECIFICATION FairSpec
CONSTANTS
    MaxRequestBody = 1
    MaxResponseBody = 3
    UsizeMax = 5
    HasTimeout = TRUE
    RequestBodies = {0, 1, 2}
    Declared = {0, 2, 3, 4, 7}
    U64Max = 4
    RetryNumbers = {0, 3, 5}
    Clock = {2, 3, 4}
    MaxWire = 5
INVARIANTS
    TypeOK
    BodyWithinLimit
    OkIsComplete
    PermanentIsDeserved
    BadRequestIsPermanent
    ConnectTimeoutIsEarly
    RetryAfterIsHonest
PROPERTIES
    ImplementsExchange
    EveryCallReturns
