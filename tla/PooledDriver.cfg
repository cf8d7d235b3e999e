\* One worker: a single waiter stops the executor.
SPECIFICATION PooledFairSpec
CONSTANTS
    Callers = {t1, t2, t3}
    MaxPoolSize = 2
    MaxIdle = 1
    AccurateCallers = FALSE
    Workers = 1
INVARIANTS
    PermitsAreHeldOrLost
    InFlightBounded
PROPERTIES
    ExhaustionIsTemporary
