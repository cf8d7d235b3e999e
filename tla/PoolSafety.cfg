\* Callers that return what they check out; one caller more than permits, one
\* permit more than idle slots.
SPECIFICATION Spec
CONSTANTS
    Callers = {t1, t2, t3, t4}
    MaxPoolSize = 3
    MaxIdle = 2
    AccurateCallers = TRUE
SYMMETRY CallerSymmetry
INVARIANTS
    CapacityBound
    PermitAccounting
    NoLostWakeup
PROPERTIES
    ImplementsSemaphore
    ExhaustedIsTrue
