\* Callers of the manual entries that leak objects and return foreign ones.
SPECIFICATION Spec
CONSTANTS
    Callers = {t1, t2, t3, t4}
    MaxPoolSize = 2
    MaxIdle = 2
    AccurateCallers = FALSE
SYMMETRY CallerSymmetry
INVARIANTS
    TypeOK
    CapacityBound
    NoLostWakeup
PROPERTIES
    TimeoutIsTrue
