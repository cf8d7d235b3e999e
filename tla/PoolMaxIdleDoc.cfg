SPECIFICATION Spec
CONSTANTS
    Callers = {t1, t2, t3}
    MaxPoolSize = 2
    MaxIdle = 1
    AccurateCallers = TRUE
PROPERTIES
    KeptUpToPoolSize
