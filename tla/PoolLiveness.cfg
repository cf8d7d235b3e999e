\* Fairness of the mutex alone; EveryWaitEnds adds the clock by itself.
SPECIFICATION NotifySpec
CONSTANTS
    Callers = {t1, t2, t3}
    MaxPoolSize = 2
    MaxIdle = 2
    AccurateCallers = FALSE
PROPERTIES
    IdleIsServed
    EveryWaitEnds
