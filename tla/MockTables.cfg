\* Three threads prepare and execute: two sets and an execute may overlap on the
\* one URL of both tables.
SPECIFICATION Spec
CONSTANTS
    Threads = {t1, t2, t3}
    Urls = {u1}
    Bodies = {b1, b2}
SYMMETRY Symmetry
INVARIANTS
    ExecuteIsCurrent
    SetTakesEffect
