------------------------- MODULE PermitSemaphore -------------------------
(***************************************************************************)
(* What the pool promises its callers: a counting semaphore.  At most       *)
(* Permits callers use a pooled object at a time.  A caller that asks is    *)
(* served only while a permit is free, and is refused only while none is.   *)
(***************************************************************************)
EXTENDS Naturals, FiniteSets

CONSTANTS Callers, Permits

VARIABLES
    held,       \* the callers that have a permit
    refused     \* the callers whose last request found no permit free

absVars == <<held, refused>>

AbsInit == held = {} /\ refused = {}

Acquire(t) ==
    /\ t \notin held
    /\ Cardinality(held) < Permits
    /\ held' = held \cup {t}
    /\ refused' = refused \ {t}

Release(t) ==
    /\ t \in held
    /\ held' = held \ {t}
    /\ refused' = refused \ {t}

Refuse(t) ==
    /\ t \notin held
    /\ Cardinality(held) >= Permits
    /\ refused' = refused \cup {t}
    /\ UNCHANGED held

\* A caller forgets that it was refused: it starts to do something else.
Forget(t) ==
    /\ t \in refused
    /\ refused' = refused \ {t}
    /\ UNCHANGED held

AbsNext == \E t \in Callers : Acquire(t) \/ Release(t) \/ Refuse(t) \/ Forget(t)

AbsSpec == AbsInit /\ [][AbsNext]_absVars
=============================================================================
