------------------------- MODULE HttpClientPool -------------------------
(***************************************************************************)
(* HttpClientPool<T> of src/pool.rs: a bounded object pool guarded by one   *)
(* mutex (`state`) and one condition variable (`cvar`).                     *)
(*                                                                         *)
(* Every critical section of the code is one action, because nothing the    *)
(* pool does is visible to another thread before the mutex is released.     *)
(* The factory of checkout_with runs outside the mutex, and a waiter of     *)
(* checkout_idle_timeout gives the mutex up in Condvar::wait_timeout: those *)
(* are the points where other callers interleave.                          *)
(*                                                                         *)
(* A caller is one use of the pool: it makes one call at a time and owns at *)
(* most one object.  A thread that holds several leases is several callers. *)
(* Objects are moved, never shared or copied, so only their number matters: *)
(* `idle` is the length of the Vec.                                        *)
(***************************************************************************)
EXTENDS Naturals, FiniteSets

CONSTANTS
    Callers,          \* the concurrent uses of the pool
    MaxPoolSize,      \* PoolConfig::max_pool_size
    MaxIdle,          \* PoolConfig::max_idle
    AccurateCallers   \* TRUE: manual checkouts are returned exactly once

\* PoolConfig::validate, which every public constructor runs.
ValidConfig(size, cap) == size # 0 /\ cap <= size

ASSUME ConfigAssumption ==
    /\ MaxPoolSize \in Nat
    /\ MaxIdle \in Nat
    /\ ValidConfig(MaxPoolSize, MaxIdle)

ASSUME CallersAssumption == IsFiniteSet(Callers) /\ AccurateCallers \in BOOLEAN

VARIABLES
    idle,         \* PoolState::idle.len()
    checkedOut,   \* PoolState::checked_out
    pc,           \* where each caller is
    expired,      \* has the deadline of this caller's wait passed?
    outcome       \* what the caller's last call answered

vars == <<idle, checkedOut, pc, expired, outcome>>

(***************************************************************************)
(*   ready    in no call of the pool and owning nothing of it               *)
(*   factory  inside checkout_with: permit taken, factory running           *)
(*   lease    owns a HttpClientLease                                        *)
(*   manual   owns a bare object it must give to return_client              *)
(*   asleep   in the wait set of cvar                                       *)
(*   woken    out of the wait set, about to lock the mutex again            *)
(***************************************************************************)
Where == {"ready", "factory", "lease", "manual", "asleep", "woken"}

Outcomes == {"none", "object", "exhausted", "failed", "timeout"}

At(where) == {t \in Callers : pc[t] \in where}

\* The callers that a permit stands for.
Holders == At({"factory", "lease", "manual"})
Waiters == At({"asleep", "woken"})
\* The callers whose last call was answered PoolExhausted.
Refused == {t \in Callers : outcome[t] = "exhausted"}

Init ==
    /\ idle = 0
    /\ checkedOut = 0
    /\ pc = [t \in Callers |-> "ready"]
    /\ expired = [t \in Callers |-> FALSE]
    /\ outcome = [t \in Callers |-> "none"]

-----------------------------------------------------------------------------
(* What the critical sections are made of.                                 *)

\* Caller t goes on to `where`; nobody is notified.
Move(t, where, answer) ==
    /\ pc' = [pc EXCEPT ![t] = where]
    /\ outcome' = [outcome EXCEPT ![t] = answer]

\* Condvar::notify_one wakes any one member of the wait set, if there is one.
MoveAndNotifyOne(t, where, answer) ==
    /\ \/ /\ At({"asleep"}) = {}
          /\ pc' = [pc EXCEPT ![t] = where]
       \/ \E w \in At({"asleep"}) :
             pc' = [pc EXCEPT ![t] = where, ![w] = "woken"]
    /\ outcome' = [outcome EXCEPT ![t] = answer]

\* Mutant: off by one.
PermitFreeOffByOne == checkedOut <= MaxPoolSize

\* checked_out < max_pool_size
PermitFree == checkedOut < MaxPoolSize

\* idle.pop() succeeded.
PopIdle ==
    /\ idle > 0
    /\ idle' = idle - 1
    /\ checkedOut' = checkedOut + 1

\* Mutant: the subtraction is not guarded.
GivePermitBackUnguarded == checkedOut' = checkedOut - 1

\* if checked_out > 0 { checked_out -= 1 }
GivePermitBack == checkedOut' = IF checkedOut > 0 THEN checkedOut - 1 ELSE 0

\* Mutant: the caps are taken for one, and it is never tested.
KeepAlways == idle' = idle + 1

\* Keep the object, or drop it when max_idle are kept already.
KeepOrDrop == idle' = IF idle < MaxIdle THEN idle + 1 ELSE idle

\* Mutant: return_client notifies nobody.
ReturnClientQuietly(t) ==
    /\ GivePermitBack
    /\ KeepOrDrop
    /\ Move(t, "ready", "none")
    /\ UNCHANGED expired

\* return_client, by a caller at t.
ReturnClient(t) ==
    /\ GivePermitBack
    /\ KeepOrDrop
    /\ MoveAndNotifyOne(t, "ready", "none")
    /\ UNCHANGED expired

\* release_permit: the permit comes back without an object.
ReleasePermit(t, answer) ==
    /\ GivePermitBack
    /\ MoveAndNotifyOne(t, "ready", answer)
    /\ UNCHANGED <<idle, expired>>

-----------------------------------------------------------------------------
(* checkout_with, and checkout_lease_with that wraps its object.           *)

\* An idle object is handed out; max_pool_size is not consulted.
CheckoutIdle(t) ==
    /\ pc[t] = "ready"
    /\ PopIdle
    /\ \E owned \in {"lease", "manual"} : Move(t, owned, "object")
    /\ UNCHANGED expired

\* No idle object but a free permit: take it and leave the mutex.
CheckoutStartFactory(t) ==
    /\ pc[t] = "ready"
    /\ idle = 0
    /\ PermitFree
    /\ checkedOut' = checkedOut + 1
    /\ Move(t, "factory", "none")
    /\ UNCHANGED <<idle, expired>>

\* Err(PoolExhausted), at once.
CheckoutExhausted(t) ==
    /\ pc[t] = "ready"
    /\ idle = 0
    /\ ~PermitFree
    /\ Move(t, "ready", "exhausted")
    /\ UNCHANGED <<idle, checkedOut, expired>>

\* The factory answered Ok and the rollback guard is disarmed.  Which of the
\* two entries was called shows here first.
FactoryOk(t) ==
    /\ pc[t] = "factory"
    /\ \E owned \in {"lease", "manual"} : Move(t, owned, "object")
    /\ UNCHANGED <<idle, checkedOut, expired>>

\* Mutant: no rollback guard.
FactoryFailsNoRollback(t) ==
    /\ pc[t] = "factory"
    /\ Move(t, "ready", "failed")
    /\ UNCHANGED <<idle, checkedOut, expired>>

\* The factory answered Err or unwound: CheckoutPermitRollback::drop.
FactoryFails(t) ==
    /\ pc[t] = "factory"
    /\ ReleasePermit(t, "failed")

\* HttpClientLease::drop
LeaseDrop(t) == pc[t] = "lease" /\ ReturnClient(t)

\* Mutant: the drop of the emptied lease gives the permit back once more.
LeaseIntoInnerTwice(t) ==
    /\ pc[t] = "lease"
    /\ checkedOut' = IF checkedOut > 1 THEN checkedOut - 2 ELSE 0
    /\ MoveAndNotifyOne(t, "ready", "none")
    /\ UNCHANGED <<idle, expired>>

\* HttpClientLease::into_inner; the drop of the emptied lease does nothing.
LeaseIntoInner(t) == pc[t] = "lease" /\ ReleasePermit(t, "none")

\* A manual checkout is given back.
ManualReturn(t) == pc[t] = "manual" /\ ReturnClient(t)

-----------------------------------------------------------------------------
(* checkout_idle_timeout.                                                  *)

\* Mutant: only wait_timeout ends the loop, left.is_zero() does not.
WaitLoopNoDeadline(t, noTimeLeft) ==
    \/ /\ PopIdle
       /\ Move(t, "manual", "object")
    \/ /\ idle = 0
       /\ Move(t, "asleep", "none")
       /\ UNCHANGED <<idle, checkedOut>>

\* One pass through the loop body up to wait_timeout; noTimeLeft is
\* left.is_zero().
WaitLoop(t, noTimeLeft) ==
    \/ /\ PopIdle
       /\ Move(t, "manual", "object")
    \/ /\ idle = 0
       /\ noTimeLeft
       /\ Move(t, "ready", "timeout")
       /\ UNCHANGED <<idle, checkedOut>>
    \/ /\ idle = 0
       /\ ~noTimeLeft
       /\ Move(t, "asleep", "none")
       /\ UNCHANGED <<idle, checkedOut>>

\* The call: the timeout is zero, or it has time left.
WaitEnter(t) ==
    /\ pc[t] = "ready"
    /\ \E zero \in BOOLEAN :
          /\ expired' = [expired EXCEPT ![t] = zero]
          /\ WaitLoop(t, zero)

\* Time passes the deadline of a waiter.
Expire(t) ==
    /\ t \in Waiters
    /\ ~expired[t]
    /\ expired' = [expired EXCEPT ![t] = TRUE]
    /\ UNCHANGED <<idle, checkedOut, pc, outcome>>

\* A waiter leaves the wait set because its deadline passed.
TimeoutWake(t) ==
    /\ pc[t] = "asleep"
    /\ expired[t]
    /\ Move(t, "woken", "none")
    /\ UNCHANGED <<idle, checkedOut, expired>>

\* A condition variable may wake a waiter for no reason.
SpuriousWake(t) ==
    /\ pc[t] = "asleep"
    /\ ~expired[t]
    /\ Move(t, "woken", "none")
    /\ UNCHANGED <<idle, checkedOut, expired>>

\* Mutant: a waiter that timed out does not look at idle any more.
GivesUpUnseeing(timedOut) == timedOut

\* if res.timed_out() && g.idle.is_empty() { return Ok(None) }
GivesUp(timedOut) == timedOut /\ idle = 0

\* The waiter has the mutex again.  When the deadline is over, wait_timeout
\* reports timed_out or, if a notification was first, not.
Resume(t) ==
    /\ pc[t] = "woken"
    /\ UNCHANGED expired
    /\ \E timedOut \in {FALSE, expired[t]} :
          \/ /\ GivesUp(timedOut)
             /\ Move(t, "ready", "timeout")
             /\ UNCHANGED <<idle, checkedOut>>
          \/ /\ ~GivesUp(timedOut)
             /\ WaitLoop(t, expired[t])

-----------------------------------------------------------------------------
(* What the types do not stop a caller of the manual entries from doing.   *)

\* A manually checked-out object is dropped and never returned.
Leak(t) ==
    /\ ~AccurateCallers
    /\ pc[t] = "manual"
    /\ Move(t, "ready", "none")
    /\ UNCHANGED <<idle, checkedOut, expired>>

\* return_client of an object no permit stands for: one taken out with
\* into_inner, or one the pool never saw.
ReturnForeign(t) ==
    /\ ~AccurateCallers
    /\ pc[t] = "ready"
    /\ ReturnClient(t)

-----------------------------------------------------------------------------
Checkout(t) ==
    \/ CheckoutIdle(t)
    \/ CheckoutStartFactory(t)
    \/ CheckoutExhausted(t)
    \/ FactoryOk(t)
    \/ FactoryFails(t)

GiveBack(t) ==
    \/ LeaseDrop(t)
    \/ LeaseIntoInner(t)
    \/ ManualReturn(t)
    \/ Leak(t)
    \/ ReturnForeign(t)

Wait(t) ==
    \/ WaitEnter(t)
    \/ Expire(t)
    \/ TimeoutWake(t)
    \/ SpuriousWake(t)
    \/ Resume(t)

Next == \E t \in Callers : Checkout(t) \/ GiveBack(t) \/ Wait(t)

Spec == Init /\ [][Next]_vars

\* A woken thread gets the mutex: no critical section blocks or loops.
ResumeFairness == \A t \in Callers : WF_vars(Resume(t))

\* Time passes, and the platform ends a wait whose deadline is over.
ClockFairness == \A t \in Callers : WF_vars(Expire(t)) /\ WF_vars(TimeoutWake(t))

\* No clock: a waiter may rely on notifications only.
NotifySpec == Spec /\ ResumeFairness

-----------------------------------------------------------------------------
(* Properties.                                                             *)

\* The variables have their types.
TypeOK ==
    /\ idle \in Nat
    /\ checkedOut \in Nat
    /\ pc \in [Callers -> Where]
    /\ expired \in [Callers -> BOOLEAN]
    /\ outcome \in [Callers -> Outcomes]

\* The pool never accounts for more objects than max_pool_size, lent and idle
\* together, although CheckoutIdle lends without looking at max_pool_size and
\* whatever the callers of the manual entries do.
CapacityBound ==
    /\ checkedOut + idle <= MaxPoolSize
    /\ idle <= MaxIdle

\* checked_out is the number of permits really in use: no path of a factory,
\* a lease, a wait or a timeout forgets one or gives one back twice.
PermitAccounting == AccurateCallers => checkedOut = Cardinality(Holders)

\* While somebody sleeps in checkout_idle_timeout, each idle object has a
\* waiter on its way to it: neither a timeout, a spurious wakeup nor a
\* notification without an object leaves an object idle beside a sleeper.
NoLostWakeup == At({"asleep"}) # {} => idle <= Cardinality(At({"woken"}))

\* Err(PoolExhausted) is answered only while max_pool_size callers hold a
\* permit.
ExhaustedIsTrue ==
    [][\A t \in Callers :
          outcome'[t] = "exhausted" /\ outcome[t] # "exhausted" /\ AccurateCallers
             => Cardinality(Holders) = MaxPoolSize]_vars

\* Ok(None) is answered only when the time is over and nothing is idle.
TimeoutIsTrue ==
    [][\A t \in Callers :
          outcome'[t] = "timeout" /\ outcome[t] # "timeout"
             => expired'[t] /\ idle = 0]_vars

\* When time passes every checkout_idle_timeout ends, however often it is woken
\* for nothing or beaten to the object it was woken for.
EveryWaitEnds == ClockFairness => \A t \in Callers : t \in Waiters ~> t \notin Waiters

\* An object that is idle while somebody sleeps is taken, or the sleeper is
\* woken, without any help from the clock.
IdleIsServed ==
    \A t \in Callers :
        (pc[t] = "asleep" /\ idle > 0) ~> (idle = 0 \/ pc[t] # "asleep")

\* What the pool promises: with callers that return what they check out, it is
\* a counting semaphore of max_pool_size permits.
Promise == INSTANCE PermitSemaphore WITH
    Permits <- MaxPoolSize,
    held <- Holders,
    refused <- Refused

\* Every execution of the pool is one of the semaphore: it lends only while a
\* permit is free and refuses only while none is.
ImplementsSemaphore == Promise!AbsSpec

\* "max_idle ... this implementation uses the same cap": what the comment on
\* PoolConfig::max_idle says, that objects are kept up to max_pool_size.
KeptUpToPoolSize ==
    [][\A t \in Callers :
          LeaseDrop(t) /\ idle < MaxPoolSize => idle' = idle + 1]_vars
=============================================================================
