--------------------------- MODULE PooledDriver ---------------------------
(***************************************************************************)
(* The pool of src/pool.rs holding HTTP drivers, as its documentation has   *)
(* it: tasks of an async executor check a driver out, await one execute of  *)
(* src/http.rs on it, and give it back.                                     *)
(*                                                                         *)
(* A task that a worker polls keeps the worker up to its next await.  The   *)
(* calls of the pool are no awaits: a task that runs a factory, sleeps in   *)
(* checkout_idle_timeout, or tries either of them again and again, has its  *)
(* worker all the time, and with every worker kept nobody else goes on.     *)
(*                                                                         *)
(* Where a task awaits, its future may be dropped.  A lease in it gives     *)
(* driver and permit back.  A driver checked out by hand is dropped with    *)
(* the future, and nothing gives its permit back.                          *)
(*                                                                         *)
(* Of execute all that matters here is that it returns: see HttpExchange    *)
(* and EveryCallReturns of ReqwestHttpDriver.                              *)
(***************************************************************************)
EXTENDS HttpClientPool

CONSTANT Workers    \* the number of threads of the executor

ASSUME WorkersAssumption == Workers \in Nat \ {0}

VARIABLES
    call,       \* the execute of each task: none yet, running, answered
    polled,     \* the tasks that have a worker
    lost        \* history: drivers dropped with the future that held them

taskVars == <<call, polled, lost>>
pooledVars == <<vars, taskVars>>

PooledInit ==
    /\ Init
    /\ call = [t \in Callers |-> "none"]
    /\ polled = {}
    /\ lost = 0

-----------------------------------------------------------------------------
(* The executor.                                                           *)

\* A free worker takes up task t, unless t still waits for its answer.
Poll(t) ==
    /\ t \notin polled
    /\ Cardinality(polled) < Workers
    /\ call[t] # "running"
    /\ polled' = polled \cup {t}
    /\ UNCHANGED <<vars, call, lost>>

\* Task t has no driver in hand and awaits something, as it does when it backs
\* off before it tries again; or it ends, and another begins.
Yield(t) ==
    /\ t \in polled
    /\ pc[t] = "ready"
    /\ polled' = polled \ {t}
    /\ UNCHANGED <<vars, call, lost>>

-----------------------------------------------------------------------------
(* The tasks: calls of the pool keep the worker, execute gives it up.       *)

\* Any pool call of task t but those that give a driver back.
CallPool(t) ==
    /\ t \in polled
    /\ Checkout(t) \/ Wait(t)
    /\ UNCHANGED taskVars

\* execute starts, and suspends; or it refuses the request before its first
\* await, and t goes on.
Execute(t) ==
    /\ t \in polled
    /\ pc[t] \in {"lease", "manual"}
    /\ call[t] = "none"
    /\ \/ /\ call' = [call EXCEPT ![t] = "running"]
          /\ polled' = polled \ {t}
       \/ /\ call' = [call EXCEPT ![t] = "answered"]
          /\ UNCHANGED polled
    /\ UNCHANGED <<vars, lost>>

\* The answer of execute is there, or its time is over: t is to be polled.
Answer(t) ==
    /\ call[t] = "running"
    /\ call' = [call EXCEPT ![t] = "answered"]
    /\ UNCHANGED <<vars, polled, lost>>

GiveBackDriver(t) ==
    /\ t \in polled
    /\ LeaseDrop(t) \/ LeaseIntoInner(t) \/ ManualReturn(t)
    /\ call' = [call EXCEPT ![t] = "none"]
    /\ UNCHANGED <<polled, lost>>

\* Mutant: a lease that is dropped with its future keeps the permit.
DropFutureKeepsPermit(t) ==
    /\ t \notin polled
    /\ pc[t] \in {"lease", "manual"}
    /\ Move(t, "ready", "none")
    /\ lost' = IF pc[t] = "manual" THEN lost + 1 ELSE lost
    /\ call' = [call EXCEPT ![t] = "none"]
    /\ UNCHANGED <<idle, checkedOut, expired, polled>>

\* The future of task t is dropped where it awaits execute: a timeout of the
\* caller, a lost race, an abort.
DropFuture(t) ==
    /\ t \notin polled
    /\ \/ LeaseDrop(t) /\ UNCHANGED lost
       \/ Leak(t) /\ lost' = lost + 1
    /\ call' = [call EXCEPT ![t] = "none"]
    /\ UNCHANGED polled

-----------------------------------------------------------------------------
PooledNext ==
    \E t \in Callers :
        \/ Poll(t)
        \/ Yield(t)
        \/ CallPool(t)
        \/ Execute(t)
        \/ Answer(t)
        \/ GiveBackDriver(t)
        \/ DropFuture(t)

PooledSpec == PooledInit /\ [][PooledNext]_pooledVars

\* A task in a blocking call goes on: factories end, time passes, a woken waiter
\* gets the mutex.
BlockingCallsGoOn ==
    \A t \in Callers :
        /\ WF_pooledVars((FactoryOk(t) \/ FactoryFails(t)) /\ UNCHANGED taskVars)
        /\ WF_pooledVars(Expire(t) /\ UNCHANGED taskVars)
        /\ WF_pooledVars(TimeoutWake(t) /\ UNCHANGED taskVars)
        /\ WF_pooledVars(Resume(t) /\ UNCHANGED taskVars)

\* execute returns by its total timeout; a task with an answer is polled in the
\* end if a worker is free time and again; and it parts with its driver then.
RequestsGoOn ==
    \A t \in Callers :
        /\ WF_pooledVars(Answer(t))
        /\ SF_pooledVars(Poll(t))
        /\ WF_pooledVars(Execute(t) \/ GiveBackDriver(t))

PooledFairSpec == PooledSpec /\ BlockingCallsGoOn /\ RequestsGoOn

-----------------------------------------------------------------------------
(* Properties.                                                             *)

Running == {t \in Callers : call[t] = "running"}

\* Every permit that is taken is in somebody's hands or went with a driver that
\* was checked out by hand: a lease that is dropped with its future, a factory
\* that fails and a wait that ends lose none.
PermitsAreHeldOrLost == checkedOut = Cardinality(Holders) + lost

\* The pool bounds the requests in flight, and each permit that was lost is a
\* request less for ever.
InFlightBounded == Cardinality(Running) + lost <= MaxPoolSize

\* A task that finds no driver awaits something before it tries for ever, as the
\* documentation of PoolExhausted has it.
RefusedTasksBackOff == \A t \in Callers : SF_pooledVars(Yield(t))

\* A pool that is exhausted does not stay so while a permit is left that can come
\* back, although tasks that wait for an idle driver keep the workers from those
\* that would give one back.
ExhaustionIsTemporary ==
    RefusedTasksBackOff =>
        (checkedOut = MaxPoolSize /\ lost < MaxPoolSize
             ~> checkedOut < MaxPoolSize \/ lost = MaxPoolSize)
=============================================================================
