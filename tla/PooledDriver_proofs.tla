----------------------- MODULE PooledDriver_proofs -----------------------
(***************************************************************************)
(* Proofs about PooledDriver, for every number of tasks and workers and     *)
(* every valid configuration of the pool, and whether or not futures that   *)
(* hold a bare driver are dropped.                                         *)
(*                                                                         *)
(* The executor only restricts when the calls of the pool are made, so the  *)
(* bound of HttpClientPool_proofs on checked_out holds.  How checked_out is *)
(* made up of holders and losses is proved here; RunningHold, that a        *)
(* request runs on a driver in hand, turns it into a bound on requests.     *)
(***************************************************************************)
EXTENDS PooledDriver, HttpClientPool_proofs

\* Every step of a task is one of the pool, or none.
LEMMA PoolStep ==
    ASSUME [PooledNext]_pooledVars
    PROVE  [Next]_vars
  <1>1. CASE UNCHANGED pooledVars
    BY <1>1 DEF pooledVars
  <1>2. ASSUME NEW t \in Callers, CallPool(t) PROVE Next
    BY <1>2 DEF CallPool, Next
  <1>3. ASSUME NEW t \in Callers, Poll(t) \/ Yield(t) \/ Execute(t) \/ Answer(t)
        PROVE  UNCHANGED vars
    BY <1>3 DEF Poll, Yield, Execute, Answer
  <1>4. ASSUME NEW t \in Callers, GiveBackDriver(t) \/ DropFuture(t) PROVE Next
    BY <1>4 DEF GiveBackDriver, DropFuture, Next, GiveBack
  <1> QED BY <1>1, <1>2, <1>3, <1>4 DEF PooledNext

\* The types and the bound of the pool hold of its tasks.
LEMMA PooledIsPool == PooledSpec => [](TypeOK /\ CapacityBound)
  <1>1. PooledInit => Init
    BY DEF PooledInit
  <1>2. [PooledNext]_pooledVars => [Next]_vars
    BY PoolStep
  <1> QED BY <1>1, <1>2, TypeCorrect, Capacity, PTL DEF PooledSpec, Spec

-----------------------------------------------------------------------------
(* Permits held and lost.                                                  *)

LostAndHeld == lost \in Nat /\ PermitsAreHeldOrLost

\* A driver that goes with the future that holds it takes its permit along.
LEMMA LeakLoses ==
    ASSUME TypeOK, LostAndHeld, NEW t \in Callers, Leak(t), lost' = lost + 1
    PROVE  LostAndHeld'
  <1>1. t \in Holders /\ checkedOut' = checkedOut
    BY DEF Leak, Holders, At
  <1>2. Holders' = Holders \ {t}
    BY HoldersMove DEF Leak, Where, Outcomes
  <1>3. Cardinality(Holders') = Cardinality(Holders) - 1
    BY <1>1, <1>2, HoldersCount
  <1>4. Cardinality(Holders)' = Cardinality(Holders) - 1
    BY <1>3
  <1> QED BY <1>1, <1>4, HoldersCardinality DEF LostAndHeld, PermitsAreHeldOrLost

\* No other step loses a permit or finds one.
LEMMA LostAndHeldStep ==
    ASSUME TypeOK, LostAndHeld, [PooledNext]_pooledVars
    PROVE  LostAndHeld'
  <1>1. CASE lost' = lost /\ (UNCHANGED vars \/ \E t \in Callers : AccurateStep(t))
    <2>1. PICK k \in Nat : k = lost
      BY DEF LostAndHeld
    <2>2. Counted(k)
      BY <2>1 DEF LostAndHeld, PermitsAreHeldOrLost, Counted
    <2>3. Counted(k)'
      BY <1>1, <2>2, CountedStep
    <2> QED BY <1>1, <2>1, <2>3 DEF LostAndHeld, PermitsAreHeldOrLost, Counted
  <1>2. CASE UNCHANGED pooledVars
    BY <1>1, <1>2 DEF pooledVars, taskVars
  <1>3. ASSUME NEW t \in Callers, Poll(t) \/ Yield(t) \/ Execute(t) \/ Answer(t)
        PROVE  LostAndHeld'
    BY <1>1, <1>3 DEF Poll, Yield, Execute, Answer
  <1>4. ASSUME NEW t \in Callers, CallPool(t) PROVE LostAndHeld'
    BY <1>1, <1>4 DEF CallPool, taskVars, AccurateStep
  <1>5. ASSUME NEW t \in Callers, GiveBackDriver(t) PROVE LostAndHeld'
    BY <1>1, <1>5 DEF GiveBackDriver, AccurateStep
  <1>6. ASSUME NEW t \in Callers, DropFuture(t) PROVE LostAndHeld'
    BY <1>1, <1>6, LeakLoses DEF DropFuture, AccurateStep
  <1> QED BY <1>2, <1>3, <1>4, <1>5, <1>6 DEF PooledNext

\* Every permit is in a task's hands or went with a bare driver whose future was
\* dropped; leases, factories and waits lose none.
THEOREM NoOtherPermitIsLost == PooledSpec => []PermitsAreHeldOrLost
  <1>1. PooledInit => LostAndHeld
    <2>1. PooledInit => Holders = {} BY DEF PooledInit, Init, Holders, At
    <2> QED BY <2>1, FS_EmptySet DEF PooledInit, Init, LostAndHeld, PermitsAreHeldOrLost
  <1>2. TypeOK /\ LostAndHeld /\ [PooledNext]_pooledVars => LostAndHeld'
    BY LostAndHeldStep
  <1>3. LostAndHeld => PermitsAreHeldOrLost
    BY DEF LostAndHeld
  <1> QED BY <1>1, <1>2, <1>3, PooledIsPool, PTL DEF PooledSpec

-----------------------------------------------------------------------------
(* Requests in flight.                                                     *)

RunningHold ==
    /\ call \in [Callers -> {"none", "running", "answered"}]
    /\ \A t \in Callers : call[t] = "running" => pc[t] \in {"lease", "manual"}
    /\ \A t \in polled : call[t] # "running"

\* A call of the pool by t takes no driver from the others.
OthersKeep(t) ==
    \A u \in Callers \ {t} : pc[u] \in {"lease", "manual"} => pc'[u] = pc[u]

LEMMA MoveKeeps ==
    ASSUME TypeOK, NEW t \in Callers, NEW where, NEW result, Move(t, where, result)
    PROVE  OthersKeep(t)
  BY DEF TypeOK, Move, OthersKeep

LEMMA NotifyKeeps ==
    ASSUME TypeOK, NEW t \in Callers, NEW where, NEW result,
           MoveAndNotifyOne(t, where, result)
    PROVE  OthersKeep(t)
  BY DEF TypeOK, MoveAndNotifyOne, At, OthersKeep

LEMMA WaitLoopKeeps ==
    ASSUME TypeOK, NEW t \in Callers, NEW over, WaitLoop(t, over)
    PROVE  OthersKeep(t)
  BY MoveKeeps DEF WaitLoop

LEMMA CallPoolKeeps ==
    ASSUME TypeOK, NEW t \in Callers, Checkout(t) \/ Wait(t)
    PROVE  OthersKeep(t)
  <1>1. CASE Checkout(t)
    BY <1>1, MoveKeeps, NotifyKeeps
       DEF Checkout, CheckoutIdle, CheckoutStartFactory, CheckoutExhausted, FactoryOk,
           FactoryFails, ReleasePermit
  <1>2. CASE WaitEnter(t) \/ Resume(t)
    BY <1>2, MoveKeeps, WaitLoopKeeps DEF WaitEnter, Resume
  <1>3. CASE Expire(t)
    BY <1>3 DEF Expire, OthersKeep
  <1>4. CASE TimeoutWake(t) \/ SpuriousWake(t)
    BY <1>4, MoveKeeps DEF TimeoutWake, SpuriousWake
  <1> QED BY <1>1, <1>2, <1>3, <1>4 DEF Wait

\* A request begins with a driver in hand, and its task parts with the driver
\* only when the request is over or dropped.
LEMMA RunningStep ==
    ASSUME TypeOK, RunningHold, [PooledNext]_pooledVars
    PROVE  RunningHold'
  <1> USE DEF RunningHold
  <1>1. CASE UNCHANGED pooledVars
    BY <1>1 DEF pooledVars, taskVars, vars
  <1>2. ASSUME NEW t \in Callers, Poll(t) \/ Yield(t) PROVE RunningHold'
    BY <1>2 DEF Poll, Yield, vars
  <1>3. ASSUME NEW t \in Callers, CallPool(t) PROVE RunningHold'
    <2>1. call[t] # "running" /\ OthersKeep(t) /\ UNCHANGED taskVars
      BY <1>3, CallPoolKeeps DEF CallPool
    <2> QED BY <2>1 DEF OthersKeep, taskVars
  <1>4. ASSUME NEW t \in Callers, Execute(t) PROVE RunningHold'
    <2>1. pc' = pc /\ pc[t] \in {"lease", "manual"}
      BY <1>4 DEF Execute, vars
    <2>2. CASE call' = [call EXCEPT ![t] = "running"] /\ polled' = polled \ {t}
      BY <2>1, <2>2
    <2>3. CASE call' = [call EXCEPT ![t] = "answered"] /\ polled' = polled
      BY <2>1, <2>3
    <2> QED BY <1>4, <2>2, <2>3 DEF Execute
  <1>5. ASSUME NEW t \in Callers, Answer(t) PROVE RunningHold'
    BY <1>5 DEF Answer, vars
  <1>6. ASSUME NEW t \in Callers, GiveBackDriver(t) \/ DropFuture(t) PROVE RunningHold'
    <2>1. call' = [call EXCEPT ![t] = "none"] /\ polled' = polled
      BY <1>6 DEF GiveBackDriver, DropFuture
    <2>2. OthersKeep(t)
      BY <1>6, MoveKeeps, NotifyKeeps
         DEF GiveBackDriver, DropFuture, LeaseDrop, LeaseIntoInner, ManualReturn,
             ReturnClient, ReleasePermit, Leak
    <2> QED BY <2>1, <2>2 DEF OthersKeep
  <1> QED BY <1>1, <1>2, <1>3, <1>4, <1>5, <1>6 DEF PooledNext

\* The pool bounds the requests in flight by the permits that are not lost.
THEOREM InFlightIsBounded == PooledSpec => []InFlightBounded
  <1>1. PooledInit => RunningHold
    BY DEF PooledInit, RunningHold
  <1>2. TypeOK /\ RunningHold /\ [PooledNext]_pooledVars => RunningHold'
    BY RunningStep
  <1>3. TypeOK /\ CapacityBound /\ LostAndHeld /\ RunningHold => InFlightBounded
    <2> SUFFICES ASSUME TypeOK, CapacityBound, LostAndHeld, RunningHold
                 PROVE  InFlightBounded
      OBVIOUS
    <2>1. Running \subseteq Holders
      BY DEF RunningHold, Running, Holders, At
    <2>2. IsFiniteSet(Holders) /\ Cardinality(Holders) \in Nat
          /\ Cardinality(Holders) + lost <= MaxPoolSize
      BY AtFinite, ConfigAssumption
         DEF TypeOK, CapacityBound, LostAndHeld, PermitsAreHeldOrLost, Holders
    <2>3. Cardinality(Running) \in Nat /\ Cardinality(Running) <= Cardinality(Holders)
      BY <2>1, <2>2, FS_Subset, FS_CardinalityType
    <2> QED BY <2>2, <2>3, ConfigAssumption DEF InFlightBounded, LostAndHeld
  <1>4. PooledInit => LostAndHeld
    <2>1. PooledInit => Holders = {} BY DEF PooledInit, Init, Holders, At
    <2> QED BY <2>1, FS_EmptySet DEF PooledInit, Init, LostAndHeld, PermitsAreHeldOrLost
  <1>5. TypeOK /\ LostAndHeld /\ [PooledNext]_pooledVars => LostAndHeld'
    BY LostAndHeldStep
  <1> QED BY <1>1, <1>2, <1>3, <1>4, <1>5, PooledIsPool, PTL DEF PooledSpec
=============================================================================
