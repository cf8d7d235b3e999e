---------------------- MODULE HttpClientPool_proofs ----------------------
(***************************************************************************)
(* Proofs about HttpClientPool, for every finite set of callers and every   *)
(* valid configuration.                                                    *)
(*                                                                         *)
(* TypeOK and CapacityBound are inductive together, and PermitAccounting    *)
(* and NoLostWakeup are inductive beside them: each has a lemma of its own  *)
(* about a step (BoundStep, PermitStep, WakeupStep).                        *)
(***************************************************************************)
EXTENDS HttpClientPool, FiniteSetTheorems, TLAPS

USE DEF Where, Outcomes

-----------------------------------------------------------------------------
(* What a step of a caller does to the sets of callers at a place.         *)

\* The callers at some places are finitely many.
LEMMA AtFinite ==
    ASSUME NEW S
    PROVE  IsFiniteSet(At(S)) /\ Cardinality(At(S)) \in Nat
  BY CallersAssumption, FS_Subset, FS_CardinalityType DEF At

\* One member more or less of a finite set.
LEMMA OneMoreOrLess ==
    ASSUME NEW S, IsFiniteSet(S), NEW x
    PROVE  /\ Cardinality(S \cup {x}) \in Nat
           /\ Cardinality(S \cup {x}) >= Cardinality(S)
           /\ Cardinality(S \ {x}) \in Nat
           /\ Cardinality(S \ {x}) >= Cardinality(S) - 1
  <1>1. Cardinality(S) \in Nat
    BY FS_CardinalityType
  <1>2. /\ IsFiniteSet(S \cup {x})
        /\ IsFiniteSet(S \ {x})
        /\ \/ Cardinality(S \cup {x}) = Cardinality(S)
           \/ Cardinality(S \cup {x}) = Cardinality(S) + 1
        /\ \/ Cardinality(S \ {x}) = Cardinality(S)
           \/ Cardinality(S \ {x}) = Cardinality(S) - 1
    BY FS_AddElement, FS_RemoveElement
  <1>3. Cardinality(S \ {x}) \in Nat
    BY <1>2, FS_CardinalityType
  <1> QED BY <1>1, <1>2, <1>3

\* A caller that moves enters or leaves the sets it moves to or from.
LEMMA MoveAt ==
    ASSUME TypeOK,
           NEW t \in Callers, NEW where \in Where, NEW answer \in Outcomes,
           Move(t, where, answer)
    PROVE  /\ pc' \in [Callers -> Where]
           /\ outcome' \in [Callers -> Outcomes]
           /\ \A S \in SUBSET Where :
                 At(S)' = IF where \in S THEN At(S) \cup {t} ELSE At(S) \ {t}
  BY DEF TypeOK, Move, At

\* A caller that leaves and notifies: besides it, at most one sleeper moves,
\* and one does when there is one.
LEMMA NotifyAt ==
    ASSUME TypeOK,
           NEW t \in Callers, pc[t] \notin {"asleep", "woken"},
           NEW answer \in Outcomes,
           MoveAndNotifyOne(t, "ready", answer)
    PROVE  /\ pc' \in [Callers -> Where]
           /\ outcome' \in [Callers -> Outcomes]
           /\ Holders' = Holders \ {t}
           /\ \/ At({"asleep"}) = {} /\ At({"asleep"})' = {}
              \/ /\ At({"asleep"}) # {}
                 /\ \E w \in Callers \ At({"woken"}) :
                       At({"woken"})' = At({"woken"}) \cup {w}
  BY DEF TypeOK, MoveAndNotifyOne, At, Holders

\* The ways an object or a permit can change hands, without the callers.
LEMMA CountsStep ==
    ASSUME TypeOK, CapacityBound
    PROVE  /\ PopIdle => /\ idle' \in Nat /\ checkedOut' \in Nat
                         /\ CapacityBound'
           /\ GivePermitBack => checkedOut' \in Nat
           /\ GivePermitBack /\ idle' = idle => CapacityBound'
           /\ KeepOrDrop => idle' \in Nat
           /\ GivePermitBack /\ KeepOrDrop => CapacityBound'
  BY ConfigAssumption
     DEF TypeOK, CapacityBound, PopIdle, GivePermitBack, KeepOrDrop, ValidConfig

-----------------------------------------------------------------------------
(* Types and capacity.                                                     *)

\* The shared tail of LeaseDrop, ManualReturn and ReturnForeign.
LEMMA ReturnClientBound ==
    ASSUME TypeOK, CapacityBound,
           NEW t \in Callers, pc[t] \notin {"asleep", "woken"}, ReturnClient(t)
    PROVE  TypeOK' /\ CapacityBound'
  BY NotifyAt, CountsStep DEF ReturnClient, TypeOK

\* The shared tail of FactoryFails and LeaseIntoInner.
LEMMA ReleasePermitBound ==
    ASSUME TypeOK, CapacityBound,
           NEW t \in Callers, pc[t] \notin {"asleep", "woken"},
           NEW answer \in Outcomes, ReleasePermit(t, answer)
    PROVE  TypeOK' /\ CapacityBound'
  BY NotifyAt, CountsStep DEF ReleasePermit, TypeOK

\* A pass through the loop of checkout_idle_timeout.
LEMMA WaitLoopBound ==
    ASSUME TypeOK, CapacityBound,
           NEW t \in Callers, NEW over \in BOOLEAN, WaitLoop(t, over)
    PROVE  /\ idle' \in Nat /\ checkedOut' \in Nat
           /\ pc' \in [Callers -> Where] /\ outcome' \in [Callers -> Outcomes]
           /\ CapacityBound'
  <1>1. CASE PopIdle /\ Move(t, "manual", "object")
    BY <1>1, MoveAt, CountsStep
  <1>2. CASE Move(t, "ready", "timeout") /\ UNCHANGED <<idle, checkedOut>>
    BY <1>2, MoveAt DEF TypeOK, CapacityBound
  <1>3. CASE Move(t, "asleep", "none") /\ UNCHANGED <<idle, checkedOut>>
    BY <1>3, MoveAt DEF TypeOK, CapacityBound
  <1> QED BY <1>1, <1>2, <1>3 DEF WaitLoop

\* Every step keeps the types and the capacity.
LEMMA BoundStep ==
    ASSUME TypeOK, CapacityBound, [Next]_vars
    PROVE  TypeOK' /\ CapacityBound'
  <1>1. CASE UNCHANGED vars
    BY <1>1 DEF vars, TypeOK, CapacityBound
  <1>2. ASSUME NEW t \in Callers, Checkout(t)
        PROVE  TypeOK' /\ CapacityBound'
    <2>1. CASE CheckoutIdle(t)
      BY <2>1, MoveAt, CountsStep DEF CheckoutIdle, TypeOK
    <2>2. CASE CheckoutStartFactory(t)
      <3>1. Move(t, "factory", "none") BY <2>2 DEF CheckoutStartFactory
      <3>2. pc' \in [Callers -> Where] /\ outcome' \in [Callers -> Outcomes]
        BY <3>1, MoveAt
      <3> QED BY <2>2, <3>2, ConfigAssumption
              DEF CheckoutStartFactory, PermitFree, TypeOK, CapacityBound,
                  ValidConfig
    <2>3. CASE CheckoutExhausted(t)
      BY <2>3, MoveAt DEF CheckoutExhausted, TypeOK, CapacityBound
    <2>4. CASE FactoryOk(t)
      BY <2>4, MoveAt DEF FactoryOk, TypeOK, CapacityBound
    <2>5. CASE FactoryFails(t)
      BY <2>5, ReleasePermitBound DEF FactoryFails
    <2> QED BY <1>2, <2>1, <2>2, <2>3, <2>4, <2>5 DEF Checkout
  <1>3. ASSUME NEW t \in Callers, GiveBack(t)
        PROVE  TypeOK' /\ CapacityBound'
    <2>1. CASE LeaseDrop(t) \/ ManualReturn(t) \/ ReturnForeign(t)
      BY <2>1, ReturnClientBound DEF LeaseDrop, ManualReturn, ReturnForeign
    <2>2. CASE LeaseIntoInner(t)
      BY <2>2, ReleasePermitBound DEF LeaseIntoInner
    <2>3. CASE Leak(t)
      BY <2>3, MoveAt DEF Leak, TypeOK, CapacityBound
    <2> QED BY <1>3, <2>1, <2>2, <2>3 DEF GiveBack
  <1>4. ASSUME NEW t \in Callers, Wait(t)
        PROVE  TypeOK' /\ CapacityBound'
    <2>1. CASE WaitEnter(t)
      <3>1. PICK zero \in BOOLEAN :
               expired' = [expired EXCEPT ![t] = zero] /\ WaitLoop(t, zero)
        BY <2>1 DEF WaitEnter
      <3> QED BY <3>1, WaitLoopBound DEF TypeOK
    <2>2. CASE Expire(t)
      BY <2>2 DEF Expire, TypeOK, CapacityBound
    <2>3. CASE TimeoutWake(t) \/ SpuriousWake(t)
      BY <2>3, MoveAt DEF TimeoutWake, SpuriousWake, TypeOK, CapacityBound
    <2>4. CASE Resume(t)
      <3>1. expired[t] \in BOOLEAN /\ UNCHANGED expired
        BY <2>4 DEF Resume, TypeOK
      <3>2. CASE WaitLoop(t, expired[t])
        BY <3>1, <3>2, WaitLoopBound DEF TypeOK
      <3>3. CASE Move(t, "ready", "timeout") /\ UNCHANGED <<idle, checkedOut>>
        BY <3>1, <3>3, MoveAt DEF TypeOK, CapacityBound
      <3> QED BY <2>4, <3>2, <3>3 DEF Resume
    <2> QED BY <1>4, <2>1, <2>2, <2>3, <2>4 DEF Wait
  <1> QED BY <1>1, <1>2, <1>3, <1>4 DEF Next

\* The variables of the pool always have their types.
THEOREM TypeCorrect == Spec => []TypeOK
  <1>1. Init => TypeOK /\ CapacityBound
    BY ConfigAssumption DEF Init, TypeOK, CapacityBound, ValidConfig
  <1>2. TypeOK /\ CapacityBound /\ [Next]_vars => TypeOK' /\ CapacityBound'
    BY BoundStep
  <1> QED BY <1>1, <1>2, PTL DEF Spec

\* Whatever its callers do, the pool never accounts for more than
\* max_pool_size objects nor keeps more than max_idle.
THEOREM Capacity == Spec => []CapacityBound
  <1>1. Init => TypeOK /\ CapacityBound
    BY ConfigAssumption DEF Init, TypeOK, CapacityBound, ValidConfig
  <1>2. TypeOK /\ CapacityBound /\ [Next]_vars => TypeOK' /\ CapacityBound'
    BY BoundStep
  <1> QED BY <1>1, <1>2, PTL DEF Spec

-----------------------------------------------------------------------------
(* Permits.                                                                *)

\* Who holds a permit after a step that is no notification.
LEMMA HoldersMove ==
    ASSUME TypeOK,
           NEW t \in Callers, NEW where \in Where, NEW answer \in Outcomes,
           Move(t, where, answer)
    PROVE  Holders' = IF where \in {"factory", "lease", "manual"}
                      THEN Holders \cup {t} ELSE Holders \ {t}
  BY DEF TypeOK, Move, At, Holders

\* A caller that takes a permit it did not have makes one holder more, and one
\* that gives its permit back one less.
LEMMA HoldersCount ==
    ASSUME NEW t \in Callers
    PROVE  /\ IsFiniteSet(Holders) /\ Cardinality(Holders) \in Nat
           /\ t \notin Holders =>
                 Cardinality(Holders \cup {t}) = Cardinality(Holders) + 1
           /\ t \in Holders =>
                 /\ Cardinality(Holders) > 0
                 /\ Cardinality(Holders \ {t}) = Cardinality(Holders) - 1
           /\ t \notin Holders => Holders \ {t} = Holders
           /\ t \in Holders => Holders \cup {t} = Holders
  <1>1. IsFiniteSet(Holders) /\ Cardinality(Holders) \in Nat
    BY AtFinite DEF Holders
  <1>2. ASSUME t \notin Holders
        PROVE  /\ Cardinality(Holders \cup {t}) = Cardinality(Holders) + 1
               /\ Holders \ {t} = Holders
    BY <1>1, <1>2, FS_AddElement
  <1>3. ASSUME t \in Holders
        PROVE  /\ Cardinality(Holders) > 0
               /\ Cardinality(Holders \ {t}) = Cardinality(Holders) - 1
               /\ Holders \cup {t} = Holders
    <2>1. Cardinality(Holders) # 0
      BY <1>1, <1>3, FS_EmptySet
    <2>2. Cardinality(Holders \ {t}) = Cardinality(Holders) - 1
      BY <1>1, <1>3, FS_RemoveElement
    <2> QED BY <1>1, <1>3, <2>1, <2>2
  <1> QED BY <1>1, <1>2, <1>3

\* checked_out stands for the holders and k permits more.
Counted(k) == checkedOut = Cardinality(Holders) + k

LEMMA HoldersCardinality ==
    Cardinality(Holders) \in Nat /\ Cardinality(Holders)' \in Nat
  <1>1. Holders \subseteq Callers /\ Holders' \subseteq Callers
    BY DEF Holders, At
  <1>2. Cardinality(Holders) \in Nat /\ Cardinality(Holders') \in Nat
    BY <1>1, CallersAssumption, FS_Subset, FS_CardinalityType
  <1> QED BY <1>2

\* The steps that free a permit free the one of the caller.
LEMMA GiveBackPermits ==
    ASSUME TypeOK, NEW k \in Nat, Counted(k), NEW t \in Holders,
           NEW answer \in Outcomes,
           GivePermitBack, MoveAndNotifyOne(t, "ready", answer)
    PROVE  Counted(k)' /\ Holders' = Holders \ {t}
  <1>1. t \in Callers /\ pc[t] \notin {"asleep", "woken"}
    BY DEF Holders, At
  <1>2. Holders' = Holders \ {t}
    BY <1>1, NotifyAt
  <1> QED BY <1>1, <1>2, HoldersCount DEF Counted, GivePermitBack

\* A pass through the wait loop takes a permit, or leaves them alone.
LEMMA WaitLoopPermits ==
    ASSUME TypeOK, NEW k \in Nat, Counted(k),
           NEW t \in Callers, t \notin Holders,
           NEW over \in BOOLEAN, WaitLoop(t, over)
    PROVE  Counted(k)'
  <1>1. CASE PopIdle /\ Move(t, "manual", "object")
    BY <1>1, HoldersMove, HoldersCount DEF Counted, PopIdle, TypeOK
  <1>2. CASE Move(t, "ready", "timeout") /\ UNCHANGED <<idle, checkedOut>>
    BY <1>2, HoldersMove, HoldersCount DEF Counted
  <1>3. CASE Move(t, "asleep", "none") /\ UNCHANGED <<idle, checkedOut>>
    BY <1>3, HoldersMove, HoldersCount DEF Counted
  <1> QED BY <1>1, <1>2, <1>3 DEF WaitLoop

\* A step of a caller that gives back what it took out, and nothing else.
AccurateStep(t) ==
    Checkout(t) \/ LeaseDrop(t) \/ LeaseIntoInner(t) \/ ManualReturn(t) \/ Wait(t)

\* Such a step takes as many permits as it makes holders.
LEMMA CountedStep ==
    ASSUME TypeOK, NEW k \in Nat, Counted(k),
           UNCHANGED vars \/ \E t \in Callers : AccurateStep(t)
    PROVE  Counted(k)'
  <1> USE DEF Counted
  <1>1. CASE UNCHANGED vars
    BY <1>1 DEF vars, Holders, At
  <1>2. ASSUME NEW t \in Callers, Checkout(t) PROVE Counted(k)'
    <2>1. CASE CheckoutIdle(t)
      <3>1. t \notin Holders BY <2>1 DEF CheckoutIdle, Holders, At
      <3>2. Holders' = Holders \cup {t}
        BY <2>1, HoldersMove DEF CheckoutIdle
      <3> QED BY <2>1, <3>1, <3>2, HoldersCount DEF CheckoutIdle, PopIdle, TypeOK
    <2>2. CASE CheckoutStartFactory(t)
      <3>1. t \notin Holders BY <2>2 DEF CheckoutStartFactory, Holders, At
      <3>2. Holders' = Holders \cup {t}
        BY <2>2, HoldersMove DEF CheckoutStartFactory
      <3> QED BY <2>2, <3>1, <3>2, HoldersCount DEF CheckoutStartFactory, TypeOK
    <2>3. CASE CheckoutExhausted(t)
      <3>1. t \notin Holders BY <2>3 DEF CheckoutExhausted, Holders, At
      <3>2. Holders' = Holders
        BY <2>3, <3>1, HoldersMove DEF CheckoutExhausted
      <3> QED BY <2>3, <3>2 DEF CheckoutExhausted
    <2>4. CASE FactoryOk(t)
      <3>1. t \in Holders BY <2>4 DEF FactoryOk, Holders, At
      <3>2. Holders' = Holders
        BY <2>4, <3>1, HoldersMove DEF FactoryOk
      <3> QED BY <2>4, <3>2 DEF FactoryOk
    <2>5. CASE FactoryFails(t)
      <3>1. t \in Holders BY <2>5 DEF FactoryFails, Holders, At
      <3> QED BY <2>5, <3>1, GiveBackPermits DEF FactoryFails, ReleasePermit
    <2> QED BY <1>2, <2>1, <2>2, <2>3, <2>4, <2>5 DEF Checkout
  <1>3. ASSUME NEW t \in Callers, LeaseDrop(t) \/ LeaseIntoInner(t) \/ ManualReturn(t)
        PROVE  Counted(k)'
    <2>1. CASE LeaseDrop(t) \/ ManualReturn(t)
      <3>1. t \in Holders BY <2>1 DEF LeaseDrop, ManualReturn, Holders, At
      <3> QED BY <2>1, <3>1, GiveBackPermits
              DEF LeaseDrop, ManualReturn, ReturnClient
    <2>2. CASE LeaseIntoInner(t)
      <3>1. t \in Holders BY <2>2 DEF LeaseIntoInner, Holders, At
      <3> QED BY <2>2, <3>1, GiveBackPermits DEF LeaseIntoInner, ReleasePermit
    <2> QED BY <1>3, <2>1, <2>2
  <1>4. ASSUME NEW t \in Callers, Wait(t) PROVE Counted(k)'
    <2>1. CASE WaitEnter(t)
      <3>1. PICK zero \in BOOLEAN : WaitLoop(t, zero)
        BY <2>1 DEF WaitEnter
      <3>2. t \notin Holders BY <2>1 DEF WaitEnter, Holders, At
      <3> QED BY <3>1, <3>2, WaitLoopPermits
    <2>2. CASE Expire(t)
      BY <2>2 DEF Expire, Holders, At
    <2>3. CASE TimeoutWake(t) \/ SpuriousWake(t)
      <3>1. t \notin Holders
        BY <2>3 DEF TimeoutWake, SpuriousWake, Holders, At
      <3>2. Holders' = Holders
        BY <2>3, <3>1, HoldersMove DEF TimeoutWake, SpuriousWake
      <3> QED BY <2>3, <3>2 DEF TimeoutWake, SpuriousWake
    <2>4. CASE Resume(t)
      <3>1. t \notin Holders BY <2>4 DEF Resume, Holders, At
      <3>2. CASE WaitLoop(t, expired[t])
        BY <3>1, <3>2, WaitLoopPermits DEF TypeOK
      <3>3. CASE Move(t, "ready", "timeout") /\ UNCHANGED <<idle, checkedOut>>
        BY <3>1, <3>3, HoldersMove
      <3> QED BY <2>4, <3>2, <3>3 DEF Resume
    <2> QED BY <1>4, <2>1, <2>2, <2>3, <2>4 DEF Wait
  <1> QED BY <1>1, <1>2, <1>3, <1>4 DEF AccurateStep

\* Every step keeps checked_out equal to the number of holders.
LEMMA PermitStep ==
    ASSUME TypeOK, PermitAccounting, [Next]_vars
    PROVE  PermitAccounting'
  <1> SUFFICES ASSUME AccurateCallers PROVE PermitAccounting'
    BY DEF PermitAccounting
  <1>1. UNCHANGED vars \/ \E t \in Callers : AccurateStep(t)
    BY DEF Next, GiveBack, AccurateStep, Leak, ReturnForeign
  <1>2. Counted(0)
    BY HoldersCardinality DEF Counted, PermitAccounting
  <1>3. Counted(0)'
    BY <1>1, <1>2, CountedStep
  <1> QED BY <1>3, HoldersCardinality DEF Counted, PermitAccounting

\* checked_out is exactly the number of callers that hold a permit, as long as
\* manual checkouts are returned.
THEOREM PermitsAreCounted == Spec => []PermitAccounting
  <1>1. Init => PermitAccounting
    <2>1. Init => Holders = {} BY DEF Init, Holders, At
    <2> QED BY <2>1, FS_EmptySet DEF Init, PermitAccounting
  <1>2. TypeOK /\ PermitAccounting /\ [Next]_vars => PermitAccounting'
    BY PermitStep
  <1> QED BY <1>1, <1>2, TypeCorrect, PTL DEF Spec

-----------------------------------------------------------------------------
(* Wakeups.                                                                *)

\* Where the waiters are after a step that is no notification.
LEMMA WaitersMove ==
    ASSUME TypeOK,
           NEW t \in Callers, NEW where \in Where, NEW answer \in Outcomes,
           Move(t, where, answer)
    PROVE  /\ At({"asleep"})' = IF where = "asleep"
                                THEN At({"asleep"}) \cup {t}
                                ELSE At({"asleep"}) \ {t}
           /\ At({"woken"})' = IF where = "woken"
                               THEN At({"woken"}) \cup {t}
                               ELSE At({"woken"}) \ {t}
  BY DEF TypeOK, Move, At

\* A caller that is no waiter and neither becomes one nor adds an idle object.
LEMMA OutsiderWakeups ==
    ASSUME TypeOK, NoLostWakeup,
           NEW t \in Callers, pc[t] \notin {"asleep", "woken"},
           NEW where \in Where \ {"asleep", "woken"}, NEW answer \in Outcomes,
           Move(t, where, answer), idle' \in Nat, idle' <= idle
    PROVE  NoLostWakeup'
  <1>1. At({"asleep"})' = At({"asleep"}) /\ At({"woken"})' = At({"woken"})
    BY WaitersMove DEF At
  <1>2. Cardinality(At({"woken"})) \in Nat
    BY AtFinite
  <1> QED BY <1>1, <1>2 DEF NoLostWakeup, TypeOK

\* A notification accounts for the one object that may come with it.
LEMMA NotifyWakeups ==
    ASSUME TypeOK, NoLostWakeup,
           NEW t \in Callers, pc[t] \notin {"asleep", "woken"},
           NEW answer \in Outcomes,
           MoveAndNotifyOne(t, "ready", answer),
           idle' \in Nat, idle' <= idle + 1
    PROVE  NoLostWakeup'
  <1>1. CASE At({"asleep"})' = {}
    BY <1>1 DEF NoLostWakeup
  <1>2. ASSUME At({"asleep"}) # {},
               NEW w \in Callers \ At({"woken"}),
               At({"woken"})' = At({"woken"}) \cup {w}
        PROVE  NoLostWakeup'
    <2>1. /\ Cardinality(At({"woken"})) \in Nat
          /\ Cardinality(At({"woken"}) \cup {w}) = Cardinality(At({"woken"})) + 1
      BY AtFinite, FS_AddElement
    <2>2. Cardinality(At({"woken"}))' = Cardinality(At({"woken"})) + 1
      BY <1>2, <2>1
    <2> QED BY <1>2, <2>1, <2>2 DEF NoLostWakeup, TypeOK
  <1> QED BY <1>1, <1>2, NotifyAt

\* One pass through the wait loop: a waiter leaves with an object, or when
\* there is none.
LEMMA WaitLoopWakeups ==
    ASSUME TypeOK, NoLostWakeup, NEW t \in Callers, pc[t] # "asleep",
           NEW over \in BOOLEAN, WaitLoop(t, over)
    PROVE  NoLostWakeup'
  <1>1. IsFiniteSet(At({"woken"})) /\ Cardinality(At({"woken"})) \in Nat
    BY AtFinite
  <1>2. CASE PopIdle /\ Move(t, "manual", "object")
    <2>1. /\ At({"asleep"})' = At({"asleep"})
          /\ At({"woken"})' = At({"woken"}) \ {t}
      BY <1>2, WaitersMove DEF At
    <2>2. /\ Cardinality(At({"woken"})') \in Nat
          /\ Cardinality(At({"woken"})') >= Cardinality(At({"woken"})) - 1
      BY <1>1, <2>1, OneMoreOrLess
    <2>3. idle > 0 /\ idle' = idle - 1 /\ idle \in Nat
      BY <1>2 DEF PopIdle, TypeOK
    <2>4. CASE At({"asleep"})' = {}
      BY <2>4 DEF NoLostWakeup
    <2>5. CASE idle <= Cardinality(At({"woken"}))
      BY <1>1, <2>2, <2>3, <2>5 DEF NoLostWakeup
    <2> QED BY <2>1, <2>4, <2>5 DEF NoLostWakeup
  <1>3. CASE idle' = 0
    <2>1. Cardinality(At({"woken"}))' \in Nat
      BY CallersAssumption, FS_Subset, FS_CardinalityType DEF At
    <2> QED BY <1>3, <2>1 DEF NoLostWakeup
  <1> QED BY <1>2, <1>3 DEF WaitLoop

\* A sleeper that leaves the wait set makes one waiter more on its way.
LEMMA WakeWakeups ==
    ASSUME TypeOK, NoLostWakeup, NEW t \in Callers, pc[t] = "asleep",
           Move(t, "woken", "none"), UNCHANGED idle
    PROVE  NoLostWakeup'
  <1>1. /\ At({"asleep"})' = At({"asleep"}) \ {t}
        /\ At({"woken"})' = At({"woken"}) \cup {t}
        /\ At({"asleep"}) # {}
    BY WaitersMove DEF At
  <1>2. /\ Cardinality(At({"woken"})) \in Nat
        /\ Cardinality(At({"woken"}) \cup {t}) \in Nat
        /\ Cardinality(At({"woken"}) \cup {t}) >= Cardinality(At({"woken"}))
    BY AtFinite, OneMoreOrLess
  <1> QED BY <1>1, <1>2 DEF NoLostWakeup, TypeOK

\* Every step leaves a woken waiter for each idle object beside a sleeper.
LEMMA WakeupStep ==
    ASSUME TypeOK, CapacityBound, NoLostWakeup, [Next]_vars
    PROVE  NoLostWakeup'
  <1>0. idle' \in Nat
    BY BoundStep DEF TypeOK
  <1>1. CASE UNCHANGED vars
    BY <1>1 DEF vars, NoLostWakeup, At
  <1>2. ASSUME NEW t \in Callers, Checkout(t) PROVE NoLostWakeup'
    <2>1. CASE CheckoutIdle(t)
      BY <1>0, <2>1, OutsiderWakeups DEF CheckoutIdle, PopIdle, TypeOK
    <2>2. CASE CheckoutStartFactory(t)
      BY <1>0, <2>2, OutsiderWakeups DEF CheckoutStartFactory
    <2>3. CASE CheckoutExhausted(t)
      BY <1>0, <2>3, OutsiderWakeups DEF CheckoutExhausted
    <2>4. CASE FactoryOk(t)
      BY <1>0, <2>4, OutsiderWakeups DEF FactoryOk
    <2>5. CASE FactoryFails(t)
      BY <1>0, <2>5, NotifyWakeups DEF FactoryFails, ReleasePermit
    <2> QED BY <1>2, <2>1, <2>2, <2>3, <2>4, <2>5 DEF Checkout
  <1>3. ASSUME NEW t \in Callers, GiveBack(t) PROVE NoLostWakeup'
    <2>1. CASE LeaseDrop(t) \/ ManualReturn(t) \/ ReturnForeign(t)
      <3>1. pc[t] \notin {"asleep", "woken"} /\ ReturnClient(t)
        BY <2>1 DEF LeaseDrop, ManualReturn, ReturnForeign
      <3>2. idle' <= idle + 1
        BY <3>1 DEF ReturnClient, KeepOrDrop, TypeOK
      <3> QED BY <1>0, <3>1, <3>2, NotifyWakeups DEF ReturnClient
    <2>2. CASE LeaseIntoInner(t)
      BY <1>0, <2>2, NotifyWakeups DEF LeaseIntoInner, ReleasePermit
    <2>3. CASE Leak(t)
      BY <1>0, <2>3, OutsiderWakeups DEF Leak
    <2> QED BY <1>3, <2>1, <2>2, <2>3 DEF GiveBack
  <1>4. ASSUME NEW t \in Callers, Wait(t) PROVE NoLostWakeup'
    <2>1. CASE WaitEnter(t)
      BY <2>1, WaitLoopWakeups DEF WaitEnter
    <2>2. CASE Expire(t)
      BY <2>2 DEF Expire, NoLostWakeup, At
    <2>3. CASE TimeoutWake(t) \/ SpuriousWake(t)
      BY <2>3, WakeWakeups DEF TimeoutWake, SpuriousWake
    <2>4. CASE Resume(t)
      <3>1. CASE WaitLoop(t, expired[t])
        BY <2>4, <3>1, WaitLoopWakeups DEF Resume, TypeOK
      <3>2. CASE idle' = 0
        <4>1. Cardinality(At({"woken"}))' \in Nat
          BY CallersAssumption, FS_Subset, FS_CardinalityType DEF At
        <4> QED BY <3>2, <4>1 DEF NoLostWakeup
      <3> QED BY <2>4, <3>1, <3>2 DEF Resume, GivesUp
    <2> QED BY <1>4, <2>1, <2>2, <2>3, <2>4 DEF Wait
  <1> QED BY <1>1, <1>2, <1>3, <1>4 DEF Next

\* No object ever stays idle beside a sleeping waiter without another waiter
\* on its way to take it.
THEOREM NoWakeupIsLost == Spec => []NoLostWakeup
  <1>1. Init => NoLostWakeup
    BY DEF Init, NoLostWakeup, At
  <1>2. TypeOK /\ CapacityBound /\ NoLostWakeup /\ [Next]_vars => NoLostWakeup'
    BY WakeupStep
  <1> QED BY <1>1, <1>2, TypeCorrect, Capacity, PTL DEF Spec

-----------------------------------------------------------------------------
(* The pool implements the semaphore.                                      *)

\* The instance counts as this module does.
LEMMA SameCardinality == \A S : Promise!Cardinality(S) = Cardinality(S)
  BY DEF Promise!Cardinality, Cardinality

\* A caller that leaves the holders releases, whatever it had been answered.
LEMMA ReleaseStep ==
    ASSUME TypeOK, NEW t \in Holders, NEW answer \in Outcomes \ {"exhausted"},
           MoveAndNotifyOne(t, "ready", answer)
    PROVE  Promise!Release(t)
  <1>1. t \in Callers /\ pc[t] \notin {"asleep", "woken"}
    BY DEF Holders, At
  <1>2. Holders' = Holders \ {t}
    BY <1>1, NotifyAt
  <1>3. Refused' = Refused \ {t}
    BY <1>1 DEF TypeOK, MoveAndNotifyOne, Refused
  <1> QED BY <1>2, <1>3 DEF Promise!Release, Refused

\* A move that changes no permit at most makes a caller forget its refusal.
LEMMA ForgetStep ==
    ASSUME TypeOK, NEW t \in Callers, NEW where \in Where,
           NEW answer \in Outcomes \ {"exhausted"},
           Move(t, where, answer), Holders' = Holders
    PROVE  Promise!Forget(t) \/ UNCHANGED Promise!absVars
  <1>1. Refused' = Refused \ {t}
    BY DEF TypeOK, Move, Refused
  <1> QED BY <1>1 DEF Promise!Forget, Promise!absVars, Refused

\* A caller that joins the holders acquires, if a permit is free.
LEMMA AcquireStep ==
    ASSUME TypeOK, NEW t \in Callers, t \notin Holders,
           NEW where \in {"factory", "lease", "manual"},
           NEW answer \in Outcomes \ {"exhausted"},
           Move(t, where, answer), Cardinality(Holders) < MaxPoolSize
    PROVE  Promise!Acquire(t)
  <1>1. Holders' = Holders \cup {t}
    BY HoldersMove
  <1>2. Refused' = Refused \ {t}
    BY DEF TypeOK, Move, Refused
  <1> QED BY <1>1, <1>2, SameCardinality DEF Promise!Acquire, Refused

\* An idle object stands for a free permit.
LEMMA IdleMeansFree ==
    ASSUME AccurateCallers, TypeOK, CapacityBound, PermitAccounting, PopIdle
    PROVE  Cardinality(Holders) < MaxPoolSize
  BY ConfigAssumption DEF TypeOK, CapacityBound, PermitAccounting, PopIdle

\* A pass through the wait loop acquires, or changes no permit.
LEMMA WaitLoopPromise ==
    ASSUME AccurateCallers, TypeOK, CapacityBound, PermitAccounting,
           NEW t \in Callers, t \notin Holders,
           NEW over \in BOOLEAN, WaitLoop(t, over)
    PROVE  \/ Promise!Acquire(t)
           \/ Promise!Forget(t)
           \/ UNCHANGED Promise!absVars
  <1>1. CASE PopIdle /\ Move(t, "manual", "object")
    BY <1>1, IdleMeansFree, AcquireStep
  <1>2. CASE Move(t, "ready", "timeout")
    <2>1. Holders' = Holders BY <1>2, HoldersMove
    <2> QED BY <1>2, <2>1, ForgetStep
  <1>3. CASE Move(t, "asleep", "none")
    <2>1. Holders' = Holders BY <1>3, HoldersMove
    <2> QED BY <1>3, <2>1, ForgetStep
  <1> QED BY <1>1, <1>2, <1>3 DEF WaitLoop

\* Every step of the pool is a step of the semaphore or none.
LEMMA PromiseStep ==
    ASSUME AccurateCallers, TypeOK, CapacityBound, PermitAccounting, [Next]_vars
    PROVE  [Promise!AbsNext]_(Promise!absVars)
  <1> USE DEF Promise!AbsNext
  <1>1. CASE UNCHANGED vars
    BY <1>1 DEF vars, Promise!absVars, Holders, At, Refused
  <1>2. ASSUME NEW t \in Callers, Checkout(t)
        PROVE  [Promise!AbsNext]_(Promise!absVars)
    <2>1. CASE CheckoutIdle(t)
      <3>1. t \notin Holders BY <2>1 DEF CheckoutIdle, Holders, At
      <3>2. Promise!Acquire(t)
        BY <2>1, <3>1, IdleMeansFree, AcquireStep DEF CheckoutIdle
      <3> QED BY <3>2
    <2>2. CASE CheckoutStartFactory(t)
      <3>1. t \notin Holders BY <2>2 DEF CheckoutStartFactory, Holders, At
      <3>2. Cardinality(Holders) < MaxPoolSize
        BY <2>2 DEF CheckoutStartFactory, PermitFree, PermitAccounting
      <3>3. Promise!Acquire(t)
        BY <2>2, <3>1, <3>2, AcquireStep DEF CheckoutStartFactory
      <3> QED BY <3>3
    <2>3. CASE CheckoutExhausted(t)
      <3>1. t \notin Holders /\ Cardinality(Holders) >= MaxPoolSize
        BY <2>3, ConfigAssumption
           DEF CheckoutExhausted, PermitFree, PermitAccounting, TypeOK, Holders, At
      <3>2. Holders' = Holders
        BY <2>3, <3>1, HoldersMove DEF CheckoutExhausted
      <3>3. Refused' = Refused \cup {t}
        BY <2>3 DEF CheckoutExhausted, Move, TypeOK, Refused
      <3>4. Promise!Refuse(t)
        BY <3>1, <3>2, <3>3, SameCardinality DEF Promise!Refuse, Refused
      <3> QED BY <3>4
    <2>4. CASE FactoryOk(t)
      <3>1. t \in Holders BY <2>4 DEF FactoryOk, Holders, At
      <3>2. Holders' = Holders BY <2>4, <3>1, HoldersMove DEF FactoryOk
      <3> QED BY <2>4, <3>2, ForgetStep DEF FactoryOk
    <2>5. CASE FactoryFails(t)
      <3>1. t \in Holders BY <2>5 DEF FactoryFails, Holders, At
      <3>2. Promise!Release(t)
        BY <2>5, <3>1, ReleaseStep DEF FactoryFails, ReleasePermit
      <3> QED BY <3>2
    <2> QED BY <1>2, <2>1, <2>2, <2>3, <2>4, <2>5 DEF Checkout
  <1>3. ASSUME NEW t \in Callers, GiveBack(t)
        PROVE  [Promise!AbsNext]_(Promise!absVars)
    <2>1. CASE LeaseDrop(t) \/ ManualReturn(t) \/ LeaseIntoInner(t)
      <3>1. t \in Holders
        BY <2>1 DEF LeaseDrop, ManualReturn, LeaseIntoInner, Holders, At
      <3>2. Promise!Release(t)
        BY <2>1, <3>1, ReleaseStep
           DEF LeaseDrop, ManualReturn, LeaseIntoInner, ReturnClient, ReleasePermit
      <3> QED BY <3>2
    <2>2. CASE Leak(t) \/ ReturnForeign(t)
      BY <2>2 DEF Leak, ReturnForeign
    <2> QED BY <1>3, <2>1, <2>2 DEF GiveBack
  <1>4. ASSUME NEW t \in Callers, Wait(t)
        PROVE  [Promise!AbsNext]_(Promise!absVars)
    <2>1. CASE WaitEnter(t)
      <3>1. t \notin Holders BY <2>1 DEF WaitEnter, Holders, At
      <3> QED BY <2>1, <3>1, WaitLoopPromise DEF WaitEnter
    <2>2. CASE Expire(t)
      BY <2>2 DEF Expire, Promise!absVars, Holders, At, Refused
    <2>3. CASE TimeoutWake(t) \/ SpuriousWake(t)
      <3>1. t \notin Holders
        BY <2>3 DEF TimeoutWake, SpuriousWake, Holders, At
      <3>2. Move(t, "woken", "none")
        BY <2>3 DEF TimeoutWake, SpuriousWake
      <3>3. Holders' = Holders BY <3>1, <3>2, HoldersMove
      <3> QED BY <3>2, <3>3, ForgetStep
    <2>4. CASE Resume(t)
      <3>1. t \notin Holders BY <2>4 DEF Resume, Holders, At
      <3>2. CASE WaitLoop(t, expired[t])
        BY <3>1, <3>2, WaitLoopPromise DEF TypeOK
      <3>3. CASE Move(t, "ready", "timeout")
        <4>1. Holders' = Holders BY <3>1, <3>3, HoldersMove
        <4> QED BY <3>3, <4>1, ForgetStep
      <3> QED BY <2>4, <3>2, <3>3 DEF Resume
    <2> QED BY <1>4, <2>1, <2>2, <2>3, <2>4 DEF Wait
  <1> QED BY <1>1, <1>2, <1>3, <1>4 DEF Next

\* With callers that return what they check out, the pool implements a counting
\* semaphore of max_pool_size permits: it lends only while a permit is free and
\* answers PoolExhausted only while none is.
THEOREM Implementation ==
    ASSUME AccurateCallers
    PROVE  Spec => ImplementsSemaphore
  <1>1. Init => Promise!AbsInit
    BY DEF Init, Promise!AbsInit, Holders, At, Refused
  <1>2. TypeOK /\ CapacityBound /\ PermitAccounting /\ [Next]_vars
          => [Promise!AbsNext]_(Promise!absVars)
    BY PromiseStep
  <1> QED BY <1>1, <1>2, TypeCorrect, Capacity, PermitsAreCounted, PTL
          DEF Spec, ImplementsSemaphore, Promise!AbsSpec

\* Err(PoolExhausted) is answered only while max_pool_size permits are held.
THEOREM ExhaustedOnlyWhenFull == Spec => ExhaustedIsTrue
  <1>1. ASSUME TypeOK, CapacityBound, PermitAccounting, [Next]_vars,
               NEW t \in Callers,
               outcome'[t] = "exhausted", outcome[t] # "exhausted", AccurateCallers
        PROVE  Cardinality(Holders) = MaxPoolSize
    <2>1. PICK u \in Callers : CheckoutExhausted(u)
      BY <1>1
         DEF Next, vars, Checkout, GiveBack, Wait, TypeOK,
             CheckoutIdle, CheckoutStartFactory, FactoryOk, FactoryFails,
             LeaseDrop, LeaseIntoInner, ManualReturn, Leak, ReturnForeign,
             WaitEnter, Expire, TimeoutWake, SpuriousWake, Resume,
             WaitLoop, ReturnClient, ReleasePermit, Move, MoveAndNotifyOne
    <2> QED BY <1>1, <2>1, ConfigAssumption
            DEF CheckoutExhausted, PermitFree, PermitAccounting, CapacityBound, TypeOK
  <1>2. TypeOK /\ CapacityBound /\ PermitAccounting /\ [Next]_vars
          => [\A t \in Callers :
                outcome'[t] = "exhausted" /\ outcome[t] # "exhausted"
                  /\ AccurateCallers
                   => Cardinality(Holders) = MaxPoolSize]_vars
    BY <1>1
  <1> QED BY <1>2, TypeCorrect, Capacity, PermitsAreCounted, PTL
          DEF Spec, ExhaustedIsTrue
\* Ok(None) is answered only when the time is over and nothing is idle.
THEOREM TimeoutOnlyWhenOver == Spec => TimeoutIsTrue
  <1>1. ASSUME TypeOK, [Next]_vars, NEW t \in Callers,
               outcome'[t] = "timeout", outcome[t] # "timeout"
        PROVE  expired'[t] /\ idle = 0
    <2>1. PICK u \in Callers : WaitEnter(u) \/ Resume(u)
      BY <1>1
         DEF Next, vars, Checkout, GiveBack, Wait, TypeOK,
             CheckoutIdle, CheckoutStartFactory, CheckoutExhausted, FactoryOk,
             FactoryFails, LeaseDrop, LeaseIntoInner, ManualReturn, Leak,
             ReturnForeign, Expire, TimeoutWake, SpuriousWake,
             ReturnClient, ReleasePermit, Move, MoveAndNotifyOne
    <2>2. CASE WaitEnter(u)
      BY <1>1, <2>2 DEF WaitEnter, WaitLoop, Move, TypeOK
    <2>3. CASE Resume(u)
      BY <1>1, <2>3 DEF Resume, GivesUp, WaitLoop, Move, TypeOK
    <2> QED BY <2>1, <2>2, <2>3
  <1>2. TypeOK /\ [Next]_vars
          => [\A t \in Callers :
                outcome'[t] = "timeout" /\ outcome[t] # "timeout"
                   => expired'[t] /\ idle = 0]_vars
    BY <1>1
  <1> QED BY <1>2, TypeCorrect, PTL DEF Spec, TimeoutIsTrue
=============================================================================
