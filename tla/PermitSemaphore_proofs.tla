---------------------- MODULE PermitSemaphore_proofs ----------------------
(***************************************************************************)
(* What PermitSemaphore promises, whoever implements it and however many    *)
(* callers there are: a mutual exclusion for Permits of them, in which the  *)
(* refused have nothing.                                                   *)
(***************************************************************************)
EXTENDS PermitSemaphore, FiniteSetTheorems, TLAPS

Bounded ==
    /\ IsFiniteSet(held)
    /\ Cardinality(held) <= Permits
    /\ held \cap refused = {}

LEMMA BoundedStep ==
    ASSUME Permits \in Nat, Bounded, [AbsNext]_absVars
    PROVE  Bounded'
  <1> USE DEF Bounded
  <1>1. Cardinality(held) \in Nat
    BY FS_CardinalityType
  <1>2. CASE UNCHANGED absVars
    BY <1>2 DEF absVars
  <1>3. ASSUME NEW t \in Callers, Acquire(t) PROVE Bounded'
    <2>1. held' = held \cup {t} /\ t \notin held /\ Cardinality(held) < Permits
          /\ refused' = refused \ {t}
      BY <1>3 DEF Acquire
    <2>2. IsFiniteSet(held') /\ Cardinality(held') = Cardinality(held) + 1
      BY <2>1, FS_AddElement
    <2> QED BY <1>1, <2>1, <2>2
  <1>4. ASSUME NEW t \in Callers, Release(t) PROVE Bounded'
    <2>1. held' = held \ {t} /\ t \in held /\ refused' = refused \ {t}
      BY <1>4 DEF Release
    <2>2. IsFiniteSet(held') /\ Cardinality(held') = Cardinality(held) - 1
      BY <2>1, FS_RemoveElement
    <2> QED BY <1>1, <2>1, <2>2
  <1>5. ASSUME NEW t \in Callers, Refuse(t) \/ Forget(t) PROVE Bounded'
    BY <1>5 DEF Refuse, Forget
  <1> QED BY <1>2, <1>3, <1>4, <1>5 DEF AbsNext

\* At most Permits callers hold a pooled object, and none of them was refused.
THEOREM Exclusion ==
    ASSUME Permits \in Nat
    PROVE  AbsSpec => []Bounded
  <1>1. AbsInit => Bounded
    BY FS_EmptySet DEF AbsInit, Bounded
  <1>2. Bounded /\ [AbsNext]_absVars => Bounded'
    BY BoundedStep
  <1> QED BY <1>1, <1>2, PTL DEF AbsSpec
=============================================================================
