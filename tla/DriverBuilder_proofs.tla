---------------------- MODULE DriverBuilder_proofs ----------------------
(***************************************************************************)
(* Theorems about DriverBuilder.  The invariants hold together with         *)
(* PartsInOrder, which says what each part of builder leaves behind.        *)
(***************************************************************************)
EXTENDS DriverBuilder, TLAPS

IInv ==
    /\ TypeOK
    /\ PartsInOrder
    /\ OkMeansAsAsked
    /\ ViolationIsDeserved
    /\ SniOffIsPermanent

\* A TlsConfig that is not given has SNI on.
LEMMA SniOffIsGiven ==
    ASSUME TypeOK, ~asked.tls.sni
    PROVE  asked.tls.given
  <1>1. asked.tls \in Tls
    BY DEF TypeOK, Requests
  <1> QED BY <1>1 DEF Tls

LEMMA Initially == Init => IInv
  <1> SUFFICES ASSUME Init PROVE IInv
    OBVIOUS
  <1>1. TypeOK
    BY DEF Init, TypeOK, Parts, Clients, Answers
  <1> QED BY <1>1 DEF Init, IInv, PartsInOrder, OkMeansAsAsked, ViolationIsDeserved,
                      SniOffIsPermanent

\* Every part of builder keeps the types.
LEMMA TypeStep == TypeOK /\ [Next]_vars => TypeOK'
  <1> SUFFICES ASSUME TypeOK, [Next]_vars PROVE TypeOK'
    OBVIOUS
  <1>1. asked.timeout \in BOOLEAN /\ asked.proxy.username \in BOOLEAN
        /\ asked.proxy.password \in BOOLEAN
    BY DEF TypeOK, Requests, Proxies
  <1> USE DEF TypeOK, Parts, Answers, Clients, Goto, Return, inputs
  <1>2. CASE ApplyTimeout BY <1>1, <1>2 DEF ApplyTimeout
  <1>3. CASE RefuseSni BY <1>3 DEF RefuseSni
  <1>4. CASE KeepSystemRoots BY <1>4 DEF KeepSystemRoots
  <1>5. CASE AcceptInvalidCerts BY <1>5 DEF AcceptInvalidCerts
  <1>6. CASE LoadCustomCa BY <1>6 DEF LoadCustomCa, CaError, MapClientBuildError
  <1>7. CASE SkipProxy BY <1>7 DEF SkipProxy
  <1>8. CASE ApplyProxy BY <1>1, <1>8 DEF ApplyProxy
  <1>9. CASE Build BY <1>9 DEF Build, MapClientBuildError
  <1>10. CASE Done \/ UNCHANGED vars BY <1>10 DEF Done, vars
  <1> QED BY <1>2, <1>3, <1>4, <1>5, <1>6, <1>7, <1>8, <1>9, <1>10 DEF Next

\* Every part of builder keeps the rest of the invariant.
LEMMA Step == IInv /\ [Next]_vars => IInv'
  <1> SUFFICES ASSUME IInv, [Next]_vars PROVE IInv'
    OBVIOUS
  <1>1. TypeOK'
    BY TypeStep DEF IInv
  <1>2. client \in Clients /\ pc \in Parts /\ TypeOK
    BY DEF IInv, TypeOK
  <1>3. ~asked.tls.sni => asked.tls.given
    BY <1>2, SniOffIsGiven
  <1> DEFINE Rest == PartsInOrder /\ OkMeansAsAsked /\ ViolationIsDeserved /\ SniOffIsPermanent
  <1>4. Rest'
    <2> USE <1>2, <1>3 DEF IInv, PartsInOrder, OkMeansAsAsked, ViolationIsDeserved,
                           SniOffIsPermanent, UsesCa, Goto, Return, inputs, Parts, Clients
    <2>1. CASE ApplyTimeout
      <3>1. ~asked.tls.given => asked.tls.sni /\ asked.tls.mode = "SystemRoots"
        BY <1>2 DEF TypeOK, Requests, Tls
      <3> QED BY <2>1, <3>1 DEF ApplyTimeout
    <2>2. CASE RefuseSni BY <2>2 DEF RefuseSni
    <2>3. CASE KeepSystemRoots BY <2>3 DEF KeepSystemRoots
    <2>4. CASE AcceptInvalidCerts BY <2>4 DEF AcceptInvalidCerts
    <2>5. CASE LoadCustomCa BY <2>5 DEF LoadCustomCa, CaError, MapClientBuildError
    <2>6. CASE SkipProxy
      <3>1. ~asked.proxy.given => asked.proxy.validUrl
        BY <1>2 DEF TypeOK, Requests, Proxies
      <3>2. client.proxy \in BOOLEAN /\ asked.proxy.given \in BOOLEAN
        BY <1>2 DEF TypeOK, Requests, Proxies
      <3>3. ~client.proxy /\ ~asked.proxy.given
        BY <2>6 DEF SkipProxy
      <3>4. client.proxy = asked.proxy.given
        BY <3>2, <3>3, Zenon
      <3> QED BY <2>6, <3>1, <3>4 DEF SkipProxy
    <2>7. CASE ApplyProxy BY <2>7 DEF ApplyProxy
    <2>8. CASE Build BY <2>8 DEF Build, MapClientBuildError
    <2>9. CASE Done \/ UNCHANGED vars BY <2>9 DEF Done, vars
    <2> QED BY <2>1, <2>2, <2>3, <2>4, <2>5, <2>6, <2>7, <2>8, <2>9 DEF Next
  <1> QED BY <1>1, <1>4 DEF IInv

LEMMA Invariant == Spec => []IInv
  BY Initially, Step, PTL DEF Spec

\* The variables keep their types, the errors of builder theirs among them.
THEOREM TypeCorrect == Spec => []TypeOK
  <1>1. IInv => TypeOK
    BY DEF IInv
  <1> QED BY Invariant, <1>1, PTL

\* When a driver is handed out, ClientBuilder was given what the caller asked for,
\* proxy credentials apart.
THEOREM OkIsAsAsked == Spec => []OkMeansAsAsked
  <1>1. IInv => OkMeansAsAsked
    BY DEF IInv
  <1> QED BY Invariant, <1>1, PTL

\* A permanent error of builder is the fault of an option.
THEOREM ViolationAlwaysDeserved == Spec => []ViolationIsDeserved
  <1>1. IInv => ViolationIsDeserved
    BY DEF IInv
  <1> QED BY Invariant, <1>1, PTL

\* sni = false is never hidden behind an error that invites a retry.
THEOREM SniOffAlwaysPermanent == Spec => []SniOffIsPermanent
  <1>1. IInv => SniOffIsPermanent
    BY DEF IInv
  <1> QED BY Invariant, <1>1, PTL
=============================================================================
