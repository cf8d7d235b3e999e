--------------------- MODULE ReqwestHttpDriver_proofs ---------------------
(***************************************************************************)
(* Proofs about ReqwestHttpDriver, for every limit, every declared length   *)
(* and every way a response arrives.  BodyWithinLimit is inductive beside   *)
(* the types; OkIsComplete and PermanentIsDeserved rest on NothingMissing,  *)
(* the other answers on NothingEarly as well.                              *)
(***************************************************************************)
EXTENDS ReqwestHttpDriver, TLAPS

USE DEF Places, Errors, ServerStates, StatusClasses, Faults,
        TransportErrors, PayloadTooLarge, ConnectionClosed, timeVars,
        TakeRateLimit, DeclaredTooLarge

-----------------------------------------------------------------------------
(* Errors.                                                                 *)

\* What map_reqwest_error makes of an error: a builder error is permanent,
\* every other one is worth a retry.
LEMMA MappedError ==
    ASSUME NEW e \in ReqwestErrors
    PROVE  /\ MapReqwestError(e) \in Errors \ {"ResponseTooLarge"}
           /\ ~e.builder => ~Permanent(MapReqwestError(e))
           /\ MapReqwestError(e) # "Ok"
           /\ MapReqwestError(e) # "RateLimited"
           /\ e.timeout /\ ~e.connect => MapReqwestError(e) = "ReadTimeout"
           /\ \/ MapReqwestError(e) \in {"ReadTimeout", "Io"}
              \/ MapReqwestError(e) = "ConnectTimeout" /\ e.timeout /\ e.connect
              \/ MapReqwestError(e) = "ProtocolViolation" /\ e.builder
  BY DEF ReqwestErrors, MapReqwestError, ClassifyTimeout, Permanent, IsRetryable

\* The steps that return an error of reqwest, and nothing else.
FailingStep ==
    \E e \in ReqwestErrors :
        /\ Suspended
        /\ Fail(e)
        /\ e.builder => request.fault # "none" /\ pc = "connecting"
        /\ pc = "connecting" /\ request.fault # "none" => e = BuilderError
        /\ e.timeout /\ e.connect => pc = "connecting"
        /\ pc = "awaiting" /\ status # "none" => e.timeout

LEMMA FailingActions ==
    ASSUME RejectScheme \/ ConnectFails \/ TakeCut \/ TimeoutFires
    PROVE  FailingStep
  BY DEF RejectScheme, ConnectFails, TakeCut, TimeoutFires, FailingStep,
         BuilderError, ReqwestErrors, Suspended

\* The steps of the environment alone leave the call where it is.
LEMMA EnvironmentSteps ==
    ASSUME TypeOK,
           Expire \/ ServerHead \/ ServerSends \/ ServerFinishes \/ ServerCuts
    PROVE  TypeOK' /\ UNCHANGED <<request, clientVars>>
  <1>1. CASE Expire
    BY <1>1 DEF Expire, TypeOK, clientVars, serverVars
  <1>2. CASE ServerHead
    BY <1>2 DEF ServerHead, TypeOK, clientVars
  <1>3. CASE ServerSends
    <2>1. sent' \in Nat
      BY <1>3 DEF ServerSends, TypeOK
    <2> QED BY <1>3, <2>1 DEF ServerSends, TypeOK, clientVars
  <1>4. CASE ServerFinishes
    BY <1>4 DEF ServerFinishes, TypeOK, clientVars
  <1>5. CASE ServerCuts
    BY <1>5 DEF ServerCuts, TypeOK, clientVars
  <1> QED BY <1>1, <1>2, <1>3, <1>4, <1>5

-----------------------------------------------------------------------------
(* Types and the limit.                                                    *)

\* The arithmetic of TakeChunk: a body that passes the test is within the
\* limit, although the sum it tests is saturated.
LEMMA KeptWithinLimit ==
    ASSUME NEW b \in Nat, NEW n \in Nat, MaxResponseBody > 0,
           ~OverLimit(MaxResponseBody, LengthWith(b, n))
    PROVE  b + n <= MaxResponseBody
  BY LimitsAssumption DEF OverLimit, LengthWith, Saturated

\* A length that fails the test is over the limit.
LEMMA RefusedOverLimit ==
    ASSUME NEW n \in Nat, OverLimit(MaxResponseBody, Saturated(n))
    PROVE  OverLimit(MaxResponseBody, n)
  BY LimitsAssumption DEF OverLimit, Saturated

LEMMA HeaderNumber ==
    ASSUME NEW header \in RetryHeaders
    PROVE  header.at \in Nat
  <1>1. CASE header \in [kind : {"absent", "opaque", "garbage"}, at : {0}]
    BY <1>1
  <1>2. CASE header \in [kind : {"seconds", "date"}, at : RetryNumbers]
    BY <1>2, WireAssumption
  <1> QED BY <1>1, <1>2 DEF RetryHeaders

\* What parse_retry_after_at tells a caller to wait, for every header and every
\* reading of the clock.
LEMMA ParsedDelay ==
    ASSUME NEW header \in RetryHeaders, NEW clock \in Clock,
           NEW delay \in ParseRetryAfterAt(header, clock)
    PROVE  /\ delay \in Nat
           /\ \/ header.kind = "seconds" /\ delay = header.at
              \/ /\ header.kind = "date"
                 /\ clock + delay >= header.at
                 /\ delay > 0 => clock + delay = header.at
  <1>1. header.at \in Nat /\ clock \in Nat
    BY HeaderNumber, WireAssumption
  <1>2. CASE header.kind = "seconds"
    BY <1>1, <1>2 DEF ParseRetryAfterAt
  <1>3. CASE header.kind = "date"
    BY <1>1, <1>3 DEF ParseRetryAfterAt
  <1>4. CASE header.kind \notin {"seconds", "date"}
    BY <1>4 DEF ParseRetryAfterAt
  <1> QED BY <1>2, <1>3, <1>4

\* A header from which nothing is taken was of no use.
LEMMA NoDelay ==
    ASSUME NEW header \in RetryHeaders, NEW clock, ParseRetryAfterAt(header, clock) = {}
    PROVE  \/ header.kind \notin {"seconds", "date"}
           \/ header.kind = "seconds" /\ header.at > U64Max
  <1>1. header.at \in Nat
    BY HeaderNumber, WireAssumption
  <1> QED BY <1>1, LimitsAssumption DEF ParseRetryAfterAt

\* Every step keeps the types and the limit.
LEMMA LimitStep ==
    ASSUME TypeOK, BodyWithinLimit, [Next]_vars
    PROVE  TypeOK' /\ BodyWithinLimit'
  <1> USE DEF BodyWithinLimit
  <1>1. CASE UNCHANGED vars
    BY <1>1 DEF vars, clientVars, serverVars, TypeOK
  <1>2. CASE FailingStep
    BY <1>2, MappedError DEF FailingStep, Fail, Return, serverVars, TypeOK
  <1>3. CASE RejectRequestBody
    BY <1>3 DEF RejectRequestBody, Return, serverVars, TypeOK
  <1>4. CASE RejectMalformed
    <2>1. MapReqwestError(BuilderError) = "ProtocolViolation"
      BY DEF MapReqwestError, BuilderError
    <2> QED BY <1>4, <2>1 DEF RejectMalformed, Return, serverVars, TypeOK
  <1>5. CASE Send \/ Connected
    BY <1>5 DEF Send, Connected, serverVars, TypeOK
  <1>6. CASE TakeHead
    <2>1. retryAfter' \in SUBSET Nat
      BY <1>6, ParsedDelay DEF TakeHead, TypeOK
    <2> QED BY <1>6, <2>1 DEF TakeHead, Return, serverVars, TypeOK
  <1>7. CASE TakeChunk
    <2>1. PICK n \in 1 .. (sent - consumed) :
             /\ consumed' = consumed + n
             /\ \/ Return("ResponseTooLarge") /\ UNCHANGED body
                \/ /\ ~OverLimit(MaxResponseBody, LengthWith(body, n))
                   /\ body' = body + n
                   /\ UNCHANGED <<pc, answer>>
      BY <1>7 DEF TakeChunk
    <2>2. n \in Nat /\ body \in Nat /\ consumed' \in Nat
      BY <2>1 DEF TypeOK
    <2>3. UNCHANGED <<request, retryAfter, timeVars, serverVars>>
      BY <1>7 DEF TakeChunk
    <2>4. CASE Return("ResponseTooLarge") /\ UNCHANGED body
      BY <2>2, <2>3, <2>4 DEF Return, serverVars, TypeOK
    <2>5. CASE /\ ~OverLimit(MaxResponseBody, LengthWith(body, n))
               /\ body' = body + n
               /\ UNCHANGED <<pc, answer>>
      BY <2>2, <2>3, <2>5, KeptWithinLimit DEF serverVars, TypeOK
    <2> QED BY <2>1, <2>4, <2>5
  <1>8. CASE TakeEnd
    BY <1>8 DEF TakeEnd, Return, serverVars, TypeOK
  <1>9. CASE Expire \/ ServerHead \/ ServerSends \/ ServerFinishes \/ ServerCuts
    BY <1>9, EnvironmentSteps DEF clientVars
  <1>10. CASE Finished
    BY <1>1, <1>10 DEF Finished
  <1> QED BY <1>1, <1>2, <1>3, <1>4, <1>5, <1>6, <1>7, <1>8, <1>9, <1>10,
             FailingActions
          DEF Next, Begin, Read, Environment

LEMMA LimitInit == Init => TypeOK /\ BodyWithinLimit
  <1>1. ASSUME Init PROVE TypeOK
    <2>1. /\ pc \in Places /\ answer \in {"none", "Ok"} \cup Errors
          /\ server \in ServerStates /\ status \in StatusClasses
          /\ expired \in BOOLEAN
      BY <1>1 DEF Init
    <2>2. body \in Nat /\ sent \in Nat /\ consumed \in Nat
      BY <1>1 DEF Init
    <2>3. request \in [body : RequestBodies, fault : Faults]
      BY <1>1 DEF Init
    <2>4. declared \in SUBSET Declared /\ retryAfter \in SUBSET Nat
      BY <1>1 DEF Init
    <2>5. now \in Clock /\ retryHeader \in RetryHeaders
      BY <1>1 DEF Init, RetryHeaders
    <2> QED BY <2>1, <2>2, <2>3, <2>4, <2>5 DEF TypeOK
  <1>2. Init => BodyWithinLimit
    BY LimitsAssumption DEF Init, BodyWithinLimit
  <1> QED BY <1>1, <1>2

\* The variables of a call always have their types.
THEOREM TypeCorrect == Spec => []TypeOK
  <1>1. TypeOK /\ BodyWithinLimit /\ [Next]_vars => TypeOK' /\ BodyWithinLimit'
    BY LimitStep
  <1> QED BY <1>1, LimitInit, PTL DEF Spec

\* However the chunks fall, the collected body stays within the limit.
THEOREM BodyBounded == Spec => []BodyWithinLimit
  <1>1. TypeOK /\ BodyWithinLimit /\ [Next]_vars => TypeOK' /\ BodyWithinLimit'
    BY LimitStep
  <1> QED BY <1>1, LimitInit, PTL DEF Spec

-----------------------------------------------------------------------------
(* What an answer stands for.                                              *)

AnswerInv == NothingMissing /\ OkIsComplete /\ PermanentIsDeserved

\* Every step keeps the books on what arrived, and the answer true.
LEMMA AnswerStep ==
    ASSUME TypeOK, AnswerInv, [Next]_vars
    PROVE  AnswerInv'
  <1> USE DEF AnswerInv, NothingMissing, OkIsComplete, PermanentIsDeserved
  <1>1. CASE UNCHANGED vars
    BY <1>1 DEF vars, clientVars, serverVars, OverLimit, Permanent
  <1>2. CASE FailingStep
    <2>1. PICK e \in ReqwestErrors : Fail(e) /\ (e.builder => request.fault # "none")
      BY <1>2 DEF FailingStep
    <2>2. pc # "done" BY <1>2 DEF FailingStep, Suspended
    <2>3. answer' \notin {"none", "Ok", "ResponseTooLarge"}
          /\ (Permanent(answer') => request.fault # "none")
      BY <2>1, MappedError DEF Fail, Return
    <2> QED BY <2>1, <2>2, <2>3 DEF Fail, Return, serverVars
  <1>3. CASE RejectRequestBody
    BY <1>3 DEF RejectRequestBody, Return, serverVars, OverLimit, Permanent
  <1>4. CASE RejectMalformed
    <2>1. answer' = "ProtocolViolation" /\ request'.fault # "none"
      BY <1>4 DEF RejectMalformed, Return, MapReqwestError, BuilderError
    <2> QED BY <1>4, <2>1 DEF RejectMalformed, Return, serverVars
  <1>5. CASE Send \/ Connected
    BY <1>5 DEF Send, Connected, serverVars, Permanent
  <1>6. CASE TakeHead
    <2>1. \/ answer' = "RateLimited" /\ pc' = "done"
          \/ /\ answer' = "ResponseTooLarge" /\ pc' = "done"
             /\ \E n \in declared : OverLimit(MaxResponseBody, n)
          \/ answer' = answer /\ pc' = "reading" /\ status = "other"
      <3>1. \A n \in declared : n \in Nat
        BY WireAssumption DEF TypeOK
      <3> QED BY <1>6, <3>1, RefusedOverLimit DEF TakeHead, Return, TypeOK
    <2> QED BY <1>6, <2>1
            DEF TakeHead, serverVars, OverLimit, Permanent, IsRetryable
  <1>7. CASE TakeChunk
    <2>1. PICK n \in 1 .. (sent - consumed) :
             /\ consumed' = consumed + n
             /\ \/ /\ OverLimit(MaxResponseBody, LengthWith(body, n))
                   /\ Return("ResponseTooLarge")
                   /\ UNCHANGED body
                \/ body' = body + n /\ UNCHANGED <<pc, answer>>
      BY <1>7 DEF TakeChunk
    <2>2. /\ pc = "reading" /\ answer = "none" /\ body = consumed
          /\ UNCHANGED <<request, retryAfter, timeVars, serverVars>>
      BY <1>7 DEF TakeChunk
    <2>3. n \in Nat /\ consumed + n <= sent /\ body \in Nat /\ sent \in Nat
      BY <2>1 DEF TypeOK
    <2>4. CASE /\ OverLimit(MaxResponseBody, LengthWith(body, n))
               /\ Return("ResponseTooLarge")
      <3>1. OverLimit(MaxResponseBody, body + n)
        BY <2>3, <2>4, RefusedOverLimit DEF LengthWith
      <3>2. OverLimit(MaxResponseBody, sent)
        BY <2>2, <2>3, <3>1, LimitsAssumption DEF OverLimit
      <3> QED BY <2>1, <2>2, <2>3, <2>4, <3>2
              DEF Return, serverVars, OverLimit
    <2>5. CASE body' = body + n /\ UNCHANGED <<pc, answer>>
      BY <2>1, <2>2, <2>3, <2>5 DEF serverVars, Permanent
    <2> QED BY <2>1, <2>4, <2>5
  <1>8. CASE TakeEnd
    BY <1>8 DEF TakeEnd, Return, serverVars, Permanent
  <1>9. CASE Expire \/ ServerHead \/ ServerSends \/ ServerFinishes \/ ServerCuts
    <2>1. UNCHANGED <<request, clientVars>>
      BY <1>9, EnvironmentSteps
    <2>2. CASE Expire
      BY <2>1, <2>2 DEF Expire, clientVars, serverVars, OverLimit, Permanent
    <2>3. CASE ServerHead
      BY <2>1, <2>3 DEF ServerHead, clientVars, Permanent
    <2>4. CASE ServerSends
      <3>1. PICK n \in Nat : sent' = sent + n
        BY <2>4 DEF ServerSends
      <3> QED BY <2>1, <2>4, <3>1 DEF ServerSends, clientVars, TypeOK, Permanent
    <2>5. CASE ServerFinishes
      BY <2>1, <2>5 DEF ServerFinishes, clientVars, Permanent
    <2>6. CASE ServerCuts
      BY <2>1, <2>6 DEF ServerCuts, clientVars, Permanent
    <2> QED BY <1>9, <2>2, <2>3, <2>4, <2>5, <2>6
  <1>10. CASE Finished
    BY <1>1, <1>10 DEF Finished
  <1> QED BY <1>1, <1>2, <1>3, <1>4, <1>5, <1>6, <1>7, <1>8, <1>9, <1>10,
             FailingActions
          DEF Next, Begin, Read, Environment

LEMMA AnswerAlways == Spec => []AnswerInv
  <1>1. Init => AnswerInv
    BY DEF Init, AnswerInv, NothingMissing, OkIsComplete, PermanentIsDeserved,
           Permanent
  <1>2. TypeOK /\ AnswerInv /\ [Next]_vars => AnswerInv'
    BY AnswerStep
  <1> QED BY <1>1, <1>2, TypeCorrect, PTL DEF Spec

\* Ok always carries the whole body of a response that is no 429.
THEOREM OkAlwaysComplete == Spec => []OkIsComplete
  <1>1. AnswerInv => OkIsComplete
    BY DEF AnswerInv
  <1> QED BY <1>1, AnswerAlways, PTL

\* An error that is not retryable is always the fault of the request or of the
\* size of the response.
THEOREM PermanentAlwaysDeserved == Spec => []PermanentIsDeserved
  <1>1. AnswerInv => PermanentIsDeserved
    BY DEF AnswerInv
  <1> QED BY <1>1, AnswerAlways, PTL

-----------------------------------------------------------------------------
(* Faulty requests, connect timeouts, delays.                               *)

FaultInv ==
    /\ NothingEarly
    /\ BadRequestIsPermanent
    /\ ConnectTimeoutIsEarly
    /\ RetryAfterIsHonest

\* Every step keeps them: an error is given the name it deserves at the place
\* where it arises, and nothing but the answer changes afterwards.
LEMMA FaultStep ==
    ASSUME TypeOK, AnswerInv, FaultInv, [Next]_vars
    PROVE  FaultInv'
  <1> USE DEF FaultInv, NothingEarly, BadRequestIsPermanent, ConnectTimeoutIsEarly,
              RetryAfterIsHonest
  <1>0. pc # "done" => answer = "none"
    BY DEF AnswerInv, NothingMissing
  <1>1. CASE UNCHANGED vars
    BY <1>1 DEF vars, clientVars, serverVars, OverLimit, Permanent
  <1>2. CASE FailingStep
    <2>1. PICK e \in ReqwestErrors :
             /\ Fail(e)
             /\ pc = "connecting" /\ request.fault # "none" => e = BuilderError
             /\ e.timeout /\ e.connect => pc = "connecting"
      BY <1>2 DEF FailingStep
    <2>2. Suspended /\ pc # "done" BY <1>2 DEF FailingStep, Suspended
    <2>3. pc = "connecting" /\ request.fault # "none" => Permanent(answer')
      BY <2>1 DEF Fail, Return, BuilderError, MapReqwestError, Permanent, IsRetryable
    <2>4. /\ answer' \notin {"none", "RateLimited"}
          /\ answer' = "ConnectTimeout" => pc = "connecting"
      BY <2>1, MappedError DEF Fail, Return
    <2> QED BY <2>1, <2>2, <2>3, <2>4 DEF Fail, Return, serverVars, OverLimit, Suspended
  <1>3. CASE RejectRequestBody
    BY <1>3 DEF RejectRequestBody, Return, serverVars, OverLimit, Permanent, IsRetryable
  <1>4. CASE RejectMalformed
    <2>1. answer' = "ProtocolViolation" /\ request'.fault # "none"
      BY <1>4 DEF RejectMalformed, Return, MapReqwestError, BuilderError
    <2> QED BY <1>4, <2>1
            DEF RejectMalformed, Return, serverVars, OverLimit, Permanent, IsRetryable
  <1>5. CASE Send \/ Connected
    BY <1>5, <1>0 DEF Send, Connected, serverVars, OverLimit
  <1>6. CASE TakeHead
    <2>1. pc = "awaiting" /\ retryAfter = {} /\ answer = "none"
      BY <1>6, <1>0 DEF TakeHead
    <2>2. request.fault = "none" /\ ~OverLimit(MaxRequestBody, request.body)
      BY <2>1
    <2>3. CASE answer' = "RateLimited" /\ retryAfter' = ParseRetryAfterAt(retryHeader, now)
      <3>1. retryHeader \in RetryHeaders /\ now \in Clock
        BY DEF TypeOK
      <3>2. UNCHANGED <<request, timeVars, serverVars>>
        BY <1>6 DEF TakeHead
      <3>3. retryAfter' = {} =>
               \/ retryHeader'.kind \notin {"seconds", "date"}
               \/ retryHeader'.kind = "seconds" /\ retryHeader'.at > U64Max
        BY <2>3, <3>1, <3>2, NoDelay DEF serverVars
      <3>4. \A delay \in retryAfter' :
               \/ retryHeader'.kind = "seconds" /\ delay = retryHeader'.at
               \/ /\ retryHeader'.kind = "date"
                  /\ now' + delay >= retryHeader'.at
                  /\ delay > 0 => now' + delay = retryHeader'.at
        BY <2>3, <3>1, <3>2, ParsedDelay DEF serverVars
      <3>5. RetryAfterIsHonest'
        BY <2>3, <3>3, <3>4
      <3>6. BadRequestIsPermanent'
        BY <2>2, <3>2 DEF OverLimit
      <3>7. NothingEarly' /\ ConnectTimeoutIsEarly'
        BY <1>6, <2>3, <3>2 DEF TakeHead, Return, serverVars
      <3> QED BY <3>5, <3>6, <3>7
    <2>4. CASE answer' \in {"none", "ResponseTooLarge"} /\ UNCHANGED retryAfter
      BY <1>6, <2>1, <2>2, <2>4 DEF TakeHead, Return, serverVars, OverLimit
    <2> QED BY <1>6, <2>1, <2>3, <2>4 DEF TakeHead, Return
  <1>7. CASE TakeChunk
    <2>1. answer' \in {"none", "ResponseTooLarge"} /\ pc' \in {"reading", "done"}
      BY <1>7, <1>0 DEF TakeChunk, Return
    <2>2. pc = "reading" /\ retryAfter = {} /\ request.fault = "none"
          /\ ~OverLimit(MaxRequestBody, request.body)
      BY <1>7 DEF TakeChunk
    <2>3. UNCHANGED <<request, retryAfter, timeVars, serverVars>>
      BY <1>7 DEF TakeChunk
    <2> QED BY <2>1, <2>2, <2>3 DEF serverVars, OverLimit
  <1>8. CASE TakeEnd
    BY <1>8 DEF TakeEnd, Return, serverVars, OverLimit
  <1>9. CASE Expire \/ ServerHead \/ ServerSends \/ ServerFinishes \/ ServerCuts
    <2>1. UNCHANGED <<request, clientVars>>
      BY <1>9, EnvironmentSteps
    <2>2. CASE Expire
      BY <2>1, <2>2 DEF Expire, clientVars, serverVars, OverLimit, Permanent
    <2>3. CASE ServerHead
      BY <2>1, <2>3, <1>0 DEF ServerHead, clientVars, OverLimit
    <2>4. CASE ServerSends \/ ServerFinishes \/ ServerCuts
      BY <2>1, <2>4, <1>0 DEF ServerSends, ServerFinishes, ServerCuts, clientVars, OverLimit
    <2> QED BY <1>9, <2>2, <2>3, <2>4
  <1>10. CASE Finished
    BY <1>1, <1>10 DEF Finished
  <1> QED BY <1>1, <1>2, <1>3, <1>4, <1>5, <1>6, <1>7, <1>8, <1>9, <1>10,
             FailingActions
          DEF Next, Begin, Read, Environment

LEMMA FaultAlways == Spec => []FaultInv
  <1>1. Init => FaultInv
    BY DEF Init, FaultInv, NothingEarly, BadRequestIsPermanent,
           ConnectTimeoutIsEarly, RetryAfterIsHonest
  <1>2. TypeOK /\ AnswerInv /\ FaultInv /\ [Next]_vars => FaultInv'
    BY FaultStep
  <1> QED BY <1>1, <1>2, TypeCorrect, AnswerAlways, PTL DEF Spec

\* A request at fault fails for ever and never reaches a server.
THEOREM BadRequestAlwaysPermanent == Spec => []BadRequestIsPermanent
  <1>1. FaultInv => BadRequestIsPermanent
    BY DEF FaultInv
  <1> QED BY <1>1, FaultAlways, PTL

\* A connect timeout is never reported of a response that has begun.
THEOREM ConnectTimeoutAlwaysEarly == Spec => []ConnectTimeoutIsEarly
  <1>1. FaultInv => ConnectTimeoutIsEarly
    BY DEF FaultInv
  <1> QED BY <1>1, FaultAlways, PTL

\* The delay of a 429 ends at the server's date, or at once, for every clock.
THEOREM RetryAfterAlwaysHonest == Spec => []RetryAfterIsHonest
  <1>1. FaultInv => RetryAfterIsHonest
    BY DEF FaultInv
  <1> QED BY <1>1, FaultAlways, PTL

-----------------------------------------------------------------------------
(* The exchange that HttpDriver promises.                                  *)

\* Every step of the call is one of the exchange, or none.
LEMMA ExchangeStep ==
    ASSUME TypeOK, AnswerInv, FaultInv, [Next]_vars
    PROVE  Exchange!AbsNext \/ UNCHANGED <<status, answer>>
  <1> USE DEF Exchange!AbsNext, Exchange!Respond, Exchange!Answer
  <1>0. /\ pc # "done" => answer = "none"
        /\ pc \in {"calling", "connecting"} => status = "none"
        /\ pc = "reading" => status = "other"
    BY DEF AnswerInv, NothingMissing, FaultInv, NothingEarly
  <1>1. CASE UNCHANGED vars
    BY <1>1 DEF vars, clientVars, serverVars
  <1>2. CASE FailingStep
    <2>1. PICK e \in ReqwestErrors :
             /\ Fail(e)
             /\ e.builder => pc = "connecting"
             /\ e.timeout /\ e.connect => pc = "connecting"
             /\ pc = "awaiting" /\ status # "none" => e.timeout
      BY <1>2 DEF FailingStep
    <2>2. answer = "none" /\ Suspended
      BY <1>0, <1>2 DEF FailingStep, Suspended
    <2>3. \/ answer' = "ReadTimeout"
          \/ answer' = "Io" /\ status # "limited"
          \/ answer' \in {"ConnectTimeout", "ProtocolViolation"} /\ status = "none"
      <3>1. CASE status = "limited"
        <4>1. pc = "awaiting" /\ e.timeout /\ ~e.connect
          BY <1>0, <2>1, <2>2, <3>1 DEF Suspended
        <4> QED BY <2>1, <4>1, MappedError DEF Fail, Return
      <3>2. CASE status # "limited"
        BY <1>0, <2>1, <3>2, MappedError DEF Fail, Return
      <3> QED BY <3>1, <3>2
    <2>4. status \in StatusClasses
      BY DEF TypeOK
    <2> QED BY <2>1, <2>2, <2>3, <2>4 DEF Fail, serverVars
  <1>3. CASE RejectRequestBody
    BY <1>0, <1>3 DEF RejectRequestBody, Return, serverVars
  <1>4. CASE RejectMalformed
    BY <1>0, <1>4 DEF RejectMalformed, Return, serverVars, MapReqwestError, BuilderError
  <1>5. CASE Send \/ Connected
    BY <1>5 DEF Send, Connected, serverVars
  <1>6. CASE TakeHead
    BY <1>0, <1>6 DEF TakeHead, Return, serverVars, TypeOK
  <1>7. CASE TakeChunk
    BY <1>0, <1>7 DEF TakeChunk, Return, serverVars
  <1>8. CASE TakeEnd
    BY <1>0, <1>8 DEF TakeEnd, Return, serverVars
  <1>9. CASE ServerHead
    <2>1. answer = "none" /\ status = "none"
      BY <1>0, <1>9 DEF ServerHead, AnswerInv, FaultInv, NothingEarly
    <2> QED BY <1>9, <2>1 DEF ServerHead, clientVars
  <1>10. CASE Expire \/ ServerSends \/ ServerFinishes \/ ServerCuts
    BY <1>10 DEF Expire, ServerSends, ServerFinishes, ServerCuts,
                 clientVars, serverVars
  <1>11. CASE Finished
    BY <1>1, <1>11 DEF Finished
  <1> QED BY <1>1, <1>2, <1>3, <1>4, <1>5, <1>6, <1>7, <1>8, <1>9, <1>10, <1>11,
             FailingActions
          DEF Next, Begin, Read, Environment

\* Every call is an exchange as HttpDriver promises it.
THEOREM Implementation == Spec => ImplementsExchange
  <1>1. Init => Exchange!AbsInit
    BY DEF Init, Exchange!AbsInit
  <1>2. TypeOK /\ AnswerInv /\ FaultInv /\ [Next]_vars
           => [Exchange!AbsNext]_(Exchange!absVars)
    BY ExchangeStep DEF Exchange!absVars
  <1> QED BY <1>1, <1>2, TypeCorrect, AnswerAlways, FaultAlways, PTL
          DEF Spec, ImplementsExchange, Exchange!AbsSpec
=============================================================================
