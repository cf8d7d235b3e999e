------------------------ MODULE ReqwestHttpDriver ------------------------
(***************************************************************************)
(* One call of ReqwestHttpDriver::execute of src/http.rs, with the reqwest  *)
(* client and the server it talks to.  The driver has no mutable state, so  *)
(* concurrent calls do not meet and one call is the whole behaviour.        *)
(*                                                                         *)
(* The call gives up the processor at two places only: in                   *)
(* client.execute().await until the head of the response is there, and in   *)
(* response.chunk().await between two chunks.  There the server, the        *)
(* network and the total timeout interleave with it.                       *)
(*                                                                         *)
(* A body is its number of bytes.  The server's part, the connection and    *)
(* the timer are outside src/ (reqwest, hyper, the peer): they may do       *)
(* whatever the code has to be prepared for.                               *)
(***************************************************************************)
EXTENDS Naturals, TransportError

CONSTANTS
    MaxRequestBody,    \* max_request_body_bytes, 0 is off
    MaxResponseBody,   \* max_response_body_bytes, 0 is off
    UsizeMax,          \* the largest usize
    U64Max,            \* the largest u64
    HasTimeout,        \* was the client built with a total timeout?
    RequestBodies,     \* lengths of request bodies; 0 is also the absent body
    Declared,          \* the values of a Content-Length header (u64)
    RetryNumbers,      \* the seconds and dates of a Retry-After header
    Clock,             \* the readings of the system clock
    MaxWire            \* a bound on the bytes a server sends

\* A limit of usize::MAX is as good as none: no Vec gets there.
ASSUME LimitsAssumption ==
    /\ MaxRequestBody \in Nat
    /\ MaxResponseBody \in Nat
    /\ UsizeMax \in Nat
    /\ U64Max \in Nat
    /\ MaxResponseBody < UsizeMax
    /\ HasTimeout \in BOOLEAN

ASSUME WireAssumption ==
    /\ RequestBodies \subseteq Nat
    /\ Declared \subseteq Nat
    /\ RetryNumbers \subseteq Nat
    /\ Clock \subseteq Nat /\ Clock # {}
    /\ MaxWire \in Nat

VARIABLES
    request,     \* [body, fault]: its length, and what is wrong with the rest
    pc,          \* where the call is
    body,        \* the length of the body collected so far
    answer,      \* what execute returned
    retryAfter,  \* RateLimited { retry_after }: a set of no or one duration
    expired,     \* has the total timeout run out?
    now,         \* the system clock, which the call reads at most once
    server,      \* what the server has done
    status,      \* the status class of the response whose head has arrived
    declared,    \* its Content-Length: a set of no or one number
    retryHeader, \* its Retry-After
    sent,        \* body bytes the server has put on the wire
    consumed     \* body bytes that chunk() has handed over

clientVars == <<pc, body, answer, retryAfter, consumed>>
timeVars == <<expired, now>>
serverVars == <<server, status, declared, retryHeader, sent>>
vars == <<request, clientVars, timeVars, serverVars>>

(***************************************************************************)
(*   calling      execute has been called                                   *)
(*   connecting   client.execute().await, no connection yet                 *)
(*   awaiting     client.execute().await, connected                         *)
(*   reading      in the loop over response.chunk().await                   *)
(*   done         returned                                                  *)
(***************************************************************************)
Places == {"calling", "connecting", "awaiting", "reading", "done"}

\* A method that does not parse, a URL or a header the reqwest builder refuses,
\* a URL scheme the client refuses.
Faults == {"none", "method", "url", "scheme"}

\* In client.execute().await or in chunk().await.
Suspended == pc \in {"connecting", "awaiting", "reading"}

\* What execute fails with.
Errors == {"RequestTooLarge", "ResponseTooLarge", "ProtocolViolation",
           "RateLimited", "ConnectTimeout", "ReadTimeout", "Io"}

ServerStates == {"listening", "responding", "finished", "cut"}

\* "limited" is 429, "other" every other status: 2xx, 4xx and 5xx alike.
StatusClasses == {"none", "limited", "other"}

\* The values of a Retry-After header: none, one that is no text, a text that is
\* neither digits nor a date, delay-seconds, an HTTP-date.
RetryHeaders == [kind : {"absent", "opaque", "garbage"}, at : {0}]
                \cup [kind : {"seconds", "date"}, at : RetryNumbers]

Init ==
    /\ request \in [body : RequestBodies, fault : Faults]
    /\ pc = "calling"
    /\ body = 0
    /\ answer = "none"
    /\ retryAfter = {}
    /\ expired = FALSE
    /\ now \in Clock
    /\ server = "listening"
    /\ status = "none"
    /\ declared = {}
    /\ retryHeader = [kind |-> "absent", at |-> 0]
    /\ sent = 0
    /\ consumed = 0

-----------------------------------------------------------------------------
(* Arithmetic of the limits.                                               *)

\* usize::try_from(..).unwrap_or(usize::MAX), and what saturating_add yields.
Saturated(n) == IF n > UsizeMax THEN UsizeMax ELSE n

\* Mutant: the limit is tested against the chunk alone.
LengthWithChunkAlone(b, n) == Saturated(n)

\* body.len().saturating_add(chunk.len())
LengthWith(b, n) == Saturated(b + n)

\* limit > 0 && n > limit
OverLimit(limit, n) == limit > 0 /\ n > limit

-----------------------------------------------------------------------------
(* Errors of reqwest.                                                      *)

\* Mutant: the two timeouts are swapped.
ClassifyTimeoutSwapped(isConnect) ==
    IF isConnect THEN "ReadTimeout" ELSE "ConnectTimeout"

\* classify_reqwest_timeout, of an error that is a timeout.
ClassifyTimeout(isConnect) ==
    IF isConnect THEN "ConnectTimeout" ELSE "ReadTimeout"

\* Mutant: what is no timeout is a protocol violation.
MapReqwestErrorViolation(e) ==
    IF e.timeout THEN ClassifyTimeout(e.connect) ELSE "ProtocolViolation"

\* Mutant: the builder error is not told apart.
MapReqwestErrorRetryable(e) ==
    IF e.timeout THEN ClassifyTimeout(e.connect) ELSE "Io"

\* Mutant: a timeout gets a variant of its own.
MapReqwestErrorUnlisted(e) ==
    IF e.timeout THEN "Timeout" ELSE IF e.builder THEN "ProtocolViolation" ELSE "Io"

\* map_reqwest_error
MapReqwestError(e) ==
    IF e.timeout THEN ClassifyTimeout(e.connect)
    ELSE IF e.builder THEN "ProtocolViolation"
    ELSE "Io"

ReqwestErrors == [timeout : BOOLEAN, connect : BOOLEAN, builder : BOOLEAN]

BuilderError == [timeout |-> FALSE, connect |-> FALSE, builder |-> TRUE]

-----------------------------------------------------------------------------
(* Retry-After: the parser, behind HeaderValue::to_str.                     *)

\* Mutant: the distance to a date, whichever side of it the clock is on.
ParseRetryAfterDistance(header, clock) ==
    CASE header.kind = "seconds" /\ header.at <= U64Max -> {header.at}
      [] header.kind = "date" ->
           {IF header.at > clock THEN header.at - clock ELSE clock - header.at}
      [] OTHER -> {}

\* parse_retry_after_at: digits that no u64 holds are not a date either.
ParseRetryAfterAt(header, clock) ==
    CASE header.kind = "seconds" /\ header.at <= U64Max -> {header.at}
      [] header.kind = "date" -> {IF header.at > clock THEN header.at - clock ELSE 0}
      [] OTHER -> {}

-----------------------------------------------------------------------------
(* The call.                                                               *)

Return(a) == pc' = "done" /\ answer' = a

Fail(e) ==
    /\ Return(MapReqwestError(e))
    /\ UNCHANGED <<request, body, retryAfter, consumed, timeVars, serverVars>>

\* The body is checked before anything else is looked at.
RejectRequestBody ==
    /\ pc = "calling"
    /\ OverLimit(MaxRequestBody, request.body)
    /\ Return("RequestTooLarge")
    /\ UNCHANGED <<request, body, retryAfter, consumed, timeVars, serverVars>>

\* Method::from_bytes, or the reqwest builder, refuses the request.
RejectMalformed ==
    /\ pc = "calling"
    /\ ~OverLimit(MaxRequestBody, request.body)
    /\ \/ request.fault = "method" /\ Return("ProtocolViolation")
       \/ request.fault = "url" /\ Return(MapReqwestError(BuilderError))
    /\ UNCHANGED <<request, body, retryAfter, consumed, timeVars, serverVars>>

Send ==
    /\ pc = "calling"
    /\ ~OverLimit(MaxRequestBody, request.body)
    /\ request.fault \notin {"method", "url"}
    /\ pc' = "connecting"
    /\ UNCHANGED <<request, body, answer, retryAfter, consumed, timeVars, serverVars>>

\* The client refuses the scheme before it connects.
RejectScheme ==
    /\ pc = "connecting"
    /\ request.fault = "scheme"
    /\ Fail(BuilderError)

Connected ==
    /\ pc = "connecting"
    /\ request.fault = "none"
    /\ pc' = "awaiting"
    /\ UNCHANGED <<request, body, answer, retryAfter, consumed, timeVars, serverVars>>

\* No connection: refused, unreachable, TLS failure, or a timeout of the
\* operating system.
ConnectFails ==
    /\ pc = "connecting"
    /\ request.fault = "none"
    /\ \E e \in ReqwestErrors : e.connect /\ ~e.builder /\ Fail(e)

DeclaredTooLarge == \E n \in declared : OverLimit(MaxResponseBody, Saturated(n))

TakeRateLimit ==
    /\ Return("RateLimited")
    /\ retryAfter' = ParseRetryAfterAt(retryHeader, now)

\* Mutant: the body of a 429 is read before the answer is made of its head.
TakeHeadBodyFirst ==
    /\ pc = "awaiting"
    /\ status # "none"
    /\ \/ status = "limited" /\ server = "finished" /\ TakeRateLimit
       \/ /\ status = "limited" /\ server = "cut"
          /\ Return("Io") /\ UNCHANGED retryAfter
       \/ /\ status # "limited" /\ DeclaredTooLarge
          /\ Return("ResponseTooLarge") /\ UNCHANGED retryAfter
       \/ /\ status # "limited" /\ ~DeclaredTooLarge
          /\ pc' = "reading" /\ UNCHANGED <<answer, retryAfter>>
    /\ UNCHANGED <<request, body, consumed, timeVars, serverVars>>

\* The response has a head: what execute does with it up to its next await.
TakeHead ==
    /\ pc = "awaiting"
    /\ status # "none"
    /\ \/ status = "limited" /\ TakeRateLimit
       \/ /\ status # "limited" /\ DeclaredTooLarge
          /\ Return("ResponseTooLarge") /\ UNCHANGED retryAfter
       \/ /\ status # "limited" /\ ~DeclaredTooLarge
          /\ pc' = "reading" /\ UNCHANGED <<answer, retryAfter>>
    /\ UNCHANGED <<request, body, consumed, timeVars, serverVars>>

\* chunk() hands over any part of what has arrived; the part is kept unless
\* the body would grow over the limit.
TakeChunk ==
    /\ pc = "reading"
    /\ \E n \in 1 .. (sent - consumed) :
          LET got == LengthWith(body, n) IN
          /\ consumed' = consumed + n
          /\ \/ /\ OverLimit(MaxResponseBody, got)
                /\ Return("ResponseTooLarge")
                /\ UNCHANGED body
             \/ /\ ~OverLimit(MaxResponseBody, got)
                /\ body' = body + n
                /\ UNCHANGED <<pc, answer>>
    /\ UNCHANGED <<request, retryAfter, timeVars, serverVars>>

\* Mutant: the end of the connection is taken for the end of the response.
TakeEndOfStream ==
    /\ pc = "reading"
    /\ server \in {"finished", "cut"}
    /\ consumed = sent
    /\ Return("Ok")
    /\ UNCHANGED <<request, body, retryAfter, consumed, timeVars, serverVars>>

\* chunk() answers None: the response is complete.
TakeEnd ==
    /\ pc = "reading"
    /\ server = "finished"
    /\ consumed = sent
    /\ Return("Ok")
    /\ UNCHANGED <<request, body, retryAfter, consumed, timeVars, serverVars>>

\* The connection broke before the head was there, or before the body was
\* complete.  A head that has arrived is handed over all the same.
TakeCut ==
    /\ pc \in {"awaiting", "reading"}
    /\ pc = "awaiting" => status = "none"
    /\ server = "cut"
    /\ \E e \in ReqwestErrors : ~e.timeout /\ ~e.connect /\ ~e.builder /\ Fail(e)

\* Mutant: the timeout covers the head only.
TimeoutFiresBeforeBody ==
    /\ expired
    /\ pc \in {"connecting", "awaiting"}
    /\ request.fault = "none"
    /\ \E e \in ReqwestErrors :
          /\ e.timeout
          /\ ~e.builder
          /\ e.connect => pc = "connecting"
          /\ Fail(e)

\* The total timeout ends the await the call is in.  Before there is a
\* connection reqwest may or may not call it a connect error.
TimeoutFires ==
    /\ expired
    /\ Suspended
    /\ request.fault = "none"
    /\ \E e \in ReqwestErrors :
          /\ e.timeout
          /\ ~e.builder
          /\ e.connect => pc = "connecting"
          /\ Fail(e)

-----------------------------------------------------------------------------
(* What is outside: the timer, the server and its connection.  When the     *)
(* call has returned its connection is gone.                                *)

Expire ==
    /\ HasTimeout
    /\ Suspended
    /\ ~expired
    /\ expired' = TRUE
    /\ UNCHANGED <<request, clientVars, now, serverVars>>

\* The head of a response arrives, whole.
ServerHead ==
    /\ pc = "awaiting"
    /\ server = "listening"
    /\ server' = "responding"
    /\ status' \in StatusClasses \ {"none"}
    /\ declared' \in {{}} \cup {{n} : n \in Declared}
    /\ retryHeader' \in RetryHeaders
    /\ UNCHANGED <<request, clientVars, timeVars, sent>>

\* Body bytes go out.  Bytes after a declared length are no part of the body.
ServerSends ==
    /\ pc \in {"awaiting", "reading"}
    /\ server = "responding"
    /\ \E n \in 1 .. MaxWire :
          /\ sent + n <= MaxWire
          /\ \A l \in declared : sent + n <= l
          /\ sent' = sent + n
    /\ UNCHANGED <<request, clientVars, timeVars, server, status, declared, retryHeader>>

\* The response is complete: the declared length, the last chunk, or the close
\* that ends a response without either.
ServerFinishes ==
    /\ pc \in {"awaiting", "reading"}
    /\ server = "responding"
    /\ \A l \in declared : sent = l
    /\ server' = "finished"
    /\ UNCHANGED <<request, clientVars, timeVars, status, declared, retryHeader, sent>>

\* The connection breaks.
ServerCuts ==
    /\ pc \in {"awaiting", "reading"}
    /\ server \in {"listening", "responding"}
    /\ server' = "cut"
    /\ UNCHANGED <<request, clientVars, timeVars, status, declared, retryHeader, sent>>

-----------------------------------------------------------------------------
Begin == RejectRequestBody \/ RejectMalformed \/ Send \/ RejectScheme

Read == TakeHead \/ TakeChunk \/ TakeEnd \/ TakeCut

Environment ==
    \/ Connected
    \/ ConnectFails
    \/ Expire
    \/ ServerHead
    \/ ServerSends
    \/ ServerFinishes
    \/ ServerCuts

\* execute has returned, the caller has its answer.
Finished == pc = "done" /\ UNCHANGED vars

Next == Begin \/ Read \/ TimeoutFires \/ Environment \/ Finished

Spec == Init /\ [][Next]_vars

\* The executor polls the call; the timer runs out and wakes it.  Neither the
\* server nor the connection is expected to do anything.
FairSpec == Spec /\ WF_vars(Begin) /\ WF_vars(Expire) /\ WF_vars(TimeoutFires)

-----------------------------------------------------------------------------
(* Properties.                                                             *)

\* The variables have their types.
TypeOK ==
    /\ request \in [body : RequestBodies, fault : Faults]
    /\ pc \in Places
    /\ body \in Nat
    /\ answer \in {"none", "Ok"} \cup Errors
    /\ retryAfter \in SUBSET Nat
    /\ expired \in BOOLEAN
    /\ now \in Clock
    /\ server \in ServerStates
    /\ status \in StatusClasses
    /\ declared \in SUBSET Declared
    /\ retryHeader \in RetryHeaders
    /\ sent \in Nat
    /\ consumed \in Nat

\* The collected body never exceeds the limit, however the response is cut into
\* chunks and whether or not its length was declared.
BodyWithinLimit == MaxResponseBody > 0 => body <= MaxResponseBody

\* Ok is a whole response: no timeout, broken connection or limit between two
\* chunks lets a prefix pass for the body, and a 429 is never an Ok.
OkIsComplete ==
    answer = "Ok" =>
        /\ server = "finished"
        /\ status = "other"
        /\ body = sent
        /\ \A l \in declared : body = l

\* An error that is not retryable is the request's or the response's own fault:
\* nothing the network or the clock does makes a good exchange fail for ever.
PermanentIsDeserved ==
    Permanent(answer) =>
        \/ OverLimit(MaxRequestBody, request.body)
        \/ request.fault # "none"
        \/ \E l \in declared : OverLimit(MaxResponseBody, l)
        \/ OverLimit(MaxResponseBody, sent)

\* A request that is itself at fault fails for ever, and fails without a server:
\* no error that invites a retry, and nothing on the wire.
BadRequestIsPermanent ==
    OverLimit(MaxRequestBody, request.body) \/ request.fault # "none" =>
        /\ pc \in {"calling", "connecting", "done"}
        /\ server = "listening"
        /\ pc = "done" => Permanent(answer)
        /\ OverLimit(MaxRequestBody, request.body) => pc # "connecting"

\* ConnectTimeout means that no response was ever begun.
ConnectTimeoutIsEarly == answer = "ConnectTimeout" => status = "none"

\* The call is an exchange as HttpDriver promises it: a 429 that has arrived is
\* answered as one, however large the rest is and even if the connection breaks
\* before it is looked at, unless the time runs out first; and what goes wrong
\* before a response is never confused with what goes wrong in it.
Exchange == INSTANCE HttpExchange WITH head <- status

ImplementsExchange == Exchange!AbsSpec

\* A caller that waits as it is told comes back when the server allows it and
\* no later: at the date, or at once if the caller's clock is past it.  A delay is
\* told with a 429 only, and it is withheld only when the server gave none that
\* can be used.
RetryAfterIsHonest ==
    /\ retryAfter # {} => answer = "RateLimited"
    /\ answer = "RateLimited" /\ retryAfter = {} =>
           \/ retryHeader.kind \notin {"seconds", "date"}
           \/ retryHeader.kind = "seconds" /\ retryHeader.at > U64Max
    /\ \A delay \in retryAfter :
           \/ retryHeader.kind = "seconds" /\ delay = retryHeader.at
           \/ /\ retryHeader.kind = "date"
              /\ now + delay >= retryHeader.at
              /\ delay > 0 => now + delay = retryHeader.at

\* With a total timeout every call returns, whatever the server does: never
\* answer, stop in the middle, or trickle.
EveryCallReturns == HasTimeout => <>(pc = "done")

\* What makes OkIsComplete and PermanentIsDeserved inductive: until a chunk is
\* refused, nothing that arrived is missing from the body, and only a complete
\* response is finished.
NothingMissing ==
    /\ pc # "done" <=> answer = "none"
    /\ consumed <= sent
    /\ answer # "ResponseTooLarge" => body = consumed
    /\ server = "finished" => \A l \in declared : sent = l
    /\ pc = "reading" => status = "other"

\* What makes ConnectTimeoutIsEarly and RetryAfterIsHonest inductive: no head
\* comes before the connection, and no delay before the answer.
NothingEarly ==
    /\ pc \in {"calling", "connecting"} \/ server = "listening" => status = "none"
    /\ pc # "done" => retryAfter = {}
=============================================================================
