# transportx: a TLA+ development

This directory models `transportx`, a driver-independent HTTP and WebSocket
transport layer in Rust (`src/src/*.rs`): a bounded object pool, a default HTTP
driver on reqwest and a default WebSocket driver on tokio-tungstenite. Paths
below are relative to the repository (`src/` of the checkout), so `pool.rs`
means `src/pool.rs` there.

## The system

| component | code | state it keeps | operations |
| --- | --- | --- | --- |
| HTTP client pool | `pool.rs` | `idle: Vec<T>` and `checked_out` under one mutex, one condition variable; a lease owns its object, a rollback guard owns a permit | `try_new`/`new`, `checkout_with`, `checkout_lease_with`, `return_client`, lease drop, `into_inner`, `checkout_idle_timeout` |
| HTTP driver, `execute` | `http.rs:154-248` | none between calls; in a call: the body collected so far | one call: limits, request building, head, chunks, error mapping |
| HTTP driver, construction | `http.rs:38-152`, `tls.rs`, `proxy.rs` | none | order of checks, what each failure is reported as |
| WebSocket driver | `ws.rs` | the tungstenite stream (closing state, write buffer, fused flag) | `connect`, `next_frame`, `send_frame`, `close` |
| error classification | `lib.rs:85-158` | none | `is_retryable` |
| `Retry-After` parser | `lib.rs:305-317` | none | `parse_retry_after_at` |
| mock transport | `lib.rs:366-438` | two maps, each behind a read-write lock that can be poisoned | `set_get`, `set_post`, `execute` |
| redacting `Debug` | `lib.rs:180-292`, `proxy.rs` | none | formatting |

How they interact: the pool is generic and knows no driver; an application keeps
drivers (or connection ids) in it, and the pool's calls block where the drivers'
calls are awaited. The two drivers and the pool share the error type. `execute`
calls the `Retry-After` parser with the clock of the moment. Nothing is
persisted, and the crate itself never retries.

What is hard in each, and what makes it correct:

* **Pool.** Threads interleave at three places: between critical sections, while
  a factory runs outside the mutex with a permit already taken, and while a
  waiter has given the mutex up. Correct means: never more than `max_pool_size`
  objects accounted for; a permit is given back exactly once on every path
  (factory error, unwind, lease drop, `into_inner`); `PoolExhausted` and `Ok(None)`
  are true when they are answered; no object lies idle beside a sleeper that
  nobody is going to wake; every wait ends.
* **`execute`.** The server, the network and the total timer interleave at two
  awaits. Correct means: the collected body is within the limit at all times;
  `Ok` is a whole response; nothing transient is reported as permanent, and a
  request that is at fault is never reported as worth a retry; every call with a
  timeout returns.
* **WebSocket driver.** The peer's messages, closing from either side, loss of
  the connection and dropped futures come in any order. Correct means: payloads
  within the limit in both directions; `Ok(None)` only for the peer's Close;
  `Ok` of a send means on the wire; nothing follows our Close; loss is not
  permanent; no call waits on a connection that has ended or was reset.
* **Construction.** One thread, but several options may be at fault at once, and reqwest
  reports some faults late. Correct means: a driver that comes out was built from what
  the caller asked for; `sni = false`, which can never work, is reported as permanent
  whatever else is wrong; and `ProtocolViolation` is always the fault of an option.
* **Pooled drivers.** Tasks of an executor hold a driver across an await. The future may
  be dropped there, and a call of the pool keeps the worker it is made on. Correct means:
  no permit is lost but with a driver that was checked out by hand; no more requests are
  in flight than permits are left; and a pool that is exhausted becomes free again.
* **Parser.** Any number of seconds, any date, any clock. Correct means: a caller that
  waits as told comes back when the server allows it, and the delay is missing only when
  the server gave none.
* **Mock.** Threads prepare and execute at once, over two locks that a panicking
  setter poisons. Correct means: an answer is one that its entry held during the
  call, and a table holds the response of the last set, or of one that ran beside it.
* **Debug.** Formatting, without state.

## Modules

| module | what it is |
| --- | --- |
| `HttpClientPool` | the pool, one action per critical section |
| `PermitSemaphore` | what the pool promises: a counting semaphore |
| `PermitSemaphore_proofs` | that the semaphore excludes |
| `MCHttpClientPool` | symmetry of the callers, for TLC |
| `HttpClientPool_proofs` | theorems about the pool |
| `TransportError` | the errors of the crate and `is_retryable` |
| `HttpExchange` | what `HttpDriver::execute` promises: one answer, of the right kind |
| `ReqwestHttpDriver` | one call of `execute`, with server, connection, timer and clock |
| `ReqwestHttpDriver_proofs` | theorems about `execute` |
| `FrameDuplex` | what a `WsConnection` promises: two directions of frames |
| `FrameDuplex_proofs` | what the duplex means for what has gone out |
| `TungsteniteWs` | `connect` and one connection, with the peer |
| `TungsteniteWs_proofs` | theorems about the connection |
| `DriverBuilder` | construction of the HTTP driver |
| `DriverBuilder_proofs` | theorems about construction |
| `PooledDriver` | tasks, executor, pool and requests together; extends `HttpClientPool` |
| `PooledDriver_proofs` | theorems about the composition: what becomes of permits and requests |
| `MockHttpTransport` | the mock, shared by threads |
| `MCMockHttpTransport` | symmetry of threads, URLs and responses, for TLC |
| `MockHttpTransport_proofs` | theorems about the mock |

### HttpClientPool

`idle` is `PoolState::idle.len()` (objects are moved and never shared, so only
their number matters), `checkedOut` is `PoolState::checked_out`, and `pc` says where
each caller is. A caller is one use of the pool, with one call at a time and at
most one object; a thread that holds several leases is several callers.

| actions | code |
| --- | --- |
| `CheckoutIdle`, `CheckoutStartFactory`, `CheckoutExhausted` | the three ends of the critical section of `checkout_with` |
| `FactoryOk`, `FactoryFails` | the factory's answer; `FactoryFails` is the drop of `CheckoutPermitRollback`, on `Err` and on unwind alike |
| `LeaseDrop`, `LeaseIntoInner`, `ManualReturn` | the ways an object or its permit comes back |
| `WaitEnter`, `Resume` | `checkout_idle_timeout` up to its next wait, and from there; both use `WaitLoop`, one pass of the loop |
| `Expire`, `TimeoutWake`, `SpuriousWake` | the clock and the condition variable |
| `Leak`, `ReturnForeign` | what the manual entries allow a caller to do wrong; off when `AccurateCallers` is true |

`notify_one` wakes any member of the wait set or nobody. A waiter whose deadline
has passed may still find `timed_out()` false, because a notification came
first. Whether a checkout is a lease or a manual one is chosen when the object is
handed out.

Left out: `Debug` and the accessors; the handling of a poisoned mutex, because
nothing panics while it is held (the factory and the drop of a rejected object
run after it is released).

### ReqwestHttpDriver

A body is its length. `pc` has a value for each await. A head arrives whole, with or
without a `Content-Length`; the server sends bytes, finishes or breaks off; `chunk()`
hands over any part of what has arrived. A head that has arrived is handed over although
the connection breaks behind it, but not once the total timer has been seen to run out.
Connecting, the server and the timer
are external. `usize::try_from` and `saturating_add` saturate at `UsizeMax`.
Redirects, which reqwest follows by itself, are part of waiting for the head;
header contents are reduced to "the builder refuses them".

`retryHeader` is what a 429 says in `Retry-After`, `now` the clock of the system, which
the call reads once, when it answers, and `retryAfter` the delay that is answered:
a set with one number, or empty for `None`. `ParseRetryAfterAt` is
`parse_retry_after_at`: a number that fits in a `u64` is the delay; a date is the distance
from the clock, zero if it is over; anything else is no delay. Which texts are numbers or
dates is decided by `str::parse` and `httpdate` and is part of the header's kind.

`HttpExchange` says what the trait asks of any driver; the head that has arrived is
mapped to the head, the answer to the answer (`ImplementsExchange`). A 429 is
`RateLimited`, or `ReadTimeout` if the time was over before it was looked at, and never
an `Io`, whatever becomes of its body. Any other head ends in `Ok`, too large, or a
response that is lost.

### TungsteniteWs

`proto` is tungstenite's closing state, `ended` the fused flag of the tokio
stream, `out` and `wire` the frames buffered and sent, `log` and `read` what the peer has
sent and how much of it is decoded. `log`, `wire` and `accepted` are also the history the
properties speak of. `peer` is `gone` when its end of the stream has come and `reset` when its
reset has; a peer that vanishes without either is still `up`. Each iteration of the loop in `next_frame` is one action
(`TakeFrame`, `SkipControl`, `TakeClose`, `DecoderRefuses`, `ReadEof`, `ReadReset`, `ReadFused`);
`SendFrame` and `Close` run up to the flush, `FlushSome`, `FlushFails` and `SendDone` are the
flush, `Cancel` is a caller that drops the future of a call. Fragments of a message
are not told apart, since the limit of the decoder is on their sum. tungstenite
and tokio-tungstenite are not in the repository; their part follows the
behaviour of the locked version 0.29 that `ws.rs` relies on.

`FrameDuplex` is the promise of the trait `WsConnection`: frames that are accepted go out
once, in order, and before the Close, whichever later call or reply flushes them; `Ok`
is answered when all that was accepted is out; nothing is received after the receiving
side is over. Its `sent` has a number for each payload and 0 for a control frame; `InOrder`
says that each payload is right behind those accepted before it, `AllSent` that none is left.
`ImplementsDuplex` maps the send buffer away and keeps what is on the wire.

### DriverBuilder

`asked` and `caFile` are the options and what the certificate file holds, `pc` is the part
of `builder` that comes next, `client` what reqwest's `ClientBuilder` has been given,
`answer` what the caller gets. Each action is one arm of `builder`: `ApplyTimeout`;
`RefuseSni`, `KeepSystemRoots`, `AcceptInvalidCerts`, `LoadCustomCa` for the TLS options;
`SkipProxy` and `ApplyProxy`; `Build`. `RefuseSni` comes before the mode is looked at. A
damaged certificate may be refused by `from_pem`, by `build`, or not at all, depending
on the TLS backend; `build` may fail for reasons of its own. Both are `Io`, as is a file
that cannot be read. The body limits are only stored, and the presets (`new`, `with_timeout`,
`with_limits`, `with_tls`, `with_proxy`) are particular values of `asked`.

### PooledDriver

A task is a caller of the pool with two more pieces of state: `call`, the `execute` it
awaits, and whether it is `polled`, that is, has a worker. A polled task keeps its worker
until it awaits: `CallPool`, which is every call of the pool that hands out or waits, changes
nothing of that, be it a factory, a wait in `checkout_idle_timeout` or one try after the
other. `Execute` gives the worker up when it suspends, and not when it refuses the request
before its first await. `Yield` is any other await, or the end of a task; `Poll` needs a worker
that is free. `GiveBackDriver` is the pool's own three actions.

`DropFuture` drops the future where it awaits `execute`. With a lease in it that is `LeaseDrop`.
With a driver from `checkout_with` or `checkout_idle_timeout` it is the pool's `Leak`: the driver
is gone, its permit is still counted, and `lost` is one more. With `AccurateCallers` true
tasks use leases in such places; the run sets it to false.

Of `execute` only begin and return are left: `EveryCallReturns` and `HttpExchange` are about
the rest.

### MockHttpTransport

`tables` and `poisoned` are the two maps and their locks. A call is `Begin` and one critical
section, `Set` or `Execute`, so that other calls come between. The old value of an `insert` is
dropped before the guard; a `Bytes` may have an owner whose drop panics, which is how a lock
gets poisoned. The setters take a poisoned lock, `execute` answers `Io`.

Three variables are history. `could` holds, for an `execute`, the values its entry has had
since it began. `standing` is what each entry may hold, and knows nothing of the tables: a
set that begins adds its response, and a set that ends leaves only its own and those of
the sets that ran beside it (`rival`). `SetTakesEffect` compares the tables with it.

## What is checked

| run | expects | what it asks |
| --- | --- | --- |
| `pool_safety` | pass | `CapacityBound`, `PermitAccounting`, `NoLostWakeup`, `ImplementsSemaphore`, `ExhaustedIsTrue` with callers that return what they take: 4 callers, 3 permits, 2 idle slots |
| `pool_misuse` | pass | what survives leaks and foreign returns: `TypeOK` (no underflow), `CapacityBound`, `NoLostWakeup`, `TimeoutIsTrue`; 4 callers, 2 permits |
| `pool_liveness` | pass | `IdleIsServed`: notifications alone bring an object to a sleeper, the clock does not help; `EveryWaitEnds`, if there is a clock; both with misuse; 3 callers, 2 permits |
| `pooled_driver` | pass | `PermitsAreHeldOrLost`, `InFlightBounded`, `ExhaustionIsTemporary`: 3 tasks on one worker share 2 drivers, leases and bare ones, and are dropped at will |
| `pool_max_idle_doc` | violation | `max_idle` is documented as no cap of its own |
| `driver_limits` | pass | one `execute` under both limits and a total timeout: `TypeOK`, `BodyWithinLimit`, `OkIsComplete`, `PermanentIsDeserved`, `BadRequestIsPermanent`, `ConnectTimeoutIsEarly`, `RetryAfterIsHonest`, `ImplementsExchange`, `EveryCallReturns` |
| `ws_limits` | pass | `TypeOK`, `WithinLimit`, `EndIsTrue`, `OkMeansSent`, `NothingAfterOwnClose`, `PermanentIsDeserved`, `ImplementsDuplex`, `EveryCallReturns` |
| `ws_clean_doc` | violation | `clean: true` is documented as a completed handshake |
| `ws_connect_doc` | violation | a permanent error is documented as one that must come again |
| `builder_options` | pass | `TypeOK`, `OkMeansAsAsked`, `ViolationIsDeserved`, `SniOffIsPermanent` over every mix of options |
| `mock` | pass | `ExecuteIsCurrent`, `SetTakesEffect`: 3 threads, 1 URL in 2 tables, 2 responses |
| `builder_auth_doc` | violation | half a pair of proxy credentials counts as authentication and is not used |

### Bounds, and why they are enough

* *Pool.* The interesting cases are: the pool full, more callers than permits, more
  permits than idle slots (so that a returned object is dropped), two sleepers
  beside one notification, and a waiter woken while another caller takes its
  object. Four callers on three permits and two slots have them all; the
  liveness run uses three callers on two permits. Nothing else is bounded, the
  state space is finite by itself. Symmetry is used in the safety runs only.
  The theorems below hold for any number of callers and any configuration.
* *`execute`.* Request bodies below, at and over a limit of 1; declared lengths
  below, at and over a response limit of 3, and one over `UsizeMax` = 5; up to
  `MaxWire` = 5 bytes on the wire, so that a body passes the limit in one chunk, in
  several, and past `UsizeMax` never without passing the limit first.
* *`Retry-After`.* Numbers 0, 3 and 5 with `U64Max` = 4, so one of them is no `u64`; as dates
  they lie before, between and after the clock's values 2, 3 and 4.
* *WebSocket.* `MaxFrame` = 2 with payloads of 2 and 3 bytes; two sends, so that a
  cancelled one can be followed by another; three peer messages, enough for
  control frames before data and for a message after a Close. `MaxSends` and
  `MaxPeerMessages` are the only bounds on counters.
* *Pooled drivers.* One worker, so that one waiting task stops all the others; three
  tasks on two permits, so that the third has to wait, and one or both permits may be
  lost. Nothing is bounded.
* *Mock.* Three threads, for two sets and an `execute` at the same time; one URL, because an
  entry is found by the whole key, in two tables, so that an answer may be from the wrong
  one; two responses. Threads and responses are symmetric.
* *Construction.* No bound: each option is reduced to the cases `builder` tells apart, and
  every combination is an initial state.

### Fairness

* *Pool.* `NotifySpec` assumes that a woken thread gets the mutex: critical
  sections neither block nor loop, and the factory runs outside. `ClockFairness`, the
  premise of `EveryWaitEnds`, says that time passes and that the platform ends a wait
  whose time is over. No fairness is put on factories, on the holders of objects or on
  spurious wakeups. `IdleIsServed` deliberately does without the clock.
* *Pooled drivers.* Factories end and the clock runs (weak fairness: they have their
  worker). `execute` returns, by its total timeout, and a task with an answer is polled in the
  end if a worker is free time and again: strong fairness, because a worker comes and
  goes, and the executor's queue is served in turn. That a task parts with its driver when its
  request is over is asked of the application: a lease does it by leaving its scope.
  `DropFuture` is never required.
  `ExhaustionIsTemporary` has a premise besides, `RefusedTasksBackOff`: a task that is polled
  without a driver time and again awaits something in the end, as the documentation of
  `PoolExhausted` tells a caller to (`pool.rs:234`). It is needed. The calls of the pool are
  synchronous, so a task that retries `checkout_with` or `checkout_idle_timeout` in a loop
  without an await keeps its worker for ever, and with one worker TLC then shows the holder
  of a driver that is never polled again. With a worker for each task (`Workers` = 3) the
  property holds without the premise.
* *`execute`.* The executor polls the call and the timer runs out and is seen:
  reqwest polls the total timeout together with the response, in the head
  phase and in the body. Nothing is assumed of server or network, so
  `EveryCallReturns` rests on the timer alone.
* *WebSocket.* The connect timer runs out; a reader is woken by what is in its
  socket; a flush that has nothing left to write ends, and so does one to a peer that has
  closed its socket, which the kernel takes or refuses. Nothing is assumed of a peer that is
  up: it need not send, and need not make room for what is sent to it. `next_frame` and a
  blocked `send_frame` have no timeout and may wait for ever for such a peer, and one that
  vanishes without FIN or RST is such a peer: nothing in the driver ends a wait for it,
  and `EveryCallReturns` says nothing of it.

## What the violation runs show

1. `max_idle` (`pool.rs:13`) is described as a semantic marker under the same cap as
   the pool; `return_client` (`pool.rs:218`) drops an object when `max_idle` are idle,
   with fewer than `max_pool_size` in the pool.
2. `clean: true` is documented as a completed closing handshake (`lib.rs:101`).
   After a connection was lost (`next_frame` answers `clean: false`), `send_frame`
   and `close` are answered `AlreadyClosed` by tungstenite, mapped to `clean: true`
   (`ws.rs:70`).
3. A non-retryable error is documented as one the same input must meet again
   (`lib.rs:143`). A connection that ends inside the opening handshake is a
   tungstenite protocol error, hence `ProtocolViolation` (`ws.rs:88`). An HTTP
   answer other than 101 (a 503, say) takes the last arm and ends the same way.

4. `ProxyConfig::has_auth` is documented as "whether authentication is configured"
   (`proxy.rs:41`) and is true when either half is given; `build_reqwest_proxy`
   (`proxy.rs:62`) uses the credentials only when both are, and says nothing otherwise.

Two observations that no document contradicts: after a complete closing
handshake `next_frame` answers `clean: false` (as the trait says of a stream's end);
and `close` after `Ok(None)` is refused as a protocol violation, with the reply to
the peer's Close left in the buffer until `next_frame` is called once more.

## What is proved

TLAPS checks, for every set of callers that is finite and every configuration that `PoolConfig::validate`
accepts (`ConfigAssumption`, `CallersAssumption`):

| theorem of `HttpClientPool_proofs` | statement |
| --- | --- |
| `TypeCorrect` | `Spec => []TypeOK` |
| `Capacity` | `Spec => []CapacityBound` |
| `PermitsAreCounted` | `Spec => []PermitAccounting` |
| `NoWakeupIsLost` | `Spec => []NoLostWakeup` |
| `Implementation` | `AccurateCallers => (Spec => ImplementsSemaphore)` |
| `ExhaustedOnlyWhenFull` | `Spec => ExhaustedIsTrue` |
| `TimeoutOnlyWhenOver` | `Spec => TimeoutIsTrue` |

The argument. `TypeOK` and `CapacityBound` are inductive together (`BoundStep`): the
idle paths move an object from `idle` to `checkedOut` and keep the sum; a return
that finds `checkedOut` = 0 adds an object only below `MaxIdle`, which is at most
`MaxPoolSize`; the factory path needs `idle` = 0 besides a free permit. `PermitAccounting`
needs them and the fact that each action moves at most one caller into or out
of the holders; the lemmas on cardinality (`SameCardinality` and those beside it)
carry that, and `PermitStep` goes through the actions. `NoLostWakeup` is inductive on the types (`WakeupStep`): only
returns add an idle object, and each return that finds a sleeper wakes one; a
woken waiter that leaves takes an object along, or finds none. The
refinement maps a caller's permit and its refusal; the capacity of the semaphore
is `PermitAccounting` with `PermitFree`. What the semaphore is worth is a theorem of
`PermitSemaphore_proofs`: `Exclusion`, at most `Permits` callers hold an object and none of
them was refused.

For every limit and every set of lengths (`LimitsAssumption`, `WireAssumption`):

| theorem of `ReqwestHttpDriver_proofs` | statement |
| --- | --- |
| `TypeCorrect` | `Spec => []TypeOK` |
| `BodyBounded` | `Spec => []BodyWithinLimit` |
| `OkAlwaysComplete` | `Spec => []OkIsComplete` |
| `PermanentAlwaysDeserved` | `Spec => []PermanentIsDeserved` |
| `BadRequestAlwaysPermanent` | `Spec => []BadRequestIsPermanent` |
| `ConnectTimeoutAlwaysEarly` | `Spec => []ConnectTimeoutIsEarly` |
| `RetryAfterAlwaysHonest` | `Spec => []RetryAfterIsHonest` |
| `Implementation` | `Spec => ImplementsExchange` |

The strengthening is `NothingMissing`: until a chunk is refused the body is all that was
consumed, what is consumed was sent, and a response that is finished has its
declared length. `LimitsAssumption` asks that the response limit be below `UsizeMax`, so that a
saturated sum is still over the limit; a limit of `usize::MAX` cannot be exceeded by
a body in memory. The last four need `NothingEarly` as well: no head before the server
has seen a request over a connection, and no delay before the answer. `ParsedDelay` and `NoDelay` say what the parser
does with every header and clock; `ExchangeStep` maps each action to a step of the
exchange or to none.

For every frame limit, every set of payload sizes and every number of frames and messages
(`FrameAssumption`, `BoundsAssumption`, which only say that these are natural numbers):

| theorem of `TungsteniteWs_proofs` | statement |
| --- | --- |
| `Invariant` | `Spec => []IInv` |
| `TypeCorrect` | `Spec => []TypeOK` |
| `LimitIsKept` | `Spec => []WithinLimit` |
| `EndIsAlwaysTrue` | `Spec => []EndIsTrue` |
| `OkAlwaysMeansSent` | `Spec => []OkMeansSent` |
| `CloseEndsTheWire` | `Spec => []NothingAfterOwnClose` |
| `CloseIsBehindAll` | `Spec => [](OwnCloseSent => Duplex!AllSent)` |
| `PermanentIsAlwaysDeserved` | `Spec => []PermanentIsDeserved` |
| `Implementation` | `Spec => ImplementsDuplex` |

The argument. What is on the wire and what is buffered behind it are one line of frames, `Line`.
A flush moves the mark between the two, and every other action leaves the line alone or
appends one frame (`EveryLineStep`), whichever call does it and however it ends. So three
facts about the line are inductive: its payloads are 1 to `accepted` in order (`LineInOrder`), none is over the
limit (`LineFits`), and a Close stands only at its end and only when `proto` has left `active` (`CloseIsLast`).
What the properties say of the outgoing side is not inductive by itself: it speaks of the wire alone, and a flush
may put any part of the buffer there. `FrontOfLine` carries the facts over to the wire, and says that
a Close on the wire has everything accepted in front of it.
The receiving side needs `ReadToClose`: while messages are accepted none of those read was
a Close, and a closing that the peer began or acknowledged has read one. `AnswerIsTrue` keeps each
answer with the facts it was given on until the next call begins, and says that there is no
answer during a call; without that `Ok` and an empty buffer would come apart when the next call
appends a frame. In the refinement a flush is
`Transmit` (`FlushIsTransmit`, where a Close that goes out needs `FrontOfLine`), the first half of
a call is `Start`, errors and dropped futures are `Fail`; the peer, and control frames that are only
buffered, are stutters. `FrameDuplex_proofs` adds what the duplex means: by `Promise`, what went out is at all times the
first of the accepted frames, and all of them once the Close is out.

For every mix of options and every certificate file (no constants, no assumption):

| theorem of `DriverBuilder_proofs` | statement |
| --- | --- |
| `TypeCorrect` | `Spec => []TypeOK` |
| `OkIsAsAsked` | `Spec => []OkMeansAsAsked` |
| `ViolationAlwaysDeserved` | `Spec => []ViolationIsDeserved` |
| `SniOffAlwaysPermanent` | `Spec => []SniOffIsPermanent` |

The strengthening is `PartsInOrder`: what has been handed to reqwest, and which options
have been found good, at each part of `builder`.

For any tasks and workers, from the assumptions on the pool:

| theorem of `PooledDriver_proofs` | statement |
| --- | --- |
| `NoOtherPermitIsLost` | `PooledSpec => []PermitsAreHeldOrLost` |
| `InFlightIsBounded` | `PooledSpec => []InFlightBounded` |

Both hold whether or not tasks use leases; no assumption on `AccurateCallers` is made. Every
step of a task is one of the pool or leaves it alone (`PoolStep`), which carries the types and
`CapacityBound` over. That permits are held or lost is inductive on the types: `CountedStep` of the pool's
proofs says that every step of a caller that returns what it took changes `checkedOut` and the
number of holders by the same amount, and `LeakLoses` that a bare driver that is dropped
takes one holder away and leaves `checkedOut`. `RunningHold`, that a request runs on a driver in
hand and without a worker, makes the requests in flight some of the holders; with the
former and `CapacityBound` they and the lost permits are at most `MaxPoolSize`.

For any threads, URLs and responses that are no answers of another kind
(`BodiesAssumption`):

| theorem of `MockHttpTransport_proofs` | statement |
| --- | --- |
| `ExecuteAlwaysCurrent` | `Spec => []ExecuteIsCurrent` |
| `SetAlwaysTakesEffect` | `Spec => []SetTakesEffect` |

For `ExecuteIsCurrent` the strengthening is `Witnessed`: while an `execute` runs, its history
holds what its entry holds now. For `SetTakesEffect` it is `MayStand`: the response of a set that
runs is in `standing` of its entry and in `rival` of every set that runs beside it, so that it may
still stand when one of those has returned (`EndSetStep`).

Every invariant, action property and refinement that a passing run checks is a theorem above. Only
model-checked are the liveness properties, `EveryWaitEnds`, `IdleIsServed`,
`ExhaustionIsTemporary` and both `EveryCallReturns`: they follow from fairness, and TLAPS reasons
neither about ENABLED nor about liveness under fairness. The four runs that end in a violation are
counterexamples and need no proof.

## Not modelled, and why

* Redacting `Debug` output and `is_sensitive_header_name`: functions on strings
  without state, covered by unit tests.
* TLS, DNS, connection reuse, decompression: inside reqwest and tungstenite.

## Plan

Done: all components but the formatting of `Debug`, model-checked, and all their safety
properties and refinements proved.

What is left to add:

1. What `HttpExchange` means, as `PermitSemaphore_proofs` and `FrameDuplex_proofs` say it of
   the other two promises: no answer is given twice, and a 429 is never an `Ok`.
2. Type correctness of the mock, as a theorem of its own.
3. The safety half of the liveness arguments: that a sleeper past its deadline is always at a
   place from which it can return, and that a call is never at an await that nobody answers.
