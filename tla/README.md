# TLA+ models of ozo

These are TLA+ models of the asynchronous operations of ozo, a C++ PostgreSQL client built on Boost.Asio and libpq. They cover cancel, connect and failover, the jsonb codec, and the benchmark driver in `src/benchmarks/performance.cpp`. Every definition is translated from the code under `src/`. Where the code calls something that is not under `src/` (the connection pool, the request pipeline, the io helpers `write_poll`/`read_poll`/`set_io_timeout`, `bind_cancel_timer`, `post_handler`, `time_limit_benchmark`), the model follows the specification. Those definitions are marked `spec_modelled` in `PROJECT.json`.

## The system and its parts

| Part | Source | Module(s) |
|---|---|---|
| cancel of a running request | `include/ozo/impl/async_cancel.h`, `include/ozo/cancel.h` | `AsyncCancel`, `MC_AsyncCancel`, `CancelPromise`, `AsyncCancelProofs` |
| asynchronous connect | `include/ozo/impl/async_connect.h` | `AsyncConnect`, `MC_AsyncConnect`, `ConnectPromise`, `AsyncConnectProofs` |
| failover retries | `include/ozo/failover/strategy.h` | `Failover`, `MC_Failover`, `FailoverPromise`, `FailoverProofs` |
| jsonb type and binary codec | `include/ozo/jsonb.h`, `include/ozo/io/jsonb.h` | `JsonbCodec`, `MC_JsonbCodec`, `JsonbCodecProofs` |
| benchmark driver and single-coroutine scenarios | `benchmarks/performance.cpp` | `BenchmarkDriver`, `MC_BenchmarkDriver`, `BenchmarkDriverProofs` |
| multi-thread benchmark scenario | `benchmarks/performance.cpp` | `MultThreadsBenchmark`, `MC_MultThreadsBenchmark`, `MultThreadsBenchmarkProofs` |

How the parts interact:

- **Cancel, connect and the io executor.** Cancel and connect both complete through a handler chain: `bind_cancel_timer` cancels the connection's timer, and `post_handler` posts the user's callback to the io executor.
- **Cancel's two completions.** Cancel races two completions on a strand: the timer's and that of the blocking `PQcancel`, which runs on a user-supplied executor.
- **Connect and the oid map.** Connect polls libpq until it answers OK or fails. With a non-empty oid map, it then requests the oid map before calling the user.
- **Failover.** Failover wraps an operation (a connect or a request), calls the operation again on a recoverable error while the strategy offers a try, and calls the user once.
- **Benchmarks.** The benchmarks drive requests through connectors and the pool from coroutines, on one or several threads.

## Modules and their correspondence to the code

### `AsyncCancel`

The state is per connection:

- `handler`: `ctx_->handler`, which is absent, engaged or empty.
- `timer`: the steady timer, with its completion queued as expired or aborted.
- `job`: the posted `cancel_op`.
- `exq`: the FIFO queue of a dedicated executor.
- `connOpen` and `errCtx`: the native connection and its error context.
- `pending` and `delivered`: the callbacks posted to the user and the ones the user has received.
- `ub` and `crashed`: a step with undefined behaviour, and whether it took the process down.

The actions are these:

- `cancel`: the `cancel_op` object of `cancel.h` (81-118), with one disjunct per overload. The four-argument overload takes the executor the constant `Dedicated` chooses and any time constraint. The three-argument overload takes `asio::system_executor` and any time constraint. The two-argument overload takes `system_executor` and `ozo::none`. Each overload enters `async_cancel`.
- `async_cancel`: both branches of lines 102-132, including the timer arm.
- `cancel_op`: `PQcancel` returns and its result is dispatched (96-99).
- `cancel_op_handler`: 30-44.
- `cancel_op_timeout_handler`: 62-66, with `timer_completion_executor` (68-70) for the executor query that comes with the completion.
- `timer_expires`, `cancel_op_completion` and `user_callback`.

The late dispatch after the handler was emptied dereferences `*(ctx_->handler)` in `get_executor` (line 48). It is modelled as undefined behaviour: a nondeterministic crash or no effect. The timer's completion after `PQcancel` won reaches the same dereference through `cancel_op_timeout_handler::get_executor` (line 70), but only in builds whose asio asks the handler for its executor again when the wait completes; builds that keep the executor they took when `async_wait` started never read it. `timer_completion_executor` is therefore a choice between no effect and the same undefined behaviour. `cancel` takes its executor per call. The constant `Dedicated` names the connections whose cancel is passed the one shared dedicated executor, a single thread draining a FIFO queue (`exq`). The others are passed `asio::system_executor`, a thread per job.

### `CancelPromise` and the refinement

`CancelPromise` is the abstract specification of `ozo::cancel`, per connection. It hides the shared context, the strand, the executors and the timer. Each connection keeps a `status` (idle, waiting or completed), whether it is `timed`, the `result` and the results the handler received (`handled`). Its actions are these:

- `Start`: the cancel begins waiting, or completes at once with `pq_get_cancel_failed`.
- `Complete`: the cancel completes with the `PQcancel` result. For a timed cancel only, it may instead complete with `operation_aborted`.
- `Deliver`: the handler receives the result, once.

`AsyncCancel` maps onto it through `Promise == INSTANCE CancelPromise WITH ...`:

- `cancelStatus` is waiting while `handler` is engaged, and completed once the handler was taken or no cancel handle was found;
- `cancelTimed` is `tc = "duration"`;
- `cancelResult` is the posted or the delivered result;
- `handled` is `delivered`.

The completion that loses the race, the timer's expiry, `PQcancel` returning (`cancel_op`) and a crash are all stutters. `ImplementsCancel == Promise!Spec` is checked by `AsyncCancel_system` and proved in `AsyncCancelProofs`. Its mutant arms the timer even for `ozo::none`. The refinement then fails, because an untimed cancel reports a time-out.

### `AsyncConnect`

The state:

- `pc`: the operation's phase.
- `wait`: the pending `write_poll`, `read_poll` or oid request.
- `waitDone`: that wait's completion code.
- `polls`: a bounded poll count, `MaxPolls`.
- `timer`: the io timer.
- `sockOpen` and `errCtx`.
- `pending` and `delivered`.

The actions:

- `async_connect`/`perform`: 61-78 and 176-191. Each early return of `perform` (`start_connection`, `connection_bad`, `assign_socket`) is a `done` with its error, and only the path that reaches `write_poll` leaves the operation running.
- `connect_poll_error`: the `if (ec)` branch, 80-86.
- `connect_poll_step`: the switch on `connect_poll`, 88-104.
- `oid_map_step`: `handler_` called when the oid request ends. `request_oid_map_op` is not under `src/`, so this completion is modelled from the specification.
- The environment: `io_ready`, `oid_request_completes`, `timer_expires` and `timeout_handler`.
- `user_callback`.

`done` (`request_oid_map_handler::operator()`, 138-145) either calls the handler chain or, when `OidMapEmpty` is false and the connect succeeded, starts the oid map request. `OidMapEmpty` is a property of the connection's type (160-174). It is a variable fixed at Init, so one run covers both kinds of connection. `complete` is the tail of the chain built at 183-188: `bind_cancel_timer` cancels the timer and `post_handler` posts the user's handler. The bodies of both wrappers are not under `src/` and are modelled from the specification (`CancelTimer`).

### `ConnectPromise` and the refinement

`ConnectPromise` is the abstract specification of `async_connect` (the specification's section 4.1). It hides the socket waits, the timer and the polling. Its `status` is idle, connecting, loading the OID map (`oid`) or completed. It also keeps `needOid`, the `result`, and the results the handler received (`handled`). Its actions are these:

- `Start`: the operation starts, or fails at once.
- `Connected`: the connect succeeds, and the OID map is then requested if the type needs one.
- `OidLoaded`: the OID map has been loaded.
- `Fail`: the connect or the OID request fails.
- `Deliver`: the handler receives the result, once.

`AsyncConnect` maps onto it through `Promise == INSTANCE ConnectPromise WITH ...`:

- `connectStatus` is computed from `pc` and `wait`;
- `needOid` is `~OidMapEmpty`;
- `connectResult` is the posted or the delivered result;
- `handled` is `delivered`.

The socket waits, `io_ready`, the timer and the OID reply are stutters. `ImplementsConnect == Promise!Spec` is checked by `AsyncConnect_system` and proved in `AsyncConnectProofs`. Its mutant makes `done` skip the OID map request for every connection type; the refinement then fails, because success reaches the handler of a connection whose OID map was never loaded.

### `Failover`

The state is per operation of `Ops`:

- `phase`, and `try`: the try in flight.
- `opResult`: the result the attempt called back with.
- `attempts`: the tries initiated, in order.
- `delivered`.
- `opConn` and `handlerConn`: the connection the attempt called back with, and the one the user's handler received (none, valid, or moved from).

The actions are `operation_initiator` (254-276 with `initiate_operation` 244-252), `operation_completes` (the wrapped operation) and `continuation` (206-242). `get_next_try` is the strategy of the specification's section 4.5, modelled from the specification: `NTries` tries, and the errors in `Recoverable` are recovered. Lines 147-196 only dispatch to a strategy's own `get_next_try`, which is not under `src/`.
`get_next_try_impl` (147-153) passes the continuation's connection on as an lvalue, so `connAfterNextTry` (219-228) is the connection the continuation still holds when it calls the handler. No property is stated about it: with the strategy's own `get_next_try` outside `src/`, the model can only pass the connection through.

### `FailoverPromise` and the refinement

`FailoverPromise` is the abstract specification: what a failover operation promises its caller, with the strategy's tries and contexts hidden. Per operation it keeps a `status`, the number of `tries` started, the `outcome` of the running attempt and the `result` the handler received. Its actions are `Start`, `Attempt`, `Retry` (only after a recoverable error, and only while tries are left) and `Complete` (which hands over the last outcome, and gives up on a recoverable error only at the last try).

`Failover` maps onto it through `Promise == INSTANCE FailoverPromise WITH ...`: `status` is `phase`, `tries` is the length of `attempts`, `outcome` is `opResult`, and `result` is the first entry of `delivered`. `operation_initiator` maps to `Start`, `operation_completes` to `Attempt`, the retry branch of `continuation` to `Retry`, its handler branch to `Complete`, and `Terminated` to a stutter. `ImplementsPromise == Promise!Spec` is checked by `Failover_system` and proved in `FailoverProofs`.

### `JsonbCodec`

A raw string is a sequence of byte values, and `size_of`, `send` and `recv` are the three `*_impl<pg::jsonb>` functions. The session has two steps:

- `encode`: writes the value and its size.
- `decode`: reads the field back, or a field of size 0 that a server may send.

`recv`'s error is a record field, so that an error is never a string compared with a sequence.

### `BenchmarkDriver`

`main_parse` (723-772), `run_benchmark` (520-559) and `main_report` (774-790) model main. `main_parse` includes the command lines `po::store` and `po::notify` reject by throwing, which main's catch turns into -1. `run_benchmark` runs the multi-thread scenario as one step with two outcomes. Either it returns its report, with or without a failed request (its coroutines print an error and break rather than throw), or main stays blocked in `coroutine_finished.wait` (`pc = "hung"`). The lost wakeup that causes the second outcome is modelled in `MultThreadsBenchmark`. The scenario's single coroutine steps through these actions:

- `coroutine_start`: the `get_connection` of the reuse scenarios.
- `coroutine_request`: one `ozo::request` through the connector or the pool.
- `coroutine_step`: `benchmark.step`.
- `spawn_catch`: spawn's exception wrapper, 27-38.

The pool lends an idle connection or opens one, and takes it back on success (`pool_request`, from the specification). `MaxRequests` bounds the requests the duration lets through. With one coroutine and an atomic lend-and-return, connection reuse by the pool would only restate that model of the pool, so no property is stated about it.

### `MultThreadsBenchmark`

Lines 455-518. Each coroutine steps through `request` → `ready` → (`request` | `notify` → `done`). `finished` is `finished_coroutines`. Main steps through `spawn` → `check` → `waiting` → `blocked` → `reset` → `join` → `done`. The `waiting` state is the window between the predicate evaluation and the block: the coroutines call `notify_all` without taking the mutex, so their notify can fall into it. `ThreadFree` expresses that coroutines of one `io_context` thread run one at a time.

## Runs

Every passing run below checks a type invariant and the properties listed; each property has a mutant in `PROJECT.json` that TLC must find violated.

| Run | Checks | Shows |
|---|---|---|
| `AsyncCancel_system` | `HandlerAtMostOnce`, `ErrorClosesConnection`, `LateCompletionLeavesConnection`, `TimedCancelCompletes`, `ImplementsCancel` | 3 connections and both time constraints, entered through the three `ozo::cancel` overloads; two cancels share the dedicated FIFO executor, the third runs on the system executor. The handler runs once, and every error closes the connection. Once the callback has run, the completion that lost the race (a late `PQcancel` result or the timer's handler) neither closes the connection nor rewrites its error context; this is an action property. The operation refines `CancelPromise`. Finally, a timed cancel completes even when `PQcancel` never returns or a cancel is queued behind one that blocks. |
| `AsyncConnect_system` | `HandlerAtMostOnce`, `TimedConnectCompletes`, `ImplementsConnect` | Connections with and without an oid map, up to 4 polls; the oid request follows the connect on the same timer, and the operation refines `ConnectPromise`. |
| `Failover_system` | `HandlerAtMostOnce`, `ErrorOnlyWhenExhausted`, `FailoverCompletes`, `ImplementsPromise` | 2 operations, 3 tries, one recoverable and one fatal error. |
| `MultThreadsBenchmark_system` | `ReportAfterAllStopped`, `WaitEndsWhenAllFinished`, `CoroutinesFinish` | 2 threads × 2 coroutines. |
| `BenchmarkDriver_system` | `SpawnedScenarioReports` | Every option path (including a command line that fails to parse) and every scenario name, including an unregistered one. Once a single-coroutine scenario has spawned its coroutine, `io.run()` returns and main reaches the report: the loop leaves through `benchmark.step` answering false, or an error ends the coroutine through spawn's wrapper. The run does not claim that the driver always exits, because the multi-thread scenario may leave main blocked. |
| `JsonbCodec_system` | `SizeMatchesSend`, `RoundTrip` | All 40 strings of length ≤ 3 over 3 byte values. |

Violation runs, each a disagreement between the code and what its documentation or specification says (see `findings` in `PROJECT.json`):

- **`AsyncCancel_NoUndefinedBehaviour`.** A `PQcancel` that returns after the time-out has already called the user reaches `get_executor` with an empty optional: undefined behaviour. Depending on the asio build, the timer's completion after `PQcancel` won can reach it too.
- **`AsyncCancel_ClosedBeforeCallback`.** `cancel.h` says the connection is closed in any case before the handler is called. Without a cancel handle, the user gets `pq_get_cancel_failed` with the connection still open, and a successful cancel also leaves it open.
- **`AsyncConnect_SuccessKeepsSocket`.** The io timeout closes the socket while a poll completion is queued, and the connect then reports success.
- **`MultThreadsBenchmark_BenchmarkEnds`.** A lost wakeup: `notify_all` outside the mutex falls between main's predicate and its block, and main then waits forever.
- **`BenchmarkDriver_ReuseConnectionReuses`.** `reuse_connection` requests through `provider` (line 205), so it opens a connection per request.
- **`BenchmarkDriver_ExitCodeReflectsErrors`.** A failed request is swallowed by spawn's wrapper, and the driver exits 0.

### Bounds

- **AsyncCancel.** Two connections on the dedicated executor make its FIFO order matter: the second waits behind the first. The third, on the system executor, interleaves with both. The violation runs need only one connection.
- **AsyncConnect.** `MaxPolls` of 3 or 4 lets the loop switch between write and read polls before it gives up. Past the bound the loop takes only its other exits.
- **Failover.** `NTries = 3` distinguishes the first try, a middle try and the last one, and the two error kinds cover both branches of `get_next_try`.
- **MultThreadsBenchmark.** Two threads × two coroutines give both thread-local serialisation and cross-thread races. The lost wakeup appears already with 1 × 1.
- **BenchmarkDriver.** `MaxRequests = 3` lets a coroutine loop through `benchmark.step` more than once before the duration ends it, so a loop that never leaves is a stall TLC sees, and a pool that took connections back twice would exceed its capacity of 2.

### Fairness

Fairness is weak fairness on the steps the code's environment guarantees:

- asio runs queued handlers;
- timers expire;
- the OS schedules threads;
- failover's operations run under a time constraint and so call back;
- benchmark requests end within `request_timeout`, and the driver's main thread runs (`run_benchmark`, `io_run_returns`, `main_report`).

Two steps are never fair:

- **`PQcancel` returning.** It may block forever.
- **A spurious wakeup of the condition variable.** It is allowed but never promised.

That is why `TimedCancelCompletes` needs no assumption about the cancel call, and why `BenchmarkEnds` fails.

## Proofs

`tlapm` checks nineteen theorems. They hold for every value of the constants:

- **`AsyncCancelProofs!TypeCorrect`: `Spec => []TypeOK`.** The argument is split into a data part, discharged by SMT, and a Boolean part, discharged by Zenon. `HandlerStepType` covers the handler step shared by both completions.
- **`AsyncCancelProofs!AtMostOnce`: `Spec => []HandlerAtMostOnce`.** `HandlerAtMostOnce` alone is not inductive. A state where a connection's context is still engaged but a callback was already posted would let the next handler step post a second callback. The invariant `AtMostOnceInv` strengthens it:
  - an idle connection has no context and no callbacks;
  - while the handler is engaged, nothing has been posted or delivered;
  - pending plus delivered is at most one.

  `HandlerStepOnce` shows that `cancel_op_handler` preserves it whichever completion calls it.
- **`AsyncCancelProofs!LateCompletion`: `Spec => LateCompletionLeavesConnection`.** This is an action property, proved from the same `AtMostOnceInv`. A connection whose callback has run was started, and its optional is no longer engaged. A repeated `async_cancel` on it is therefore impossible, and `cancel_op_handler` does nothing to it (lemma `HandlerLeavesConnection`). The other actions write other connections' entries or neither variable. This is `LateCompletionStep`, one case per action.
- **`AsyncCancelProofs!ErrorCloses`: `Spec => []ErrorClosesConnection`.** An error the handler received is not enough to know the connection was closed: the callback is first posted and only later delivered. The invariant `ClosedInv` therefore adds `AtMostOnceInv` and, per connection, `ClosedBy` for both the pending and the delivered callback. Once a cancel has a context and its callback carries an error, the connection is closed and its error context names that error. `ClosedHandlerStep` shows that `cancel_op_handler` establishes this when it posts. `user_callback` only moves the single callback from pending to delivered; `OneOfTwo` gives the length arithmetic.
- **`JsonbCodecProofs!JsonbRoundTrip`: `Spec => [](SizeMatchesSend /\ RoundTrip)`.** It rests on the lemma `RecvSend`: for every byte sequence `v`, `Len(send(v)) = size_of(v)` and `recv(send(v), size_of(v))` returns `v`. The inductive invariant `CodecInv` records what the wire, the size and the result are in each phase.
- **`FailoverProofs!TypeCorrect`: `Spec => []TypeOK`.** `NextTryType` states what `get_next_try` returns: a try in `0..NTries`, and a non-null try only for a recoverable error with a try left.
- **`FailoverProofs!AtMostOnce` and `FailoverProofs!ErrorsOnlyWhenExhausted`.** Neither property is inductive by itself. A running operation whose `delivered` is already non-empty would be called back twice. The invariant `IInv` is `TypeOK` and, per operation, `OpInv`:
  - an idle operation has no attempts, no result and no delivery;
  - a running one has exactly `try` attempts, with `try` in `1..NTries`, and no delivery;
  - a finished one has delivered exactly `<<opResult>>`, and a recoverable `opResult` only after `NTries` attempts;
  - the attempts are `1, 2, ...` in order;
  - a running operation whose attempt has called back holds a valid connection, and a finished one handed a valid connection to the handler.

  `IInvStep` has one step per action, and under it one case for the operation that moves and one for the others (lemma `OpInvFrame`).
- **`FailoverProofs!Implementation`: `Spec => ImplementsPromise`.** It follows the usual pattern: `PromiseInit` shows `Init => Promise!Init`, and `PromiseStep` shows `IInv /\ [Next]_vars => [Promise!Next]_Promise!vars`. `IInv` is needed there too. `Retry` requires the tries mapped from `attempts` to be below `NTries`, and `Complete` requires `delivered` to be empty before the handler call.
- **`AsyncCancelProofs!CancelImplementation`: `Spec => ImplementsCancel`.** The invariant is `RefInv`, which is `AtMostOnceInv` and `TimerInv`. `TimerInv` says two things: a connection's timer is idle until its cancel starts, and it is anything but idle only for a cancel with a duration. It is needed because `Complete` allows `operation_aborted` only for a timed cancel, and the timeout handler fires only on an expired timer. `HandlerTimer` shows that `cancel_op_handler` never arms a timer.

  `PromiseStep` has one step per action:
  - `async_cancel` is `Start`;
  - both completions are `Complete` when they find the handler engaged, and a stutter otherwise (`HandlerPromise`);
  - `user_callback` is `Deliver`;
  - the rest are stutters (`HiddenStep`).

  `ResultUpdate` computes the promised result after the first post.
- **`AsyncConnectProofs!TypeCorrect` and `AtMostOnce`.** These are `TypeOK` and `HandlerAtMostOnce` for every `MaxPolls`. The constant assumption asks `MaxPolls >= 1`, because `perform` always registers the first `write_poll`. The type invariant is split into a data part (SMT) and the Boolean-valued `sockOpen` and `OidMapEmpty` (Zenon). `HandlerAtMostOnce` is not inductive by itself, so `ConnectInv` strengthens it:
  - an operation not started has nothing posted, no wait and an idle timer;
  - a running one has nothing posted;
  - a finished one has posted exactly one result, has no wait left and no armed timer.

  `WaitMeansRunning` shows that every handler that can end the operation runs only while it is running. `CompleteOnce` shows that ending it from there posts one result and cancels the timer. `PerformCases` and `DoneError` unfold the early exits of `perform` through `done`.
- **`AsyncConnectProofs!ConnectImplementation`: `Spec => ImplementsConnect`.** `PromiseInit` shows `Init => Promise!Init`. `PromiseStep` shows `ConnectInv /\ [Next]_vars => [Promise!Next]_Promise!vars`, with one step per action:
  - `async_connect` is `Start`;
  - `connect_poll_step` with `PGRES_POLLING_OK` is `Connected`, and its failure arm is `Fail`;
  - `connect_poll_error` is `Fail`;
  - `oid_map_step` is `OidLoaded` or `Fail`;
  - `user_callback` is `Deliver`;
  - every other step is a stutter (`HiddenStep`).

  `ConnectInv` is needed for three facts. A read or write wait means the promise is connecting with no result (`Connecting`). Ending the operation from there posts exactly the reported result (`CompletedWith`). The one posted result is what `user_callback` delivers.
- **`JsonbCodecProofs!SizeMatches` and `JsonbCodecProofs!TypeCorrect`.** These are `SizeMatchesSend` and `TypeOK`, from `CodecInv` and the lemmas `RecvType` and `SendType`.
- **`MultThreadsBenchmarkProofs!TypeCorrect`, `WaitEnds` and `ReportAfterStop`.** These are `TypeOK`, `WaitEndsWhenAllFinished` and `ReportAfterAllStopped`, for every number of threads and coroutines. They rest on the counting invariant `CountInv`:
  - `finished` equals the number of coroutines that have broken out of their loop (the set `Broken`);
  - a coroutine not yet spawned is unspawned;
  - once main passes its wait, `finished = Total`;
  - once main is done, every coroutine is done.

  The difficult step is a coroutine's `notify`. It adds one element to `Broken` and one to `finished` (`BrokenAdd`, from `FiniteSetTheorems`). Main's predicate `finished = Total` then holds only when `Broken` is all of `Coroutines` (`BrokenCount`, by `FS_Subset` and `FS_Product`).
- **`BenchmarkDriverProofs!TypeCorrect`.** This is `TypeOK` for every `MaxRequests`. The bounds on `opened` and `idle` are not inductive by themselves, so it rests on `DriverInv`:
  - before the scenario starts, nothing is opened, idle or requested;
  - a scenario opens at most one connection more than it has issued requests;
  - a pool scenario has opened at most one connection, and holds it idle between requests unless the coroutine died.

  `PoolRequest` and `ConnectorRequest` unfold one request through the pool and the connector.

Only model-checked:

- **Every liveness property** (`TimedCancelCompletes`, `TimedConnectCompletes`, `FailoverCompletes`, `CoroutinesFinish`, `SpawnedScenarioReports`). The prover does not handle liveness under fairness or `ENABLED`.
- **The properties the violation runs refute.** They are false of the code, so there is nothing to prove; TLC's counterexample is the result.

Every safety invariant, action property and refinement that a passing run checks is also proved.

## Not modelled

- **The report's text and JSON output** in `performance.cpp`. It is pure formatting.
- **The `use_connection_pool_mult_connection` scenarios.** `run_benchmark` does not register them; the model checks only that their names are rejected.
- **`native_cancel_handle.h`.** It is an RAII alias with no state of its own.
- **The unit tests.**
- **The connection pool, the request pipeline and the io helpers** (not under `src/`). They appear only as the environment of the modules above.
- **What a failover try carries (the provider and the arguments).** A try is abstracted to its index. The connection the continuation forwards is kept only as its state: valid, or moved from.
- **The jsonb version byte.** It is read and never checked (hazard in `PROJECT.json`).
- **The error context of a `PGRES_POLLING_FAILED` connect** (`async_connect.h:103`). Unlike the io-error branch, it sets none. The model keeps only whether a context is set, and this is listed as a hazard without a run.

## Plan for later work

- Model the connection pool and the request pipeline from the specification, and compose them with `BenchmarkDriver`.
