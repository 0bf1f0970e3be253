# A verification of the platform library

The repository holds the material of a course on microservices: for each week a
description, contracts of services, and boilerplate that a solution takes over.
The boilerplate is the only code: a Go *platform library* (`week4/boilerplates/pkg`,
`week5/boilerplates/kafka`, `week6/boilerplates/{cache,middleware}`,
`week7/boilerplates/{tracing,metrics}`) with the scripts, task files and compose
files around it. The services themselves (order, inventory, payment, assembly,
notification, IAM) exist as contracts only.

All paths below are relative to `src/homeworks/`.

## 1. Inventory

| Component | State | Operations | Talks to |
|---|---|---|---|
| **Closer** `week4/boilerplates/pkg/closer/closer.go` | list of functions under a mutex, a `sync.Once`, the channel `done`; per shutdown: `errCh`, a `WaitGroup`, the result | `Add`, `AddNamed`, `CloseAll`, `Configure`/`NewWithLogger` (start a watcher), `handleSignals`, `SetLogger` | the closing functions (callbacks in goroutines of their own), OS signals, the logger |
| **Kafka consumer** `week5/boilerplates/kafka/consumer` | none of its own: the loop of `Consume`, one `ConsumeClaim` per partition; the session, the marks and the committed offsets are in sarama and the broker | `Consume`, `ConsumeClaim`, `NewGroupHandler` (chain of middlewares), header conversion | sarama (calls, channels, contexts), the handler (callback) |
| **Kafka producer** `week5/boilerplates/kafka/producer` | none | `NewProducer`, `Send` (which does not look at its context) | sarama's synchronous producer |
| **Redis client** `week6/boilerplates/cache` | none of its own: the pool of connections; keys and lifetimes in the server | `withConn`, `getConn`, `Set`, `SetWithTTL`, `Get`, `HashSet`, `HGetAll`, `Del`, `Exists`, `Expire`, `Ping`, `SAdd`, `SRem`, `SIsMember`, `SMembers` | the pool, the server |
| **Authentication** `week6/boilerplates/middleware/{grpc,http}` | values in the context and in the metadata of a request | HTTP `Handle`, gRPC `Unary`/`authenticate`, `ForwardSessionUUIDToGRPC`, `writeErrorResponse` | IAM (`Whoami`), the next handler |
| **Tracing** `week7/boilerplates/tracing` | global provider, propagator and service name; per request a span, the wrapped response writer, metadata | `InitTracer`, `ShutdownTracer`, `StartSpan`, HTTP middleware, server and client interceptors | OpenTelemetry SDK, gRPC, net/http |
| **Metrics** `week7/boilerplates/metrics` | global exporter and provider, without a lock | `InitProvider`, `GetMeterProvider`, `Shutdown` | OpenTelemetry SDK |
| **Logger** `week4/boilerplates/pkg/logger` | global logger and level without a lock, `sync.Once` | `Init`, `SetLevel`, `SetNopLogger`, `With`, `WithContext`, `Sync`, the logging calls | everything above |
| **Health** `week4/boilerplates/pkg/grpc/health` | none | `Check`, `Watch` | gRPC |
| **Test containers** `week4/boilerplates/pkg/testcontainers` | containers, a client, a network, a log stream | `NewContainer` (app, mongo), `Terminate`, `streamContainerLogs`, `NewNetwork`, `Remove`, `GetProjectRoot` | Docker, the MongoDB driver, the logger |
| **Environment generator** `week*/boilerplates/deploy/env/generate-env.sh` | files | one substitution per service | `envsubst` |
| **CI and task files** `week*/boilerplates/{Taskfile.yml,workflows,scripts,deploy}` | files, containers | tasks | external programs |

### Where it is hard

* **Closer.** Five kinds of goroutines (callers, watchers, closing functions, the
  one that closes `errCh`, the winner of `sync.Once`) share two channels, a
  `WaitGroup`, a `sync.Once` and contexts. A send on a closed channel, a second
  `close(done)`, a blocked send, a lost error, a caller that comes back too early
  or never: each needs several goroutines in an unusual order. Closing functions
  fail, panic, hang, ignore their context or call `CloseAll` again. Signals come
  while a shutdown runs, or before anyone listens.
  *Correct means*: no panic on a channel, no goroutine blocked for ever on
  `errCh`, an honest result, nobody back before the end, and everything ends.
* **Kafka consumer.** The order of handling, marking and committing decides what is
  lost and what is handled twice when a process crashes, a member is expelled
  while it still works, or the group rebalances. `select` takes a waiting message
  or the end of the session at random; a failed message is skipped, not retried.
  *Correct means*: commits never pass over a message nobody handled, a session that
  ends in order leaves only failed messages to be handled again, and the loop goes
  on exactly as long as it should.
* **Redis client.** Calls compete for a bounded pool with a deadline on the wait and
  none on the command; a connection breaks after a command was sent; lifetimes are
  cut to whole seconds. *Correct means*: each connection goes back once on every
  path, a `nil` result stands for exactly one effect, an error for at most one.
* **Request path** (tracing, authentication, response writer, metadata). One request
  passes an HTTP middleware, a handler, a client interceptor, a server interceptor
  and a second handler, with a session that may expire between two checks.
  *Correct means*: a handler runs only under a session that IAM confirmed for this
  request and under its user, one trace from end to end, every span ended once.
* **Event pipeline** (producer, topic, consumer). The producer repeats a request whose
  answer was lost, and gives up requests that may still arrive; the consumer may handle a
  message again after a crash. *Correct means*: what was confirmed is handled, and
  never before what had been confirmed when it was sent.
* **Tracing and metrics life cycle.** Initialisation that fails halfway or is repeated,
  shutdowns that run beside each other and beside it, package variables without a lock,
  an exporter that is shut down twice. *Correct means*: no exporter is out of reach of
  every shutdown for another reason than the two that the code has, and a shutdown has
  stopped what its caller knows of when it returns.
* **Logger.** A pointer and a level that goroutines read and write without a lock beside a
  `sync.Once`; loggers derived from it; a logger that a closer took before `Init`.
  *Correct means*: after `Init` nobody meets a nil or silenced logger, and
  `SetLevel` reaches every logger.
* **Test containers.** Each call of Docker may fail, the context of the test may expire in
  between, goroutines copy logs beside it. *Correct means*: whatever exists has
  an owner, or a failed call that explains it, and the goroutines end.

The list `hazards` of `PROJECT.json` has each of these at its line, with the
properties that cover it, or the reason why none does.

## 2. Modules

| Module | What it is |
|---|---|
| `Closer` | the closer, one action per step of a goroutine that others can see; properties |
| `CloserInd` | its inductive invariant `IInv`; what waits for what |
| `CloserMC` | instances for TLC |
| `GracefulShutdown` | the abstract contract of the closer: one shutdown, a verdict, callers that come back after it |
| `CloserRefines` | the closer implements the contract (`KeepsContract`) |
| `CloserProofs` | theorems about the closer, the refinement among them |
| `KafkaConsumer` | the consumer with sarama and the broker around it; properties |
| `KafkaConsumerInd` | its inductive invariant `ConsumerInv`; the work left to a claim whose session is over and whose channel is closed |
| `KafkaConsumerMC` | instances for TLC |
| `KafkaConsumerProofs` | theorems about the consumer |
| `RedisClient` | the Redis client with the pool and the server around it; properties |
| `RedisClientInd` | its inductive invariant `IInv`; what waits for what |
| `AtomicCache` | the abstract specification of the cache interface: every call one atomic effect |
| `RedisRefines` | the client implements it (`KeepsContract`) |
| `RedisClientMC` | instances for TLC |
| `RedisProofs` | theorems about the client, the refinement among them |
| `EventPipeline` | the producer, composed with `KafkaConsumer` (which it extends); properties |
| `EventDelivery` | the abstract contract of producer and consumer together: at least once, in the order of confirmation |
| `EventPipelineMC` | the instance for TLC |
| `EventPipelineProofs` | theorems about the whole path, the safety part of the refinement among them |
| `RequestPath` | tracing and authentication along a request through several services; properties |
| `RequestPathInd` | its inductive invariant `IInv`; what waits for what, and what may change in a span |
| `RequestPathMC` | instances for TLC |
| `RequestPathProofs` | theorems about requests |
| `GoMemory` | what a goroutine may read from a variable that others write without a lock |
| `GoMemoryProofs` | lemmas about it |
| `Telemetry` | the life cycle of tracing and metrics; properties |
| `TelemetryMC` | the instance for TLC |
| `TelemetryProofs` | theorems about it, with its inductive invariant |
| `Logger` | the global logger, and the logger of a closer; properties |
| `TestContainers` | the environment of an end-to-end test, on the logger (which it extends); properties |
| `TestContainersMC` | the instance for TLC |
| `TestContainersProofs` | theorems about logger and environment, with their inductive invariant |

In every module an operator whose name begins with `Bug` stands before the
definition it spoils: a mistake that one could make in that line of the code. No
specification uses it. Put in the place of the definition, it breaks the property
that `PROJECT.json` names under `mutants`: this is how we know that the property
says something about the code.

### Closer and the code

| Code | Model |
|---|---|
| `c.funcs`, `c.once`, `c.done` | `funcs`, `once`, `doneClosed` |
| locals of the function given to `once.Do`: `funcs`, `i`, `errCh`, `wg`, `result` | `snap`, `idx`, `errs`/`rd`/`errClosed`, `wg`, `result`; `owner` is the goroutine that runs it |
| `Add`, `AddNamed` (103-132) | `Add` appends one argument list under the mutex; `AddNamed` registers one wrapped function |
| `once.Do` (139) | `OnceEnter` for the winner, `OnceSkip` for the others, who wait for `once = "done"` |
| lock section 142-150 | `TakeFuncs`, with the early return for an empty list |
| loop 158-176 | `Launch`: `wg.Add(1)` and the start of one goroutine, from the last function to the first |
| 179-182 | `SpawnWaiter`, then `WaiterClose` when the counter is 0 |
| select loop 185-203 | `CollectCtxDone`, `CollectErr`, `CollectDrained`: any ready case may be taken |
| deferred `close(c.done)`, end of `once.Do`, `return result` | `CloseDone`, `OnceExit` |
| goroutine of a closing function 161-175 | `FuncStart`, `FuncReenter` (it calls `CloseAll` again), `FuncEnd` (nil, error, panic), `SendErr`, `FuncDone` (deferred `wg.Done`) |
| `handleSignals` 88-107 | `Configure`, `Notify`, `OnSignal`, `OnDone`, `WatcherExit`; `CtxExpire` for the timeout of its context |
| OS | `Signal`: kept by the watchers that listen; with none listening it kills the process |

The errors that were sent stay in the sequence `errs`, named by their sender, and
`rd` counts those that were received: the buffer of `errCh` holds `Len(errs) - rd`.
A closing function is `prompt` (ends by itself), `patient` (ends at the latest with
its context), `stuck` (may never end) or `reentrant` (calls `CloseAll` of its own
closer). A `sync.Once` whose function is running blocks its other callers, the
re-entrant one included. Logging is left out.

### KafkaConsumer and the code

| Code | Model |
|---|---|
| `for` of `Consume` (consumer.go 37-52) | `loop`: `GroupConsume` calls `group.Consume`; `GroupError` is its error (a closed group gives nil); `CheckContext` is what follows its `nil` |
| `ConsumeClaim` (group_handler.go 43-75) | `claim`: `Receive`, `HandlerOk`/`HandlerError`, `MarkMessage`, `ClaimExit`; the `select` may take a message or the end of the session when both are there |
| `session.MarkMessage` | `marked`, which never goes back in a session |
| sarama (external) | `Fetch` into the channel of a claim, also while the session ends, until `CloseChannel`; `AutoCommit`, `SessionEnd` (commit, or a failed commit that is only logged) |
| broker (external) | `Produce`, `NewGeneration` (the members that joined share the partitions from the committed offsets; where nothing is committed from the oldest message, which is a setting that the model assumes of the program: sarama's default is the newest), `Rebalance` (a member learns of it), `Expel` (the broker gives up a member that goes on working), commits accepted from the current generation only |
| program | `Consume`, `Cancel`, `CloseGroup`, `Crash` (and restart) |

A message is its offset. The first claim that returns ends the session for the
others, as sarama does. The conversion to `Message`, headers and the logging
middleware change no state that a property is about; the chain of middlewares and
the handler are one step that succeeds or fails.

### RedisClient and the code

| Code | Model |
|---|---|
| the methods of `client.go` and `set_operator.go` | `Invoke` with a member of `Commands`; `Request` is the command that the method sends, `Convert` what it makes of the reply, `Seconds` the cut of a duration to whole seconds |
| `getConn` (`context.WithTimeout`, `pool.GetContext`) | `ConnTimeout`, `GetConn`, `GetConnError` |
| `withConn` and its deferred `conn.Close` | `Send`, `Panic`, `DoError`, `DoReply`, then `Release` on every path |
| pool (external) | `Conns` are the places (`MaxActive`), `user`, `dialled`, `broken`; `Wait` is `redigo.Pool.Wait` |
| server (external) | `Execute` in the order of a connection; `Expires`; `Break` of a connection, whose command may still be executed by `ExecuteOrphan`, once or never |

The content of a key is a set: the value of a string, the fields of a hash, the
members of a set. `MULTI`-key or pipelined commands do not occur in the code.
`AtomicCache` knows nothing of connections: a call takes effect once between its
call and its return if it returns `nil`, and at most once, maybe after it returned,
if it returns an error. `RedisRefines` maps the orphans of calls that are over to
these late effects. The pool is one that drops a broken connection; its
health check (`TestOnBorrow`) and idle timeout are settings that the code leaves to
the program, and are left out: a broken idle connection is handed out.

### RequestPath and the code

| Code | Model |
|---|---|
| `HTTPHandlerMiddleware` (http_middleware.go 36-72) | `Request`; its deferred `span.End` is in `Return`, `Panic`, `Unauthenticated` |
| `traceResponseWriter` | `resp`: `WithTrace`, `WriteHeader`, `Write`; `got` is what reached the client |
| `UnaryClientInterceptor` (grpc_interceptor.go 86-117) | `Call`, with the trace context that it injects (`Injected`); `Receive` for an answer, `Abandon` for a call that fails on the side of the client |
| `ForwardSessionUUIDToGRPC` | `Forward`: appends to the outgoing metadata; the receiver takes the first value |
| `UnaryServerInterceptor`, `AddTraceIDToResponse` | `Serve`, `OutgoingMetadata`, `AnswerTrace` |
| `authenticate`, `Unary` (gRPC), `Handle` (HTTP) | `Whoami` (IAM confirms), `Authenticated` (its answer is there, the context is made: `Contexts`), `Unauthenticated`; `Outcome` is what the caller gets |
| `writeErrorResponse` | `ErrorResponses`, the second attempt after a failed write included |
| handlers, net/http, gRPC (external) | `Responses`, `Return`, `Panic`; `Sent`: only the first status goes out |
| IAM (external) | `active`, `reply`, `EndSession`: a session ends at any moment |

The calls of all requests form a tree (`Caller`), of any shape in the theorems. A
call starts when its handler makes it, and the server may get it after its caller
gave up. `stale[c]` is history: the sessions that had ended when `c` came. The repository
has no program that puts the middlewares together: the model puts tracing outside
of the authentication, so that a refused request has its span and its trace ID too.
Names, attributes and messages of spans are left out, and so is sampling.

### EventPipeline and the code

| Code | Model |
|---|---|
| `producer.Send` (29-48) | `Send`, then `SendOk` or `SendError`: `nil` exactly if `SendMessage` has an offset (`MessageSent`), the error of sarama otherwise (`Returned`) |
| `SendMessage` of sarama's synchronous producer (external) | `Attempt`, `Retry` up to `MaxAttempts`, `GiveUp`: a request without an answer is lost, or still under way (`late`) |
| broker (external) | `StoreRequest`, `StoreLate`: an event is appended to the log of the partition of its key; this is `Produce` of `KafkaConsumer` |
| program | calls `Send` once or, after an error, again |
| consumer | `KafkaConsumer`, unchanged: `GroupNext` |

`Delivered` maps the offsets that handlers were given back to events; under this mapping
the composition implements `EventDelivery` (`KeepsDelivery`), liveness included.

### GoMemory, Telemetry and the code

The package variables of `metrics` and `logger` are read and written without a lock. `GoMemory`
keeps every value that a variable has had (`mem`), and for each goroutine the oldest one
that it may still read (`known`): what it reads is some value not older than one
that it has seen, wrote, or was told of by a goroutine that synchronised with it
(`Tell`: a `go` statement, a channel, a lock). This is what a build of a racy program with
variables of one word does: no value out of thin air, coherence of each variable, no order
between variables. A variable of two words (an interface) is two such variables.

| Code | Model |
|---|---|
| `InitTracer` (tracer.go 50-112) | `TracerExporter`; then `ResourceFails` (the exporter is left running) or `TracerInstalled` (`otel.SetTracerProvider`, atomic) |
| `ShutdownTracer` | `ShutdownTracer`, `TracerStopped`; `LateShut`: what the SDK finishes after a timeout |
| `InitProvider` (metrics.go) | `MeterExporter` or `MeterExporterFails` (which writes nil to the variable), `MeterInstalled` |
| `Shutdown` | `Shutdown` (the check for nil), `ProviderShutdown`, `ExporterShutdown`: each reads the variables again, also between a check and the call behind it (78, 79): `ExporterVanishes` is the nil pointer that a failed `InitProvider` put there in between, and the panic |
| SDK (external) | a provider stands for its exporter; the shutdown of a provider shuts its exporter down |

`owed[g]` is history: what a call of a shutdown must have stopped when it returns.

### Logger, TestContainers and the code

| Code | Model |
|---|---|
| `Init` (logger.go 33-60) | `InitBegins` (it wins `initOnce`, makes the `AtomicLevel`), `InitEnds`, `InitAgain` for those that wait |
| `SetLevel`, `With`/`WithContext`, `Sync`, the logging functions | `SetLevel`, `With`, `Sync`, `Log`; each read of a variable is one of its own where the code reads twice |
| `SetNopLogger`, `InitForBenchmark` | `SetNopLogger` |
| `closer.New`, `closer.SetLogger`, the closer's use of its logger | `New`, `SetLogger` (two words), `LogCloser` |
| `network.NewNetwork`, `Remove` | `NewNetwork` (Docker may have made the network although the call failed), `Remove` |
| `mongo.NewContainer` with its deferred cleanup | `StartMongo`, `MongoLookup`, `ConnectFails`, `MongoStarted`, `Cleanup` |
| `mongo.Terminate` | `TerminateMongo`, `MongoTerminated`: errors are logged, nil is returned |
| `app.NewContainer`, `Terminate` | `StartApp`, `AppLookupFails`, `StartStream`, `AppStarted`, `TerminateApp` |
| `streamContainerLogs` and its goroutine | `LogsFail`, `StartCopy`, `CloseLogs`, `CloseChecked`; `LogsEnd` (the logs are not followed: they end with what was written so far), `CopyEnds`, `CopyChecked`; both write `err` (a race: `GoMemory` again) |
| Docker, driver, world (external) | the outcomes of each call; `CtxExpire`, `Ends` (a container ends and is removed) |

A logger is nil, a no-op, or the number of its level; fields, encoders, and the IDs that
`WithContext` takes from a context are left out. `early` and `took` are history: who took a logger
before `Init`, and by which function. `excuse[r]` is history too: the failed
call after which `r` may exist without a handle. Ryuk, the reaper of testcontainers that
removes containers when the test process ends, is not modelled.

## 3. What is checked

| Run | Instance | Question and answer |
|---|---|---|
| `closer` | 2 functions (patient, re-entrant) registered one after the other, a manual call, a watcher, 2 signals, a deadline on every context | no crash, no blocked send, honest result, `IInv`; a late `Add` is never run; whoever waits waits for a closing function and nothing else (`NobodyWaitsInVain`); no signal kills the process between the first `Notify` and the end; every step is a step of `GracefulShutdown`, in which nobody is back early, or invisible to it; every call returns, a received signal ends in a shutdown, watchers leave, and every goroutine that was started ends, also after `CloseAll` gave up |
| `closer_order` | 2 functions | **violation**: see findings |
| `closer_error_to_all` | 2 callers | **violation**: see findings |
| `kafka_group` | 2 members, 1 partition, 2 messages, 3 generations, 1 crash | commits never pass an unseen message and end on a success; a committed message is not handled again by a live session, and after a session that ended in order only failed messages are (`OnlyFailuresAreRepeated`); every message produced reaches a handler; `ConsumerInv` |
| `kafka_claims` | 1 member, 2 partitions, cancel, close, failed join | a cancelled context or closed group makes `Consume` return |
| `redis_client` | every method, 1 key, 1 place for which callers wait, 1 broken connection; 2 callers, one of which calls twice | every step is a step of `AtomicCache` or invisible to it; when nothing can go on the server owes every reply that is missing (`NobodyWaitsInVain`); a place comes back if the server answers; a wait for a place ends even if the server never does; `IInv` |
| `event_pipeline` | 2 events of one key, 2 attempts each, room for one event that is stored twice; 1 member that crashes once and has 2 generations | what was confirmed and not yet handled is still ahead of the committed offset (`ConfirmedIsKept`); it is handled, and in the order of confirmation (`KeepsDelivery`) |
| `request_path` | an HTTP request over three services beside another one, 2 sessions of 2 users, headers with and without session and trace | every handler acts for the session of its request and for no ended one; one trace per request; an answer that was written has the trace ID; every span ends; `IInv`, which says when a span is open |
| `request_trace_id` | the same | **violation**: see findings |
| `telemetry` | 2 goroutines, 3 exporters, 1 that cannot be made, 3 shutdowns | which exporters stay open (`ExportersAccounted`), what a shutdown has done when it returns or panics (`ShutdownStops`) |
| `test_environment` | a test with all its containers beside another goroutine and one call of the logger; or two goroutines with any calls of the logger; 3 values of each variable | nobody past `Init` meets a nil or silenced logger, one level for all, nothing left behind but by the calls that may, and copying ends |
| `logger_new` | the same, with two calls of the logger | **violation**: see findings |

**Bounds.** A manual call and a watcher, which calls `CloseAll` too, are enough to have one that wins
`sync.Once` and one that waits, and a closing function that calls it again is a third; two
signals are one that is taken and one that comes while a shutdown runs; two functions
registered one after the other are one that was taken and one that came too late, and two
senders on `errCh`. For safety it makes no difference whether a function is prompt, patient or stuck, which only
the fairness tells apart, nor whether a deadline has not passed yet or does not exist: this
instance has these cases too. For the consumer, two members
are one that works on as a zombie and one that took its partition over; two
messages are one that failed and a later one that succeeds; three generations
give the first owner its partition back. For Redis one place is the hardest case: a later
call meets the connection, or the orphaned command, of the one before; the bounds
are `MaxCalls` per caller (two calls of one, so that its second meets the late
effect of its first) and `MaxBreaks` (one connection breaks); durations are 500 and
1500 ms, one on each side of a whole second. In `event_pipeline` two events of one key
are what an order needs, and two attempts are one that loses its answer and one
that repeats it; each event is sent once there (`MaxSends`), and the caller who tries again after an
error is left to the theorems. In `request_path` the second request is there so that identities
could be mixed up, and the chain has three services so that a gRPC handler calls on:
what it got as incoming metadata could leak into what it sends. In `telemetry` three exporters
are one of the tracer, one of the metrics and one that takes the place of either; goroutines
are interchangeable, and the run, which has no liveness property, uses symmetry. In
`test_environment` three values are the first one, that of `Init` and one that
replaces it. The theorems of section 5 hold for all values of the bounds: any
number of callers, watchers and signals, members, places (and a pool that does not wait),
events, exporters, goroutines and calls of the logger beside a test.

**Fairness** (`Fairness` in each module). Goroutines that can run do run; a `select`
with a ready case takes one of them; a closing function that is `prompt` ends, a
`patient` one does after its context is done, a `stuck` one never has to; contexts
with a deadline expire. Nothing makes the program register, call `CloseAll` or be
sent a signal. For the consumer: goroutines run, handlers return, sarama fetches,
closes channels and ends sessions, a group forms its generation and rebalances when
a member waits or a partition has no live owner; nobody has to cancel, close,
crash or produce. For Redis: goroutines run and timeouts come. That the server
answers is not assumed, since no timeout bounds a command: it stands as an
antecedent (`ServerFairness`) in the one property that needs it, `PlacesComeBack`.
For requests: handlers return and answers arrive, in any order; that the services
that are called are there and IAM answers or fails is again an antecedent
(`ServicesAnswer`, in `EverySpanEnds`), since no timeout of the middleware bounds it.
For the pipeline the consumers are fair; nothing makes the program send or the broker answer
(`PipelineFairSpec`). For the containers the two goroutines of the logs run; nothing
makes the test go on, Docker send the logs, or the container end. All of it is weak fairness: it follows from the Go scheduler and from the documented
behaviour of sarama and the broker.

**Deadlock** is not checked: in each component the system may really stop (nobody
calls `CloseAll`; everything was read and every `Consume` has returned; no more
calls of the client, or requests, are made; a test has done all it wants, or a panic has ended
the process). What must not stop is stated as liveness.

## 4. Findings

* `closer.go:157` says that the functions are run in reverse order of registration.
  They are *started* from goroutines launched in that order, so they start and end
  in any order (`ReverseOrder`, run `closer_order`).
* `closer.go:135` says that `CloseAll` returns the first error that occurred. A
  second caller waits for the shutdown of the first one and returns `nil` although
  it failed (`EveryCallerGetsTheError`, run `closer_error_to_all`).
* `grpc_interceptor.go:60` and `:149-150` say that the trace ID goes back to the
  client. `NewOutgoingContext` puts it into the metadata of the calls that the
  handler makes, and nothing sets it on the answer (`ClientGetsTraceId`, run
  `request_trace_id`).
* `closer.go:62` says that `New` makes a closer with the default logger `log.Default()`. It
  takes the global logger (`:64`), which before `logger.Init` is a nil `*logger` in a non-nil interface:
  the closer keeps it, and its first line panics, long after `Init` perhaps
  (`NewClosersCanLog`, run `logger_new`). `InitedNeverPanics` says what does hold: no closer made after
  `Init` panics, nor does a goroutine that is past it.

Some properties state behaviour that a user should know and that no comment denies.

* A function added after the shutdown took its list is accepted and never run
  (`LateAddIsNeverRun`).
* A message whose handler failed is committed past as soon as a later one succeeds
  (`LostOnlyBehindSuccess` says exactly when it can be lost).
* `Send` does not look at its context: it ends when sarama does.
* `metrics.Shutdown` after a complete `InitProvider` returns an error if all went well: the
  shutdown of the provider has shut the exporter down, and the second one is refused
  (`ShutdownStops` says when it can return nil). Beside an `InitProvider` that fails it may panic, after
  it has stopped the provider.
* A failed `InitTracer` leaves its exporter running, and a second `InitTracer` or `InitProvider`
  the first provider: nothing shuts them down (`ExportersAccounted`).
* A watcher of the global closer that has not seen both words of the last `SetLogger` may panic
  with its first line (`InitedNeverPanics` says who does not).
* The deferred `Close` of `streamContainerLogs` closes the log reader as soon as the copying
  goroutine was started: copying ends while the container goes on (`CopyingEnds`).
* What a call that failed leaves behind for good: an `app` container whose port or host cannot be
  read; a MongoDB client whose `Ping` failed; a MongoDB container when the context of the test has
  expired before the deferred cleanup, which uses it; what `mongo.Terminate` could not terminate, since it
  returns nil; and what Docker made, a network too, although its answer was lost.
  `NothingLeftBehind` says that there is nothing else, for each resource by name.
* On an HTTP request the status that the span records may differ from the one that was
  sent: the tracing writer notes every `WriteHeader`, net/http sends the first. A handler
  that writes nothing gets no `X-Trace-ID`, so that `AnswerHasTrace` speaks of answers
  that were written.

## 5. What is proved

The proofs are in `CloserProofs`, `KafkaConsumerProofs`, `RedisProofs`, `RequestPathProofs`,
`EventPipelineProofs`, `TelemetryProofs` and `TestContainersProofs`, with lemmas in `GoMemoryProofs`; they hold for every value of the constants under `ConstAssumption` (the functions are finitely many;
callers and watchers are different; an argument list has no repetition, which
names each registration apart; a watcher's context has a deadline), under
`ConsumerAssumption` (bounds are naturals; `NoMember` is no member), under
`ClientAssumption` (commands are made of methods, keys, values and durations; the
markers `Nobody`, `Idle` and `Nothing` are none of the things they stand beside),
under `PathAssumption` (a call is not its own caller; a session has a user; a header
has at most one session, and a remote span or none; `None` is nothing else) and
`TreeAssumption` (of any calls, the last one has made none of the others), under
`PipelineAssumption` (an event has one partition; bounds are naturals), under `TelemetryAssumption`
(the two variables of package metrics; bounds are naturals), and under `LoggerAssumption` and
`TestAssumption` (the variables are there; the goroutines of the test and of the logs are
three; users of the logger are goroutines).

**Closer.** `IInv` is the conjunction of `OnceInv` (one winner; `done` is closed by
it at the end), `ListInv` (a function is in one place: the list, the part still to
be launched, or a goroutine), `ChanInv` (`wg` is the number of goroutines that may
still send; `errCh` is closed only with none left; each sends at most once) and
`ResultInv` (a failure is in `errs` before its goroutine ends; the loop leaves
without an error only after it has seen everything) and `PlaceInv` (where a function,
the winner and the goroutine that closes `errCh` stand). None of the properties is
inductive alone: that no send hits a closed channel needs the meaning of `wg`,
which needs that a function is launched once, which needs the winner to be unique.
From `IInv` follow `CloserNoCrash`, `CloserNilMeansAllClosed`,
`CloserFirstErrorWins`, `CloserNobodyReturnsEarly`, `CloserSignalNeverKillsEarly`,
`CloserLateAddIsNeverRun` (what is in the list once it was taken is neither in `snap` nor
in a goroutine, and never will be), and `CloserSendNeverBlocks`, by counting: senders are
different functions of `snap`, and the capacity is its length. `CloserKeepsContract` proves
the refinement of `GracefulShutdown`: each action maps to one step of it or to a stutter, with
one lemma per group of actions; that the verdict is given once, and is the one the functions
earned, is where `ResultInv` and `PlaceInv` are needed.

**Consumer.** `ConsumerInv` says that what a claim has behind it (`Floor`) was
handled, that its mark is not ahead of that and ends on a success (`ClaimInv`),
that all it leaves unmarked behind it has failed (which needs that no step of `ConsumeClaim` leaves the
loop between a handler that accepted and the mark), and that a claim whose commits are accepted
belongs to the owner of the partition and marks no less than is committed (`OwnerInv`). From it follow
`ConsumerCommittedWasHandled`, `ConsumerLostOnlyBehindSuccess`,
`ConsumerNoReplayOfCommitted` and the action property
`ConsumerOnlyFailuresAreRepeated`. `ConsumerWorkRunsOut` is the ranking argument behind
`CancelStops`: once the session is over and the channel closed the `select` may still take messages, but `WorkLeft` (three
steps for each message that is already in the channel, and those of the one in hand) never
grows, and every step of `ConsumeClaim` takes some of it.

**Redis.** `IInv` says who holds a place (`HoldInv`), that a connection carries at
most the command of its user or the reply to it, and nothing between two calls
(`ConnInv`), that a call has no effect before it sent its command and reports the one
it had (`CallInv`), and that an orphaned command belongs to a call that is over or
is going to fail (`OrphanInv`). `RedisPoolAccounted` (no place is lost or shared, and a free
one is clean) follows. `RedisKeepsContract`
proves the refinement: `Execute` of a command that succeeds is `TakeEffect`,
`Release` is `Succeed` or `Fail`, `ExecuteOrphan` is `LateEffect` once its call is
over and `TakeEffect` before, which `OrphanInv` tells apart; a reply is converted the same
way on both sides, which is a lemma per kind of command.

**Requests.** `PathInv` says what a call brought (`BroughtOK`: at most one session, that
of the caller's context), what was confirmed (`ConfirmedOK`: between the arrival and
the handler, for this session, which had not ended before), where the spans of
client and server stand (`ClientSpanOK`, `ServerSpanOK`), and that an HTTP request is
answered once, with its trace (`AnswerOK`). That handlers act for the right user
needs all of the first two: an older session in the outgoing metadata would come first, so it is
part of the invariant that none is there (`out[c].session = <<>>`). From it follow
`PathOneIdentity`, `PathNoEndedSession`, `PathOkWasAuthorised`, `PathOneTrace` and
`PathAnswerHasTrace`, for any tree of calls. `IInv` adds `SpanLife`: a span is open exactly while
its side of the call is at work. `PathSpansAreFinal` is the action property that goes with it: a
span keeps its trace and its parent, and never changes once it has ended.

**Pipeline.** `PipelineInv` adds to `ConsumerInv` that the offsets that were handled are a
beginning of the log (`HandledInv`), and that an event stands in the log behind all those
that had been confirmed when it was first sent (`SendInv`, `OrderInv`): a late copy of a
request is appended behind the first one and disturbs nothing. From both follow
`PipelineConfirmedFirst` (events reach the handlers in the order of confirmation: a handled event
has everything before it in the log handled) and `PipelineConfirmedIsKept` (a confirmed event
that was not handled is in the log at or behind the committed offset). `PipelineIsConsumer` shows that the
composition only does what `KafkaConsumer` does, so that the theorems about the consumer hold in it.
`PipelineKeepsOrder` shows that each step is a step of `EventDelivery` or
hidden; the fairness of `EventDelivery` stays with TLC.

**Telemetry.** `TelemetryInv` says that an exporter that is being initialised is nobody else's
(`UseInv`), that `InitProvider` reads back its own exporter (`MeterInv`), what a shutdown on its
way still has to stop (`OwedInv`), and who knows of the last write (`KnownInv`, `TwiceInv`): whoever was
told of the last provider was told of its exporter, which was written before. That
is what makes `Shutdown` return an error, not nil, when it has done its work. `PanicInv` says that the exporter
can vanish only under a `Shutdown` that was not told of the last `InitProvider`.
`TelemetryAccounted` and `TelemetryStops` follow.

**Logger and test environment.** `LoggerInv` says that there is one level at most (`LevelInv`), that the
global logger is nil at first and never again (`GlobalInv`), that a goroutine
that has returned from `Init`, or was told by one, reads neither the nil pointer nor
the nil level (`InitedInv`), that the two words of the closer's logger are written together (`CloserInv`), and
from where a nil or silent logger was kept (`KeptInv`). `LoggerInitedNeverPanics`, `LoggerOneLevel` and
`LoggerNotSilenced` follow, also beside a test. For the containers, `DockerInv` has for each resource
that nobody holds the step that works on it or the failed call that explains it; `MongoLogInv` says that a
container with a nil logger does not survive its start; `StreamInv` that the goroutines of the logs are
not started by a start that fails. `EnvironmentNothingLeft` follows from both.
`EnvironmentCopyingIsCutOff` is the safety half of `CopyingEnds`: as long as logs are copied, the
call that started the copying is about to close the reader, or has closed it.

**What waits for what.** Liveness is beyond the prover, but the part of it that goes wrong in
code like this is not: a goroutine that waits for something nobody is going to do. For the closer, the
Redis client and the requests, `CallCanStep` and its like spell out when a goroutine can take a step
(each the negation of what blocks: a channel, a `sync.Once`, a `WaitGroup`, the pool), and
`NobodyWaitsInVain` says what must be true of the environment when none can: a closing
function was started and has not returned (`CloserNobodyWaitsInVain`); the server owes the
replies, on connections that work, also to those who hold the places that others wait for
(`RedisNobodyWaitsInVain`); and while a span is open some call can go on, by the call tree
(`PathNobodyWaitsInVain`). What is left to TLC is that what can go on does, and comes to an end.
The theorems without a run of their own (`WorkRunsOut`, `SpansAreFinal`, `CopyingIsCutOff`, and
`NobodyWaitsInVain` of requests) state formulas that hold on the instances of section 3 too.

**Only model-checked**: liveness (the prover has no fairness or ENABLED: `EveryCallReturns`,
`SignalShutsDown`, `WatchersLeave`, `EveryGoroutineEnds`, `EveryMessageIsTried`, `CancelStops`,
`PlacesComeBack`, `WaitersGiveUp`, `EverySpanEnds`, `CopyingEnds`, and the fairness
in `KeepsDelivery`).

## 6. What is left

Every component that has state is modelled, and every safety property that a run checks is a
theorem. What remains for proofs is the rest of the ranking arguments: what a shutdown of the closer and
a call of a test still have before them.

**Not modelled**, and why:

* the health service: `Check` and `Watch` always answer `SERVING`, it has no state;
* `generate-env.sh` and the version extractor of the CI: one pass over text files, with nothing
  concurrent and nothing kept; a model would be a transliteration;
* task runner and compose files: configuration of external programs;
* the services of the course (order, inventory, payment, assembly, notification, IAM): the
  repository has their contracts and descriptions only, so there is no code to model. IAM appears
  as an external service in `RequestPath`;
* of the code that is modelled: wording of logs and errors, encodings, and names and attributes of
  spans; options of a container that only reach Docker (`app.go:56` waits on a fixed default port);
  the answer for an IAM that is down, which is that for an invalid session (a hazard
  without a property: the code cannot tell them apart).
