# courier-go: specifications and proofs

TLA+ models of [courier-go](../src), a Go MQTT client that connects to brokers
found by a Consul resolver, with the TLC runs that check them and the theorems
TLAPS proves about them. Run `tlc -config X.cfg M` and `tlapm M.tla` in this
directory; `PROJECT.json` lists runs, mutants, hazards, theorems and, for each
definition, the source lines it models.

## The system

| Part | State | Operations | Hard behaviour |
|---|---|---|---|
| Client connections (`client.go`, `client_pool.go`, `client_resolver.go`, `exec.go`) | `mqttClient`, `mqttClients`, `multiConnRevision`, under the RWMutex `clientMu`; the broker connections themselves | `NewClient`, `Start`, `Run`, `Stop`, `execute` for every call, `watchAddressUpdates` with `attemptSingleConnection` and `attemptMultiConnections` | calls run while connections are replaced; old connections are disconnected in the background; some connections of an update fail; `Stop` races updates; the lock is held for a whole dial |
| Telemetry (`client_telemetry.go`, `metrics.go`) | the emitter goroutine and its cancel function | `infoResponse`, called by an HTTP handler and a ticker | nested read locks |
| Subscriptions (`client_subscribe.go`, `client_unsubscribe.go`, `client_resolver.go`, `client.go`) | `Client.subscriptions` under `subMu`; `internalState.subsCalled` per connection under `mu`; what the broker holds | `Subscribe`, `SubscribeMultiple`, `Unsubscribe`, `resumeSubscriptions`, `removeStoredSubsCalled` | three nested locks; three records of one fact, updated at different moments; failed and lost requests; lost sessions |
| Publishing (`client_publish.go`, `exec.go`) | the round-robin counter | `Publish` | a counter that is read and incremented in two atomic steps |
| Consul resolver (`consul/resolver.go`) | `serviceName`, `lastIndex`, `lastAddresses`, `pendingAddresses`, `debounceTimer` under `mu`; `updateChan`, `doneChan` | `Start`, `Stop`, `discover` from three goroutines, `scheduleAddressUpdate` and its timer callback, `watchServices`, `watchKV` | answers to queries of a service that was renamed meanwhile; callbacks of timers stopped too late; sends that block; shutdown |
| Exponential start (`exp_starter.go`) | the interval, `errCh` | `ExponentialStartStrategy` | the retry is launched before the pause; results race cancellation |
| Waiting for a connection (`utils.go`) | two timers, the polling goroutine, its channel | `WaitForConnection` | `IsConnected` may block behind a dial; a deadline racing a late answer |
| Client options (`client_options.go`, `options.go`) | `clientOptions`, before the client exists | `NewClient` with options in any order | which combinations `NewClient` accepts |
| Middlewares and codecs (`client_publish.go`, `client_stop.go`, `encoder.go`, `decoder.go`, ...) | the lists of middlewares, the composed handlers | `Use...Middleware`, calls through them | chains rebuilt in place and without a lock; callbacks that pass them again when they are resumed; encoders sharing a writer |
| OpenTelemetry (`otelcourier/`) | counters, spans, the registration of the info handler | the middlewares `ApplyMiddlewares` installs, `Stop` | calls that fail or overlap, metrics read meanwhile, `Stop` twice or through `Run` |
| Logging (`slog/`) | none | output | none |

How they interact: `ExponentialStartStrategy` calls `Client.Start`. `Start`
waits for the first address list of the resolver, dials, and leaves
`watchAddressUpdates` running, which receives every later list from the
resolver's `updateChan`. It replaces the connections and resumes the
subscriptions through `execute`, the same path application calls take. The mqtt
library (external) completes tokens and calls the connection-lost handler.
Before a call gets to `execute` it passes the middlewares, among them those of
`otelcourier`; a resumed subscription passes them again.

What makes each part correct:

* connections: a call never uses a connection that has been replaced and is being
  disconnected (`Stop` does disconnect the installed ones under the read lock,
  beside calls), client IDs do not collide, none is lost track of, one failed
  update does not disconnect the client, `Stop` and updates get through;
* subscriptions: what the client believes is subscribed really is, on all
  connections, after failures, losses and replacements;
* resolver: in the end it publishes the addresses of the right service, nothing
  pending is forgotten, `Stop` ends it;
* start: one `Start` at a time, none after success, retries at growing
  intervals, nothing left behind but a `Start` that does not return;
* waiting: it returns in time and leaves no goroutine behind;
* publishing: the clients of a pool share the load, no number is lost;
* calls: each passes all middlewares in order and is counted and timed once per
  topic, failed or not; subscriptions keep their callback and their options when
  they are remembered and resumed.

## Modules

| Module | Models | Proofs |
|---|---|---|
| `ClientLifecycle` | connections and telemetry | `ClientLifecycleProofs` |
| `ConnectionSet` | abstract: what calls may rely on while connections are replaced; `ClientLifecycle` implements it | `ClientLifecycleProofs` |
| `PoolPublish` | extends `ClientLifecycle`: `Publish` on a pool, with the round-robin counter | `PoolPublishProofs` |
| `ClientSubscriptions` | subscriptions with several connections | `ClientSubscriptionsProofs` |
| `ConsulResolver` | the resolver with its goroutines, timer and channel | `ConsulResolverProofs` |
| `AddressFeed` | abstract: what a `Resolver` promises; `ConsulResolver` implements it | `ConsulResolverProofs` |
| `ResolverClient` | composes `ClientLifecycle` and `AddressFeed`: a single-connection client and its resolver | `ResolverClientProofs` |
| `ExponentialStart` | the start strategy | `ExponentialStartProofs`, `PrimitiveRecursion` |
| `WaitForConnection` | the polling loop | |
| `ConnectBackground` | composes the two: connecting in the background | |
| `ClientCalls` | calls through the middlewares and OpenTelemetry, the options of a call, the chain of encoders, callbacks and `Stop` | `ClientCallsProofs`, `PrimitiveRecursion` |

The `MC*` modules only add symmetry sets and constants for TLC. Next to a definition `D`,
`D_Something` is `D` with a plausible mistake; `PROJECT.json` says which property
must notice it.

### ClientLifecycle

Goroutines are constants: `Ops` (any call through `execute`), `Infos`
(`infoResponse`), `Stoppers` (`Stop`), and one `Watcher`, which is `Start` and
then the watch loop. One is enough since `Start` is not called twice at once
(`AtMostOneStart` in `ExponentialStart`). `pc` is where each of them is;
`using[p]` is the set of connections p is calling under its read lock. `wlock`
is set when a writer *calls* `Lock`: from then on no reader enters, and the
writer proceeds when the readers are gone, as `sync.RWMutex` does it. Connections
are numbers in the order of their creation. `attempt`, `retiring` and `givenUp`
are those that are being dialled, and those in the hands of the goroutine of
`reloadClients`/`reloadClient` or of a failed `multipleClients`.

Abstractions: an address update is only its number of addresses;
`orderedClients` has the same members as `mqttClients`; `multipleClients` reads
which connections are up in one step; a call through `execMultiConn` finds its
targets (`Targets`), or panics when it indexes an empty slice; the gauge of instances is left out. The
three client options that matter (pool, multi-connection mode, address or
resolver) are constants, restricted to what `NewClient` accepts.

`ConnectionSet` is what remains of this for a user: `installed`, `gone` and
`calls`. The refinement mapping `ConnSet` takes `Installed`, every connection
that was created and is neither installed nor in the attempt for `gone`, and
`using` for `calls`. A
replacement then happens between calls only, and nothing that is gone comes
back, although the code has no such moment: it has a lock, and a goroutine that
disconnects later. `resolver_client` checks it; with the constants of
`LifecycleMulti.cfg` it holds as well.

### PoolPublish

The calls of `ClientLifecycle` become publications. `PublishBegin` loads the
counter, `PublishAdd` adds to it: two atomic operations in the code, with nothing
but a read lock held. `ToInt` and `Remainder` are Go's: the low bits with a
sign, and a remainder with the sign of the dividend. `served`, `taken` and
`repeats` are history.

### ResolverClient

Each action is one of `ClientLifecycle`, one of `AddressFeed`, or both: receiving
a list is the client's `ReceiveUpdate` and the feed's `Deliver`, and what
`ClientLifecycle` left open (does the update have addresses, has the resolver
ended) is now determined by the list. `address` and `tries` follow `newClient`
round the list.

### ClientSubscriptions

A call is a set of tasks, one per target connection (`MapConcurrent`); a resumed
subscription is a call named by its topic. `held` is what the broker has.
`UsesState` tells the operations that go through `subsCalled` with
`internalState.mu` locked from those that do not. `undisturbed`, `resumed` and
`forgot` are history for the properties. A lost connection keeps its session
or not. `Failures` is what may happen to a request: nothing, a failure that the
broker did not see, or a lost answer; `doubt` is where the
last answer about a topic was the failure of an Unsubscribe, so that nobody
knows: a failed Unsubscribe sets it, any later success about the topic clears it. A `SubscribeMultiple` of both kinds of topics has a second
execution, `Half(p)`, with a read lock of its own; `Join` is the end of both.
Only several-connection mode is modelled (with one connection `execute` calls
the client directly and `subsCalled` is not used), and only installed
connections: `ClientLifecycle` shows that calls reach no others.

### ConsulResolver

`discover` is split at every unlock of `mu` and at the query. A send that finds
`updateChan` full parks in `sendq`; `Receive` completes it as Go's runtime does.
`mu` is a variable only where it is kept across steps, that is while a list is
sent without debouncing (`DebounceDuration` negative; zero means the default).
`log` stands for Consul's index: entry i is the service changed at index i. The
KV answer always has the current value, whatever `lastKVIndex` is, and an address
list is a set. A second `Stop` closes a closed channel and is not modelled.

`AddressFeed` promises that a list is published only if it is news and is
delivered once, and that only stopping loses one. It does not promise
order. The mapping `Feed` counts, for each list, how often it is in the channel
or in the hands of a sender.

### ExponentialStart

Time passes in `Tick`s of the unit of the constants. `gap` and `retries` measure
for `RetriesArePaced`. `select` chooses at random when both cases are ready.
`Start` may never return: with a resolver and a single connection it is in
`newClient`, which goes round the addresses until it is connected.

### WaitForConnection and ConnectBackground

`tick` tells whether the loop listens to its ticker: it does not while a poll is
under way. `asking` counts goroutines inside `IsConnected`, `answers` those
that want to send on `ch`. `ConnectBackground` runs it beside the start strategy,
with one clock and one client; the connection comes and goes as the mqtt library
pleases.

### ClientCalls

The chains of middlewares are built one assignment at a time, and calls go down
and up through them: a handler is the sequence of its middlewares. The
middlewares of `otelcourier` change what they pass on (the callback is
instrumented, `depth`; `subscribeHandler` drops the options, the one for
`SubscribeMultiple` does not) and count on the way back. Counters and latencies
are kept per path and topic, the attribute that every record has: a
`SubscribeMultiple` and an `Unsubscribe` record one attempt, one latency and, if
they fail, one failure for each of their topics (`MetricTopics`), as
`unnestMetricAttrs` has it. Records of different topics do not depend on each
other, so the loop over the topics is one step; the order of the two counters is
kept, because metrics are read at any moment. Of a `SubscribeMultiple` some topics
may reach the broker and others not, and its error is one for all.

A call carries its options as they are passed on (`opts`) and as they were given
(`asked`); the broker has the QoS that `composeOptions` makes of them. Encoders
are outcomes ("ok", failed, failed after some output), and `ChainResult` is the
loop over them as a recursive function. `OTelUnregister` may fail, and then keeps
the registration.

## Runs

| Run | Instance | What it shows |
|---|---|---|
| `lifecycle_multi` | 1 call, 1 Stop, 2 connections, up to 2 addresses | multi-connection mode: all safety properties, `StopReturns`, `UpdatesAreHandled` |
| `pool_publish` | 2 publishers, 5 publications, 1 Stop, a pool of 2 | numbers repeat, but no increment is lost and the load stays even but for the repeats |
| `resolver_client` | 1 call, 1 telemetry call, 1 Stop, 2 connections, lists of up to 2 addresses | the client serves the list it received; only late connects leak; `ImplementsConnectionSet` |
| `lifecycle_stop_telemetry` | 1 telemetry call, 1 Stop | **violated**: see findings |
| `resolver_debounced` | 2 services, 2 callbacks, 1 change, 1 rename | the wait index belongs to the service, what is pending has a carrier; `ImplementsFeed` |
| `resolver_converges` | 2 services, 2 callbacks, 1 rename | in the end the resolver watches the right service and the last list it decided to publish is the right one |
| `resolver_immediate` | no debouncing, 1 service, Stop, 1 change | `Stop` ends it although `mu` is held while sending; no send on the closed channel; lists arrive in order |
| `resolver_send_closed` | debouncing and Stop | **violated**: see findings |
| `connect_background` | intervals 1, 2, 4, 5, 5, a wait of 3 | all properties of the strategy, also if `Start` never returns; the wait returns and no goroutine stays behind |
| `subscriptions` | 2 callers, 2 calls, a topic of each kind, 2 connections, failed requests | subscribing and unsubscribing reach all connections; what is resumed is there |
| `subscriptions_live` | 1 caller, 2 calls, a shared topic, 1 connection that may be lost, lost answers | `subsCalled` is right; calls get through the three locks |
| `client_calls` | 2 callers, 2 calls or messages, 2 topics, 2 encoders, 1 Stop or Run | encoders, middlewares, instrumentation, the options and callbacks of subscriptions |

Bounds and why they suffice. Two connections allow an update that connects both,
one or none of two addresses, and one that replaces a connection by another; the
invariants of `lifecycle_multi` are proved for all bounds. In the resolver two
services allow a query for the old name to be answered after a rename; a rename
and a change together (`MaxLog` counts one entry per service that exists at the
start) allow a list that changes and changes back within the debounce time, and
two callbacks a late one beside the next (a third could only repeat what the
second does, as all take the same pending list). `resolver_converges` has the
rename but no change of a service besides; it does not call `Stop`, after which
`Converges` demands nothing. In the `subscriptions` runs resuming is one more
call beside those of the application; two callers need one topic to meet, and a
call two kinds of topics to split. Losses and lost answers would multiply the
states of `subscriptions`, so `subscriptions_live` has them. The safety
properties, `TypeOK` among them, also hold with two callers, a shared topic, two
connections that may be lost and lost answers, and with one caller, both kinds
of topics, two connections and lost answers (two million states each). The intervals of `connect_background` pass the
limit after three doublings, and the wait sees three ticks. Five publications
are twice as many as there are clients or publishers, and one more; `IntBits` is large enough
not to matter in `pool_publish`. Two calls overlap, or one subscribes and is
resumed or gets a message; with three calls (10.7 million states) all properties
of `client_calls` hold as well. Two topics let a call succeed for one of them
only, two encoders the first fail. `MaxInflight` is one: further
lists would wait behind the first as it does behind the client.
`CHECK_DEADLOCK FALSE` is given only where everything may really end: after
`Stop`, after a panic, or when a bound on calls is used up.

Fairness. Tokens complete or time out (`connectTimeout`, `writeTimeout`,
contexts), so every call that holds a lock ends: weak fairness. Go's `RWMutex`
and `Mutex` hand over to a waiting goroutine, so acquiring a lock is strongly
fair. That `Start` returns is not assumed: `connectTimeout` bounds one dial, not
the loop of `newClient`. A query of Consul ends after `WaitTime`; `DiscoverAnswer` of the service
loop and `KVAnswer` are strongly fair because Consul does not fail all
queries forever. Each armed timer fires if it is not stopped: `timerEpoch`
changes with every arming, so that fairness is that of one timer and not of a
series of re-armed ones. `SelectDone` is strongly fair since `select`
chooses at random. The application and Consul are never obliged to act, nor is
`Stop` to be called. `Receive` is only fair in `LiveSpec`, where
the consumer is `watchAddressUpdates`; `ConsumerFollows` states it as a premise.
In `BGSpec` nothing makes `IsConnected` return: `WaitReturns` holds although it
may block forever. `PoolSpec` adds that a publisher which has loaded the
counter goes on to add to it.

## Theorems

Every invariant, action property and refinement that a run checks is also
proved, for any number of goroutines, connections, topics, services and
callbacks and for any bounds, unless a hypothesis is given below. Each proof has
an inductive invariant, which TLC checked before it was proved.

**`ClientLifecycleProofs`**, for every option combination `NewClient` accepts:

* `TypeCorrect`, `CallsReachInstalledAlways`, `RetiredNotInUseAlways`,
  `DistinctClientIDsAlways`, `KeepsConnectionsAlways`;
* `ExecNeverIndexesEmptyAlways`, for a client that has neither a pool together
  with a resolver, nor an address in multi-connection mode (for these it is false);
* `NoOrphanWhileRunningAlways`, for multi-connection mode;
* `ImplementsConnectionSetAlways`: the refinement, action by action.

`LockOK`: `pc` determines who holds
`clientMu`, so a writer that proceeded is alone. `UseOK`: a goroutine without a
read lock uses nothing and one with a lock uses installed connections; with
`LockOK`, nobody uses anything when a set is replaced. `PlaceOK`: a connection
is installed, in the attempt, retiring or given up, and only one of these, so
what is retired is not what is installed. `IDsOK`: revisions in service are at
most the current one, those of the attempt one higher. `PathOK`: the mode decides
which attempt function runs. None of the properties is inductive without these:
for instance a state in which a goroutine uses an old connection without
holding a lock satisfies `CallsReachInstalled` until the next swap.
`NoOrphanWhileRunning` adds that an attempt is only pending while the watcher
waits, and that numbers not yet given out are "new"; the refinement adds `MapOK`,
by which the outer read lock of the telemetry calls nothing and `newClient` holds
one connection at a time.

**`ResolverClientProofs`**: every step of the composition is a step of
`ClientLifecycle` or leaves the client alone (`ClientBehaves`), so the invariant
above carries over, and with it `ResolvedImplementsConnectionSet`.
`ServesReceivedAlways` follows from `ServeOK` (the attempt is for the list
received last, and is what is installed when the list is dealt with),
`OnlyLateConnectsLeakAlways` from `LeakOK` (a connection that exists is referred
to, or `newClient` has given it up).

**`PoolPublishProofs`**: `NoIncrementLostAlways` from `CountOK` (the counter plus
the calls between load and add is the numbers given out plus the repeats).
`LoadIsSharedAlways` adds `ServedOK` (a client got the numbers of its residue
class and some of the repeats) and counts: two residue classes below a
number differ by one (`ClassesAreEven`, by an injection), and no more numbers are
missing than were repeated. Hypothesis: the numbers up to `MaxPublishes` fit into
`int`; beyond that `IndexInRange` fails.

**`ConsulResolverProofs`**: `WaitIndexOfServiceAlways`, from `IndexOK` (an answer
that waits for `mu` carries the index of the service it names, so the comparison
with `serviceName` under `mu` decides); `PendingHasCarrierAlways`;
`NoSendOnClosedAlways`, with the hypothesis `~Debounced`
(the finding below shows it false otherwise), from `EndOK` (`updateChan` is closed after all
senders have exited); `ImplementsFeedAlways`, from `QueueOK` (a sender is parked
once), `PendingOK` (what is pending is news) and a count, for each list, of those
who have it in hand.

**`ClientSubscriptionsProofs`**: `SkippedIsHeldAlways`, `SubscribeReachesAlways`,
`UnsubscribeReachesAlways`, `ResumedIsHeldAlways`. `ControlOK` says when
goroutines, halves and resumed topics exist, `LockOK` that `internalState.mu`
belongs to the call with a request under way, `StateOK` that what is in
`subsCalled`, or about to be, is held but for a reason that is about to be dealt
with. `AgainstOK` says that nothing under way works against an undisturbed call,
and the parts of `ReachOK` what such a call has achieved on every connection it is
done with. The proof found a mistake in the model: `doubt` was updated when a
goroutine ended and not when its answer came, and with two callers and lost
answers `SkippedIsHeld` failed in between.

**`ClientCallsProofs`**: `FailuresWithinAttemptsAlways`,
`FirstEncoderDecidesAlways` (for chains of any length, by induction on the
encoders tried), and, with the hypothesis `~UseWhileServing` (otherwise
`PassesAllMiddlewares` is false), `PassesAllMiddlewaresAlways`,
`InstrumentedOnceAlways`, `KeepsQoSAlways` and `MetricsBalanceAlways`. `FailOK`
allows, for each path and topic, for the calls between their two counters.
`SetupOK`: a handler is composed of the middlewares from some index on. `PathOK`: the middlewares a
call has entered and those ahead of it make up what was due. `DepthOK`: a
callback on its way is instrumented exactly if it has passed OTel. `QoSOK`: what
is remembered, and what goes down without passing OTel's `subscribeHandler`, are
the options that were asked for. `BalanceOK`: attempts and latencies of a path
and topic, and the open spans, are those of the calls that returned and of those
under way, by where they are.

**`ExponentialStartProofs`**, for all intervals: `StartTypeCorrect` (the
interval never exceeds the larger of the limit and 100 ms),
`AtMostOneStartAlways`, `StartedOnceAlways` (`SuccessIsReported` says where the
result of a successful `Start` is until the loop takes it) and
`RetriesArePacedAlways`, from `PaceOK`: what has passed of an interval and
what is left of it are together long enough, and so is the next interval. Its
hypotheses are about the model's counters only: two retries are told apart, and a
gap is counted up to the longest interval.

`PrimitiveRecursion` has what the proofs about the recursive definitions
(`Doubled`, `ChainResult`) rest on: a function defined by recursion exists. The
library's induction theorems take an operator, which the provers cannot
instantiate; its `WFMin` does not, and gives induction as the least
counterexample in a set.

The assumptions are the named `ASSUME`s of the modules: the option combinations,
disjoint sets of goroutines, positive intervals; finite sets where something is
counted (services and callbacks of the resolver, callers); `MaxLog` at least the
number of services and `MaxKV` at least one, as initially every service has been
registered and the KV key written; address lists are
sequences; `None` and `Nil` are none of the values they stand in for.

Only model-checked: liveness (`StopReturns`, `UpdatesAreHandled`, `Converges`,
`StopTerminates`, `ConsumerFollows`, `KeepsTrying`, `CancelEnds`, `WaitReturns`,
`PollEnds`, `CallsReturn`), since the prover does neither fairness nor `ENABLED`.
That leaves `WaitForConnection`, whose properties are all liveness, without a
proof.

## Findings

* `lifecycle_stop_telemetry`: `infoResponse` read-locks `clientMu` and calls
  `execute`, which read-locks it again. `Stop`'s `Lock` between the two blocks
  the second read lock, and waits for the first: both stay blocked forever. An
  address update does the same in place of `Stop`.
* `resolver_send_closed`: `Start` closes `updateChan` once both loops have
  exited, but a timer callback may be past its check of `doneChan`; its `select`
  may choose the send on the closed channel, which panics.

Further counterexamples, found with the properties at the end of the modules and
the constants given (deadlock checking off):

| Property | Constants | What happens |
|---|---|---|
| `NoOrphan` | as `LifecycleStopTelemetry.cfg` with `Infos = {}` | `stop` disconnects under the read lock and clears under the write lock; connections installed in between stay up, unreferenced |
| `StopIsFinal` | the same, `FairSpec` | the watch loop outlives `Stop` and connects again |
| `NoOrphan` | the same, `multiConnectionMode = FALSE`, `Stoppers = {}` | `newClient` forgets a client whose connect timed out and may yet succeed |
| `ExecNeverIndexesEmpty` | `ClientLifecycle` with `poolEnabled = TRUE`, `PoolSize = 2`, `HasAddress = FALSE`, `HasResolver = TRUE`, one call | a pool with a resolver sets `mqttClient` only; `execMultiConn` picks from no clients |
| `Converges` | `ResolverConverges.cfg` with `WaitExceedsDebounce = FALSE` | every query that times out re-arms the timer, which never fires |
| `ConsumerConverges` | `ResolverConverges.cfg` | callbacks publish outside `mu` in the other order; the older list stays |
| `NoUpdateAfterStop` | `ResolverSendClosed.cfg` | a callback past its check publishes after `Stop` has returned |
| `NoStartAfterCancel` | `ConnectBackground.cfg` | `select` takes the error although the context is cancelled |
| `WaitsAtMostMax` | `InitialInterval = 2`, `maxInterval = 1` | the first interval is not limited |
| `RememberedIsHeld` | `Subscriptions.cfg` | connections are replaced before `Subscribe` records its topic; nobody resumes it |
| `ForgottenIsGone` | the same | a part of `SubscribeMultiple` fails, or an update resumes the topic before `Unsubscribe` forgets it |
| `NormalOnOneConn` | the same | an update that connects nothing resumes the topic on another connection: two copies of each message |
| `SubscribeReaches` without `doubt` | `SubscriptionsLive.cfg` with `MaxCalls = 3` | a timed-out Unsubscribe leaves its topic in `subsCalled`; the next Subscribe sends nothing |
| `EveryClientServes` | `PoolPublish.cfg` | two publications load the same number and go to the same client |
| `IndexInRange` | `PoolPublish.cfg` with `IntBits = 2`, `MaxPublishes = 4` | the counter does not fit into `int`: a negative index (after 2^31 publications with 32 bits) |
| `EndKeepsConnection` | `ResolverClient.cfg` | the closed `updateChan` delivers nil, which is taken for an empty list: the client drops its connection |
| `DialsNewest` | the same | `newClient` goes round an outdated list while a newer one waits |
| `TrueMeansStarted` | `ConnectBackground.cfg` | a connect that `Start` gave up succeeds: connected, and `Start` is called again |
| `OutputOfOneEncoder` | `ClientCalls.cfg` | what an encoder wrote before it failed stays in front of the next one's output |
| `SubscribedAsAsked` | the same | the `subscribeHandler` of `otelcourier` calls the next one without the options of the call (`otelcourier/subscribe.go:80`): a Subscribe with QoS 1 has QoS 0 at the broker |
| `RunUnregisters` | the same | `Run` ends with `c.stop()` and not with the stop handler (`client.go:135`): the stop middleware of `otelcourier` does not run and its info handler stays registered |
| `PublishFailuresWithinAttempts` | the same | `Publish` counts the failure before the attempt |
| `StopTwice` | the same, `Stoppers = {s1, s2}` | the second Stop finds the registration gone between its check and its use |
| `PassesAllMiddlewares` | the same, `UseWhileServing = TRUE` | a call in the middle of `Use...Middleware` passes some of them |

## Not modelled

Logging is output only. Of telemetry and OpenTelemetry, what is reported with a
count (attributes other than the topic, and how a topic is written there; histogram
boundaries, propagation) and the info handler's parsing are left out. That hides one race: a `SubscribeMultiple` of both kinds of
topics may run the client ID callback of `otelcourier` twice at once, which
writes attributes without a lock. Credentials, TLS and most
other client options are passed on to the mqtt library unchanged, and those that
decide how the client connects are constants of `ClientLifecycle`, with what
`NewClient` accepts as an assumption; `WithConnectTimeout(0)` (documented as no timeout, but `time.After(0)` fires at
once) is not: a timeout may come at any time in the model. Decoders are not
modelled: a message is decoded in the callback of the application, by a chain
that works as that of the encoders does. `Start` is not called
again after it succeeded. The mqtt and
Consul libraries are external and modelled by how the code uses them. The
client IDs of attempts given up are reused by the next attempt and therefore
outside `DistinctClientIDs`.

## Plan

1. Core, done: `ClientLifecycle`, `ConsulResolver`, `ExponentialStart`,
   `ClientSubscriptions`, and the first proofs.
2. Extend, done: several topics and lost answers in `ClientSubscriptions`; the
   abstract `ConnectionSet` and `AddressFeed` with their refinements; the
   compositions `ResolverClient` and `ConnectBackground`; `PoolPublish`; the
   middlewares, encoders and OpenTelemetry in `ClientCalls`.
3. Prove, done: every safety property and every refinement the runs check.
4. Left: the steps of the liveness arguments that are safety (what a fair
   action cannot undo), as lemmas beside the runs that check the whole.
