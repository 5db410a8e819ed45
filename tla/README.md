# A formal model of the Kubernetes container service provider

The repository is a service provider of DCM: an HTTP API that turns *containers*
into Kubernetes Deployments and Services, a monitor that watches those objects and
publishes status events to NATS, and a client that registers the provider with the
control plane. This directory holds TLA+ modules translated from its Go source, TLC
configurations that check them on small instances, and theorems that TLAPS proves
for every instance.

## The system and its parts

| Part | State it keeps | Operations | Modelled in |
|---|---|---|---|
| `internal/kubernetes` store | none of its own; the cluster's Deployments and Services | `Create`, `Get`, `Delete`, `List` | `ContainerStore` (writes), `StoreReads` (`Get`, `List`) |
| `internal/handlers/container` | none | resolves the id, validates, calls the store, maps errors to status codes | every operation's answers in `RequestChain`, checks in `ContainerView` |
| `internal/apiserver` `New`, middleware, error handlers; routes, binding and visitors of `server.gen.go` | per request: two recorders, a context with a deadline | recovery, access log, request timeout, OpenAPI validation, routing, binding, decoding, writing | `RequestChain` |
| `internal/monitoring/debouncer.go` | `timers`, `stopped`, `wg`; the runtime's timers | `Submit`, the timer callback, `Stop` | `Debouncer`, abstractly `Coalescer` |
| `internal/monitoring/monitor.go` | two informers with their caches and queues, two handler goroutines, a retry loop per publish | event handlers, `reconcileAndSubmit`, `publishWithRetry`, shutdown | `StatusMonitor` |
| `reconcile.go`, `MapPodPhaseToStatus` | none (pure) | phase to status, worst Pod, reconciliation | `StatusMapping` |
| `internal/registration` | backoff, `startOnce`, `done` | `Start`, `run`, `register` | `Registrar` |
| `internal/apiserver` `Run`, `cmd/.../main.go` | listener, probe, context | start, readiness, `onReady`, shutdown | `ServiceLifecycle` |
| `publisher.go`, `event.go` | the NATS connection | `Publish`, reconnecting, `Close` | `StatusMonitor` (connection, buffer), `ServiceLifecycle` (`Close`) |
| `convert.go`, `units`, `dcm/labels.go` | none (pure) | spec to Kubernetes objects and back | `ContainerView` |
| config, types, embedded document, client package | none | parse, hold constants, serve other programs | values of the timeouts in `RequestChain`, a failed load in `ServiceLifecycle` |

How they interact. `main` starts the server; when its health endpoint answers, the
`onReady` callback starts the registrar and the monitor on goroutines of their own.
Requests run concurrently and share nothing but the cluster: what one of them does is
the sequence of its API calls. The monitor learns of what they did through two
informers, one per kind of object, each with its own lag and its own handler goroutine;
each handler reads the *other* informer's cache and submits a status to the debouncer,
whose timers publish through the retry loop. Cancelling the context stops everything.

What is hard here, and what the properties are for (the full list is under `hazards`
in `PROJECT.json`):

* **check-then-act against the cluster**: `Create` lists and then creates, `Delete`
  lists Services and then deletes, with other requests in between;
* **several objects, no transaction**: a failure, a lost answer, a cancelled request or
  a crash between the Deployment and the Service;
* **timers that fire while they are stopped**, and a map whose entries are deleted by
  key and not by identity;
* **reads in several calls**: a container is put together from three lists, and a listing
  from pages cut out of a list that changes;
* **two goroutines that read, compute and submit** without a lock over all three;
* **shutdown**: `Stop` must wait for publishes in flight and let none begin;
* **a connection that comes and goes**, and a service that is restarted with empty caches
  while its subscribers remember what they were told;
* **answers of two writes**: a status line and a body, written through two recorders, with a
  panic, a timeout or a broken connection before, between and after them.

What makes each part correct: the store keeps at most one container per id, an
acknowledged container can be found until it is deleted, a failed or deleted one leaves
nothing behind; the debouncer hands out every newest event and nothing after `Stop`; the
monitor's subscribers are told, in the end, what the caches say; the registrar stops on a
final answer and never by itself; the process starts its background work only when it
serves, and a signal always ends it; a client that waits gets one well-formed answer, and
the access log says which.

## Modules

| Module | Extends or instantiates | Contents |
|---|---|---|
| `Coalescer` | | abstract promise of a debouncer: accept, displace, hand out, close, drain |
| `Debouncer` | instance of `Coalescer` | the code, one action per mutex section |
| `DebouncerProofs` | `Debouncer` | inductive invariant, safety, refinement |
| `ContainerStore` | | `Create`, `Delete`, `Get`, one action per API call |
| `MCContainerStore` | `ContainerStore` | symmetry for TLC |
| `ContainerStoreProofs` | `ContainerStore` | inductive invariant, safety |
| `ContainerStoreLeftovers` | `ContainerStoreProofs` | what is left in the cluster in the end |
| `ContainerView` | | checks of a spec, and its conversion to objects and back |
| `StoreReads` | `ContainerView`, `StatusMapping` | `Get` and `List` in a changing cluster |
| `MCStoreReads` | `StoreReads` | containers and specs for TLC |
| `StoreReadsProofs` | `StoreReads` | inductive invariants, answers, traversals |
| `StatusMapping` | | the pure functions of reconciliation |
| `StatusMonitor` | `StatusMapping`, instance of `Debouncer` | informers, handlers, debouncer, retries, NATS connection, restart, shutdown |
| `StatusMonitorProofs` | `StatusMonitor` | inductive invariants, truth, order, silence after `Stop` |
| `Registrar` | | the registration loop and its timer |
| `RegistrarProofs` | `Registrar` | inductive invariant, safety |
| `ServiceLifecycle` | instance of `Registrar` | start-up, probe, `onReady`, requests, shutdown, exit |
| `ServiceLifecycleProofs` | `ServiceLifecycle` | inductive invariant, safety |
| `RequestChain` | | one HTTP request from the middleware to the client and back |
| `RequestChainProofs` | `RequestChain` | inductive invariant, safety |

### Debouncer

A timer is named by its position among the accepted events (`created` counts them), so
"newer" is `>`. `timers` is the Go map (`NoTimer` is an absent key), `timer[t]` says
where timer `t` and its callback goroutine are, `wg`, `stopped` and `stopPC` are the wait
group, the flag and the caller of `Stop`. A section under the mutex is one action:
`Submit`, the callback's `Callback`, `Stop`'s `StopBegin`. What lies between two sections
is a step of its own: `Elapse` (the runtime starts the callback, after which
`Timer.Stop` is too late), `PublishReturn` (`publishFn` and the deferred `wg.Done`),
`StopEnd` (`wg.Wait`). `replaced` is a history variable: the timers a `Submit` found in
the map; a member whose state is not `cancelled` was stopped too late.

### ContainerStore

`pc[r]` is the API call request `r` makes next. Names made by `GenerateName` are unique,
so the Deployment and the Service a request creates are both called `r`; `id[r]` is the
label they carry. A call under the request's context (`ContextAlive`, `ContextOrFault`)
may succeed, fail without an effect, or fail although its write was sent. Such a write has
its effect before the error is reported, or it waits in `late` and `LateWrite` lets it
take effect at any time after that, or never. `Cancel` is the client that disconnects or
the request timeout. The calls under `context.WithoutCancel` (`Rollback`,
`DeleteDeployment`) do not look at the context but may still fail. `Crash` ends all
requests in flight, of which each may leave the write it was about in `late`; there is no
state to recover. `prior[r]` is a history variable, the requests that were over when `r`
began: two requests *overlap* if neither is in the other's `prior`. `mishap` collects the
requests with a failure the code cannot undo: a call that took effect, or may still do so,
although it reported an error, a rollback or final delete that failed, a crash. `belated`
are those of them whose Deployment was made after the error. The handlers' error mapping
is in the status codes (`Answer`). Pods are not variables: the call of `Get` that lists
them may find any number.

### ContainerView and StoreReads

`ContainerView` translates the pure functions on the way from a spec to a Deployment and a
Service and back. Memory is an amount in Mi; that the API server rewrites a quantity with
the largest binary suffix is part of `MemoryQuantityToAPI`, that `resource.ParseQuantity`
takes what is beyond 2^63 - 1 bytes for exactly that (`MaxMemory`) is part of `ConvertMemory`.

`StoreReads` has one client, which asks for one container or lists all page by page, while
the cluster changes: other requests' writes, the Deployment's status, its Pods. Objects
are numbered in the order of their names; a name is used once, an instance id can be used
again. A Create checks and creates in two steps (`CheckId`, `CreateDeployment`), so that
two Deployments of one id can exist at the same time; `creating` are the Creates in
between, and the history variable `before` says which Deployments of the id were made
before the check. `page` holds the Deployments *as they were listed*, since the code
decides from them, after it has listed the Pods, whether two Pods are a rollout. `born` is
the second of a Pod's creation: two Pods may have the same, and then either may count as
the newest. `seen`, `lost`, `added` are history variables, the Deployments in the last
listing and those that went or came between two listings of one traversal; `told` is what
the pages showed.

### StatusMonitor

`deployCache` and `podCache` are the informers' indexers, `deployQ` and `podQ` their
queues of notifications. The cluster is not a variable: each informer sees the changes of
its kind in order and with its own lag, so a change is the step in which it reaches the
cache. An instance may have several Deployments, as overlapping Creates leave them; the
lookup by index takes any of them. `deployH` and `podH` are the handler goroutines between
their lookups and `Submit`. The debouncer's variables are those of `Debouncer` (its
instance `Debounce`), and each step of the debouncer is a step here together with what
surrounds it: `PublishOk` and `PublishFail` are the attempts of `publishWithRetry`, the
last of which returns into the debouncer. `linked` and `held` are NATS's client: a publish
succeeds, with a connection or without one, as soon as the client has the event in its
buffer `held`. `Deliver` hands the oldest event to NATS while there is a connection.
`Disconnect` loses any number of the oldest ones, those that were already written to the
connection: nobody is told, and nothing tries again. The client keeps the others until
`Reconnect` (`RetryOnFailedConnect`, `MaxReconnects(-1)`; that library is external). The
way out of `Start` is `StopBegin` and `StopEnd` (`debouncer.Stop`), then `ShutdownEnd`
(`factory.Shutdown`, which waits for the handlers). `Restart` ends a life of the service
at any moment and begins the next one: empty caches, queues, debouncer and buffer, while
`published`, what the subscribers were told, stays. `seen` (instances of which this life
had an object), `stale` (instances whose last submission disagreed with the caches when it
was made), `contended`, `lost` (events a dropped connection took along) and `earlier`
(where this life's events begin) are history variables used only in properties.
`StatusMapping` abstracts a Pod to its phase and a Deployment to the three cases
`ReconcileStatus` tells apart.

### Registrar and ServiceLifecycle

`loop` is where the goroutine of `Start` is: sending, waiting for the reply, in the
`select` between its timer and the context, or ended, which is when `done` is closed.
`backoff` is the local variable of `run`, doubled by `Resume` when the timer is taken.
The registry is external: it may record the provider (`entry`) whether or not its answer
arrives, and may have recorded it in a former life of the service.

`main` is where main's goroutine is: the start-up steps, each of which may fail; the
probe and its wait; `onReady`; the `select` of `Server.Run`; `Shutdown`; the deferred
calls in their order (`publisher.Close`, then `stop`, which cancels the context). The
registrar's steps are those of `Registrar` while the process is alive. Of the monitor
only the start, the end and the fact that it publishes in between are kept; its inside
is `StatusMonitor`. `healthy` says whether the health endpoint answers within the
probe's one second: it asks the Kubernetes API server and may be slow. `url` says whether
the listener's address makes a URL at all; without one the probe gives up at once
(`server.go:280-282`), as when it times out.

### RequestChain

Requests share nothing but the cluster, so there is one of them. `stage` is where its
goroutine is: the validation, the router, the generated wrapper that binds parameters, the
strict handler that decodes the body, the calls of the store (under the request's context,
or detached from it as the rollback and Delete's last call are; the health check's call has
no context and may hang for ever), the response's two writes,
and the way out through the access log and net/http. `recorded` and `wroteHeader` are the
recorders of the access log and of recovery, `head` and `body` what net/http has got from
them, `told` what the client receives. A panic may happen at every stage; it is `early` or
`late` by what recovery finds in `wroteHeader`, or an `abort` (`http.ErrAbortHandler`).
`cfg` is what `New` has to work with: the three timeouts, zero included, and whether the
embedded OpenAPI document loads, or only its router fails, or neither works. Bodies are told
apart by what they disclose and whether they are problem documents, not by their wording.
What the validator finds wrong is left to chance.

## Runs

| Run | Question | Result |
|---|---|---|
| `debouncer` | Does the debouncer implement `Coalescer`? Does `Stop` drain it? Is coalescing exact while no stop is late? Does the newest event survive and get published? | holds |
| `debouncer_race` | Is a previous event always replaced (comment of `Submit`)? | **violated** |
| `store` | Do duplicates need overlapping Creates? Is what was answered 201 there, what was answered 204 gone, what failed undone? Are Services without Deployments, and Deployments without Services, excused? | holds |
| `store_duplicate` | Is a second Create of an id always refused? | **violated** |
| `store_orphan` | Does Delete remove the container's Service? | **violated** |
| `reads` | What do pages skip or repeat? What of a spec reads back? Whose objects does an answer show? Where do API and monitor disagree? | holds |
| `monitor` | Once settled, is what NATS was told last what the caches say, if no connection took the last event along? Do events reach it at most once each and in order, through outages and restarts? Is the monitor silent after `Stop`? Is every Deployment reported, unless its newest event was given up or lost, and does `Start` return? | holds |
| `monitor_gone` | Is the last status DELETED when nothing is left? | **violated** |
| `monitor_worst` | Does the most concerning Pod decide? | **violated** |
| `registrar` | Does the loop end on a final answer and on cancellation, never by itself, and never start again? | holds |
| `lifecycle` | What is started only when ready, what does exit status 0 mean, what may a publish meet, does a signal end the process? | holds |
| `chain` | Is every whole answer well formed, and one? Does the access log tell the truth of what did not panic? Who is left without an answer? Which requests do the timeouts end? | holds |

The violated runs are disagreements of the code with its own specification or comments;
`PROJECT.json` quotes both sides under `findings`. In short:

1. *Late stop* (`debouncer.go:48`). Timer 1's callback has started and waits for the
   mutex; `Submit` stops it too late and stores timer 2; the callback deletes the key,
   which is timer 2's; the next `Submit` finds no timer and arms a third. Two windows of
   one instance run. `CoalescedUnlessRaced` says that nothing else can go wrong and
   `LatestSurvives` that no newest event is lost by it.
2. *Two Creates* (`store_create.go:57`). Both list nothing, both create. Both are
   answered 201; from then on `Get` and `Delete` answer 500. `DuplicatesOverlap` says that
   sequential clients are safe, unless a Deployment is made after its Create has failed.
3. *Delete overlaps Create* (`store_delete.go:20`). The Service is made after `Delete` has
   listed the Services. `OrphanServiceExcused` says that only this overlap or a failure
   does it.
4. *A stale status after DELETED* (`monitor.go:129`). A handler computes a status, the
   other one submits DELETED, then the first submits. `ToldTheTruth` says what is still
   told once the last submission was right.
5. *The event's Pod* (`monitor.go:153`). An event of a running Pod publishes RUNNING
   although the cache holds a failed Pod of the instance.

### Bounds

* `Debouncer`: `MaxTimers` = 4 submissions over two instances. The late-stop race takes
  three submissions of one instance, the fourth shows what follows or the interference
  of the other instance. Statuses never influence control: one is enough.
* `ContainerStore`: four requests on one id and one fault. Requests of different ids
  share nothing, since every selector carries the id. Each property speaks of at most
  three requests (a Create, a Delete, an observer); the fourth disturbs them. A fault is
  an API error, a failed call whose write takes effect at once, later or never, a
  cancellation or a crash. The violated runs need two requests and no fault. Requests are
  symmetric.
* `StoreReads`: three containers, the first and the last with one id, pages of one, of two
  and, when no size is given, of fifty (the OpenAPI document refuses sizes below one), two
  Pods, and four changes of the cluster or failed calls: enough for two Creates of one id
  to overlap and both be read, for a container to be replaced by another one of its id
  (with a Pod or a Service of the wrong one to be seen), for two Pods in a rollout that
  began after the Deployment was read, or for containers to go and come on both sides of a
  page's end. The specs ask for memory in every unit, 0 and 1024TB included, for ports of
  every visibility, and for one port number twice. `MaxMemory` is the memory of 1536TB
  instead of 2^63 - 1 bytes, which TLC's integers have no room for; one of the specs goes
  beyond it.
* `StatusMonitor`: one instance with two Deployments, two Pods with phases Running and
  Failed, two attempts per publish, and `MaxDisturbances` = 3: changes that reach a cache
  (resyncs included), attempts that fail, outages, restarts and shutdowns count alike.
  Three are enough for a Deployment and two Pods to appear, for one of them to go away,
  for a publish to be retried or given up, for an event to be kept during an outage and
  delivered after it or to be lost with its connection, and for an instance to be seen,
  the service restarted and the instance seen again, and for a shutdown to meet an event
  on its way whose first attempt failed. Instances share the debouncer's mutex and nothing
  else. `MaxTimers` is at least `MaxDisturbances`, so that it never holds a handler up
  (`TimersSuffice`). The two violated runs use 4 and 2, and one Deployment. Under
  `Waiting` the monitor may be at rest when nothing of it is under way.
* `RequestChain`: all routes, all three states of the document, request timeouts of 0, 1 and
  2, read timeouts up to 1 and write timeouts up to 2, on a clock that stops at 2, so that
  each timeout may be off and the request timeout earlier than, equal to or later than the
  others.
* `Registrar`: an initial backoff of 1 and a limit of 6, so that doubling (1, 2, 4, 6) is cut
  at a value that is no power of two. `ServiceLifecycle`: two clients, one of which may be
  answered while the other one is not; backoffs of 1 and 2.

### Fairness

The debouncer's timers and callbacks are weakly fair, because the Go runtime runs elapsed
timers and ready goroutines and `publishFn` is bounded (five attempts with finite
backoff); `StopEnd` is, because `wg.Wait` returns once the counter is zero (that `Stop`
returns is part of `StartReturns`, with the retries it waits for). In the monitor the two
handler goroutines are weakly fair as well, and so are `StopBegin` once the context is
cancelled, `ShutdownEnd` once the handlers are idle, `Reconnect` (the client tries again
without end and NATS is assumed to come back) and `Deliver` (the client's flusher writes
what it keeps). Nobody is obliged to submit, to change an object, to resync or to cancel.
The store has no fairness: its properties are about safety.

In the registrar and in the readiness probe a `select` may find several cases ready; Go
picks one at random, so a case that is ready again and again is taken at some time. That is
strong fairness of `GiveUp` and of `ProbeSkip`; the rest of both goroutines is weakly fair.
The registry, the handlers, the health endpoint and the sender of signals owe nothing:
`ShutdownEnds` rests on the probe's deadline and the shutdown timeout alone.

In `RequestChain` the request's goroutine, the clock and the timer of the request timeout
are weakly fair, and a detached call returns, because it has a limit of its own. A write to a
broken connection is fair too: it fails, and the write timeout breaks it. The client
and the calls under the request's context owe nothing: they may hang until the context is
cancelled, the health check's call for ever. `TimeoutBounds` therefore asks for both the
request and the write timeout, names the read timeout for a Create, whose body is read
without a look at the context, and leaves the health check out.

## Proofs

The theorems hold for every value of the constants, from the named assumptions of the
modules alone (bounds are natural numbers, `NoEvent` is no event, `NoId` is no id,
containers and Pods are finitely many, a spec that is asked for has the shape that the
OpenAPI document enforces: `IsContainerSpec`).

* **Debouncer.** The invariant `IInv` adds to the types: the wait group counts the
  publishes in flight (`WaitGroup`); a map entry is the newest timer of its instance and
  live (`Entries`); only replaced timers are cancelled before `Stop`, and a replaced timer
  has a newer one (`Replacement`); while no stop was late every live timer is in the map.
  `TypeOK` needs it because `wg - 1` must stay natural. From it: `TypeCorrect`, `Drained`,
  `Coalesced`, `NewestSurvives`, and `Refinement`: every step of the debouncer is a step of
  `Coalescer` or a stutter, where a callback turned away by `stopped` is one of the
  stutters.
* **ContainerStore.** `IInv` carries each property back to what a request saw when it
  listed the cluster: which objects a request may have made given its `pc` (`Control`); a
  write in `late` was sent by a request that is past it and is in `mishap` (`Late`);
  requests in `prior` are over (`Before`); a Create past its check overlaps every other
  Create whose Deployment exists, but for belated ones (`Duplicates`); a rollback without
  a mishap has no Service to leave behind (`Undone`); as long as nobody issued a Delete,
  the Deployment of a Create that got past it exists (`Visible`); beside the Deployment a
  Delete has found there is only what began later or came late (`Gone`). One lemma per
  action, then `TypeCorrect`, `SequentialCreatesConflict`, `AcknowledgedStays`,
  `DeletedStaysGone`, `FailedCreateIsUndone`. `ContainerStoreLeftovers` adds a second
  invariant on top, for what is left when everything is over: `Working` (a Delete works on
  one Deployment and on Services of its id), `Orphans` (a Service without a Deployment,
  present or still to be made, has a Delete that overlaps its Create) and `Halves` (a
  Deployment that lost its Service has a Delete that excuses it: one that overlaps, one
  that stopped at another Service, or one that deletes the Deployment next). From it:
  `OrphansOverlap`, `WholeContainers`.

* **StatusMonitor.** Three invariants. A restart throws away timers that no newer event has
  replaced, so the debouncer's does not carry over; what is left of it is `IInv`: the wait
  group counts the publishes under way (`Counted`), the slots in use carry events (`Armed`),
  who has still to publish has an attempt left (`AttemptsLeft`). From it `TypeCorrect` and
  `SilentInTheEnd`.

  `ToldInTheEnd` speaks of a settled monitor, so `TInv` has to say what holds before. It
  follows an instance from the caches to NATS (`Honest`): as long as a notification of it
  is queued or in the hands of a handler, nothing is claimed; once none is, its newest
  timer carries what the caches say and has told it or is about to (`Carried`), unless it
  was given up or lost. A lookup out of date is `stale` until the next submission. That
  the newest timer is the one to be told last needs the order of timers: what is neither
  stopped nor published is in the map and newest (`OneLive`), an older event is not
  published after a newer one (`InOrder`), and an entry of the map belongs to its instance
  (`Entries`). A Pod that succeeded submits nothing, so that its notification must not be
  the last one unless the cache still shows it (`SuccessKnown`). `Wayside` is what lies
  beside that way: a stopped debouncer was cancelled, and a life's events are numbered
  after those of earlier ones.

  `ToldInOrder` adds `GInv`: what was given to NATS or to its client is done (`Gone`), and what
  the client keeps is in order and newer than what was delivered (`Kept`), so that `Deliver`
  keeps the order, whatever `Disconnect` took away before.
* **ServiceLifecycle.** `IInv` says which resources main holds at each of its steps
  (`Acquired`), that onReady starts both goroutines or none (`Begun`), and that a way out
  with status 0 has nobody left to answer (`CleanWay`). Then `TypeCorrect`, `ReadyFirst`,
  `ExitsCleanly`, `MissedLate`.
* **RequestChain.** `IInv` has one part per stretch of the chain: nothing is written before
  the response (`Silent`), status line and recorders agree between the two writes
  (`HalfWritten`) and when the chain returns (`Written`), each way out leaves net/http an
  answer, the beginning of one, or an abort (`Left`), and what the client has is one of
  these (`Heard`). A broken connection stays broken, which excuses what comes after it.
  Then `TypeCorrect`, `AnswersWellFormed`, `AccessLogTrue`, `SilenceIsExcused`.
* **Registrar.** What `FinalAnswer` says is inductive with the types;
  `DoublingBounded` is the arithmetic of the limit. Then `TypeCorrect`, `AnswersAreFinal`,
  `DoneIsForEver`. The assumption `InitialBackoff <= MaxBackoff` holds for the values that
  `NewRegistrar` sets; its options do not enforce it, and the first sleep would not respect
  the limit without it.

* **StoreReads.** Two invariants. `IInv` is about one answer. What exists was asked for
  and accepted (`MadeAccepted`, with `AcceptedFits` for the limits), of the Deployments of
  an id that were made before a Create of it made its check none is left (`Apart`), and
  the container being built was rebuilt from its Deployment, perhaps with the Service of a
  container of the same id (`Viewed`). What reads back is then a matter of the two
  conversions: `QuantityReadsBack` is the choice of the suffix, `EnrichedReadsBack` that
  of a visibility. From it: `TypesCorrect`, `ShownAsAsked`, `AnswersOfOne`,
  `StatusesAgree`, `RequestsWithinLimits`, and `TokensLeadOn`: a page's place in the list
  is its offset, and a token leads past its page to a container that is there. That is
  what ends a traversal, so that no liveness run is needed.

  `TInv` is about a traversal. `SkipsSoFar` and `RepeatsSoFar` say of the pages answered
  so far what the properties say of all of them, where `Covered` is the part of the last
  listing that lies before the token. The second one also counts the containers that were
  told and lie ahead again: they will be repeated, which is why the property itself is not
  inductive. The step that counts is a new listing; `MovedUp` says that no more containers
  move up to before a position than are gone, and, with the two lists swapped, that no
  more move down than are new; `ListedAgain` adds what a listing loses to what was lost
  before. This needs that a name is used once: what is lost does not come back
  (`Recorded`). `Cut` ties the page being built to the listing that it was cut from;
  `SortedByName` says that the list has every container once, in the order of names.

Only model-checked is liveness, which the prover cannot treat: `LatestPublished`, `Reported`,
`StartReturns`, `RetriesUntilOver`, `CancelEnds`, `ShutdownEnds`, `TimeoutBounds`.
Every invariant and every action property of the passing runs is a theorem. The properties
of the violated runs are not theorems, of course: the code does not have them.

Two facts of the lifecycle that no run calls a violation, because the code says that it
means them or nothing promises the contrary: a readiness probe that times out (the health
endpoint takes longer than a second for five seconds, as it may while the Kubernetes API
server is unreachable), or that has no URL to ask (an address with an IPv6 zone), leaves a
service that serves but is never registered nor monitored (`StartedWhenReady`); and main
does not wait for the monitor, so the last status events may meet a closed connection
(`MissedOnlyOnExit` says that this is confined to the exit).

Facts about requests of the same kind, which the properties name as exceptions: a request
that panicked has no line in the access log, which is written after the handler and not in
a deferred call (`server.go:254`), where REQ-HTTP-060 and AC-HTTP-060
(`.ai/specs/k8s-container-sp.spec.md:125`, `186-191`) ask for one of every request
(`AccessLog` asks for it only without a panic); the health check ignores the request's
context and its client has no timeout (`store.go:36-37`), so that it outlives every
timeout while the API server hangs (`TimeoutBounds` leaves it out); what no route matches
is answered by chi in plain text, a panic between the status line and the body leaves an
answer without a body (`AnswerWellFormed`); the default write timeout of 15 seconds is
shorter than the request timeout of 30 (`config.go:15-18`), so that a request of 20
seconds does its work and its answer is lost (`SilenceExcused`); when the embedded
document does not load, requests are served without validation.

What an outage of NATS loses is of a third kind. `Publish` returns as soon as the client
has the event (`publisher.go:65`); what a dropped connection takes along is not retried,
and the last status of an instance may never be told. DD-060
(`.ai/specs/k8s-container-sp.spec.md:1619-1628`) calls this at-most-once, although it adds
that the retry mechanism handles transient failures. `ToldTheTruth` and `Reported` name
the loss of the newest event as an exception, and say that nothing else about an outage
does harm.

What a restart loses is not a violation either: an object that goes away while the service
is down is never reported DELETED, since the informers start from what exists
(`ToldTheTruth` speaks of instances this life has seen).

## Not modelled, and the plan

Left out for good: the generated types, the embedded document and the client package, which
hold no behaviour of the service; the parsing of configuration; logging and the wording of
messages; the fields of a CloudEvent, which are constants and copies; names, images and
addresses, which `convert.go` copies; the inside of client-go, chi, kin-openapi and
nats.go, which are modelled from how they are used.

Partly modelled: `Start`'s errors before its informers run (`monitor.go:43-60`, `103-111`)
are one step of `ServiceLifecycle`, `MonitorReturns`; of the health check that it answers or
not, in `ServiceLifecycle` within the probe's second, in `RequestChain` at all.

Next, in this order:

1. `ContainerStore` and `StatusMonitor` together: what a client is told by the API against
   what the monitor's subscribers are told.
2. Proofs: the safety of that composition; and that the debouncer inside `StatusMonitor`
   implements `Coalescer` from one restart to the next.

What the API and the monitor say differently today, by design of their specifications
(`AgreesWithMonitor`): a Deployment without Pods that was scaled to zero or cannot make
them is PENDING for the API and FAILED for the monitor; of two Pods in a rollout the API
tells the running one, the monitor the worst one. `isRollingUpdate` also calls it a
rollout when Pods are unavailable, where REQ-K8S-280 names only `UpdatedReplicas`: with a
failing replacement of an evicted Pod, `Get` answers from one of the two where REQ-K8S-290
asks for a conflict. Read-back (`ReadsBack`): an internal port next to an external one
reads back as external (AC-K8S-156), a port whose number occurs twice, once without
visibility, reads back as visible both times (validation compares no ports; this exception
was found when the theorem would not prove without it), a process with nothing in it reads
back as none, memory of 0 or of a multiple of 1024TB reads back in a form that the OpenAPI
pattern does not admit, and memory of 8388608TB or more becomes the largest quantity;
where both bounds do, the limit is not below the request although validation may have let
a minimum above the maximum pass (`Schedulable`).
