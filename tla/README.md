# A TLA+ model of the ggt transform service

The service reads records from Kafka topics, runs each one through a pipeline
of transforms and writes the resulting events to an output topic, to a routed
topic or to a dead-letter topic (DLQ). This directory holds TLA+ modules that
model its parts from the source, TLC configurations that check them on small
instances, and TLAPS proofs of the results that hold for every instance.

## 1. Inventory

| Component | Source | State | Operations |
|---|---|---|---|
| consumer | `internal/consumer/kafka.go` | client in a consumer group, context, current batch, `abortErr`, `errCh`, `done` | NewConsumer, Start (fetch loop), commit per record, Stop |
| record handler | `cmd/transform/main.go` (handler, sendEvents) | none of its own; producer, counters | decode, run the pipeline, deliver, fall back to the DLQ |
| lifecycle | `cmd/transform/main.go`, `internal/shutdown` | root context, registered tasks, worker goroutine | start, signal, coordinated shutdown |
| health and metrics servers | `internal/health`, `internal/metrics` | listener, checks, collectors | Start, Shutdown, count |
| producer | `internal/producer/kafka.go` | client | Send, Close |
| processor | `internal/consumer/processor.go` | semaphore, wait group, shutdown flag | Enqueue, Stop |
| pipeline, event, transforms | `internal/transform`, `pkg/event` | the event on its way | Execute per transform, field get, set, remove |
| aggregate.window | `internal/transform/aggregate/window.go` | windows and timers by key | Execute, timer, ForceEmitAllWindows, Stop |
| aggregate.count | `internal/transform/aggregate/count.go` | windows by key, eviction goroutine | Execute, eviction of idle windows |
| HTTP client, retrier, circuit breaker | `internal/enrichment/http` | breaker state, response cache | Get, Post, Do, Allow, RecordSuccess, RecordFailure |
| enrichment cache | `internal/enrichment/cache.go` | map and LRU list | Get, Set, Delete, Clear |
| Redis client | `internal/enrichment/redis/client.go` | local cache | Get, HGet, Set, HSet, Delete |
| Postgres client | `internal/enrichment/postgres/client.go` | prepared statements in a map, a list and an index | PreparedStmt, Query, QueryRow, Exec, Close |
| condition | `internal/condition/condition.go` | none, a parsed tree | Parse, Evaluate |
| data transforms | `internal/transform/data` | none | Execute of convert, case, split, join, mask, hash, regex, encode, format |
| config, registry, logging, offset manager | `internal/...` | parsed at startup or unused | validate, look up |

How they interact. `main` starts the metrics server, then
`startPipelineWorker`, which makes the consumer, the producer and a goroutine
that waits for the root context, then the health server. The consumer's fetch
loop calls the handler once per record, with a context that ends with
`HandlerTimeout` or with Stop; the handler runs the pipeline of the record's
topic and hands the events to the producer; its nil makes the loop commit the
record, its error ends the loop after the batch. Transforms may hold state
between records (the aggregates) or call clients (the enrichments). The end
comes by a signal or a failing server: the root context is done, the worker
stops the consumer and closes the producer, and `main` shuts the registered
components down in reverse order under one deadline.

What is hard. Group rebalances, crashes and stops between a handler's return
and its commit; batches in which one record fails; several events of one
record of which some are sent; offsets committed for records that live on in
memory only; timeouts in the middle of a delivery; the
shutdown racing the handlers; locks given back between a decision and the
action (the breaker's Allow, the window's emission, the statement lookup, the
cache fill); late timers and late results; caches at their capacity.
`PROJECT.json` lists the hazards by line, with the properties that answer them.

## 2. Modules and their code

Every module opens with a comment on what it stands for and leaves out; the
map in `PROJECT.json` gives the lines of every definition.

**Consumer, OffsetLedger.** `Consumer` is a consumer group of members that run
the fetch loop of `kafka.go`. `pc[m]` is the place of member m in the loop,
`next`/`limit` the rest of its batch, `cur` the partition of the record handed
over last. Actions: Start, Check (the select), Poll and EmptyPoll
(PollRecords), HandleSettled, HandleFailed and HandleCancelled (the handler's
nil, its error, a run with a done context), CommitRecord and CommitFailed,
EndBatch (break off on `abortErr`, or go on), StopCancel and StopClose (the two
halves of Stop), Crash; and of the broker Assign and Move (external). `settled`
and `failed` are history. `OffsetLedger` is what the component promises: an
offset per partition, moved only over records whose handler came to an
outcome. `ImplementsLedger` is the refinement.

**CountTransform, Aggregation.** `CountTransform` has Execute of
`aggregate.count` and one pass of its eviction loop as functions of the
transform's windows: an event is added to its key's window, a full window is
deleted and its result returned (count, sum, avg, min, max of the events'
numbers), an idle window is deleted. `Aggregation` extends `Consumer` with it:
`windows[m]` are the windows in the memory of member m. The handler's step of
Consumer becomes CountEvent (Execute's nil, so the record settles without an
output), Emit and EmitFails (the result is acknowledged, or the window has been
deleted and the send fails), Reject and RejectFails (Execute did not count the
event: the record is dropped or put into the DLQ, or the handler fails). OtherLoopStep is the rest of the loop, Ends a Stop or a
crash with the windows of the process, Evict a pass of the eviction loop and
Tick the clock. `results` and `gone` are history: what was acknowledged, and
which records went without being part of a result. An event's numbers stand for
its payload. Without the windows it is Consumer again (`AggregationRefinesConsumer`).

**RecordHandler.** One invocation of the handler in `main.go`: Decode, the
outcome of `Pipeline.Execute` (drop, error, events), marshalling, marked events
to the DLQ, sending to the output topic, falling back to the DLQ, the counters,
and a context that may be done at any step.

**Condition.** The tokens of an expression, the recursive descent of Parse
(OR, AND, NOT, parentheses, comparison, quoted values) and Evaluate on a
payload. `Holds` is the reference: what a condition tree means, by its logic
alone; `Written` writes a tree as an expression, with or without spare
parentheses. `ConditionsDecide` compares the filter's verdict on the written
and parsed expression with the reference.

**DataTransforms.** `data.convert`, `data.case`, `data.split`, `data.join`,
`data.mask`, `data.hash`, `data.regex`, `data.encode` and `data.format` as
operators on a payload: which values they take, where they write, and what they
leave alone on an error. What library functions make of a text (upper case,
digests, number formats) are constants.

**Pipeline, EventFields.** `EventFields` has the payload tree, with typed
scalars, and the operations of `pkg/event` on it as operators: GetField,
SetField, RemoveField. `Pipeline` runs one event through one of `Pipelines`,
the loop of `Pipeline.Execute`: the next transform returns an event, several,
none or an error, or the context is done. `trace` keeps the
event as it was after every transform. The transforms are operators that give
the set of results they may return: `field.rename`, `field.extract`,
`field.add`, `field.remove`, `field.flatten`, `field.unflatten`,
`filter.split`, `split.array`, `split.regex`, `validate.required`, those of
DataTransforms; `filter.condition`, `filter.route` and `validate.rules`, which
ask the constant `Verdict` for what their conditions say of a payload;
`validate.schema` with any verdict; `enrich.redis`, `enrich.http` and
`enrich.postgres` with any answer of their clients. A key is a sequence of
words, so that the key `a.b` and the path `a.b` are told apart as in the code.
`IsConfigured` is what the Configure functions let through, `IsPayload` what
`Event.Payload` may be: finitely many nodes, with a map at the top and on the
way to every node.

**PipelineConditions.** Pipeline and Condition together: the Configure functions
of the transforms with conditions, which parse their expressions, and
`ConditionsDecide`. Its run puts `Evaluate` in the place of `Verdict`. (Pipeline
itself does not refer to Condition, so that what is proved of it holds for any
verdicts.)

**Lifecycle.** One process: the steps of main, the servers, the worker, the
fetch loop reduced to whether a handler is running, the coordinator's tasks. A
server that is shut down drains: it is closed when its open requests are over
(ServerDrained), or the deadline passes first (DrainTimeout).

**CircuitBreaker, HttpClient.** Allow in its steps (read under the read lock,
decide, take the write lock), RecordSuccess, RecordFailure and the passing of
time. `HttpClient` extends it by the calls: cache, attempts, backoff,
cancellation, outcome, body. `told[r]` is history: what the call of r recorded
since it asked Allow. `BreakerToldOnce` compares it with the outcome of the call.
AbandonPost is the one exception: a Post without retries whose request cannot be
built returns after Allow and records nothing (`client.go:203-205`). `MaxRetries`
may be any integer, as NewClient takes it: with none above zero a call fails
without an attempt (`NoAttempts`).

**LRUCache, RedisClient.** The cache's operations as functions of its value;
the client's goroutines that read through it and invalidate it, step by step.
Delete takes one key or several, which are dropped in Redis at once and from the
cache one after the other. `Expire` is the end of an expiration given to Set or
SetJSON, in Redis, of which the client is not told.

**StmtCache.** The three structures of prepared statements (map, LRU list,
index), lookup under the read lock and preparation under the write lock,
eviction, invalid statements, Close. Use is the end of a call with rows or with
any error but the server's code for an invalid statement; an invalid statement
then stays in the cache. UseInvalid and RemoveInvalidStmt are Query and Exec that
get that code.

**Processor.** Enqueue in its steps (check, slot, wait group, goroutine), the
worker, Stop.

**WindowTransform.** Execute under the lock and the emission after it, the
timers, cancellation of a call's context, ForceEmitAllWindows and Stop.
emitWindowResults is two steps: under the lock the result is made and the window
removed (ExecuteEmits, TimerEmits), and after it the result goes to `emitFunc`,
if there is one by then (ExecuteDelivers, TimerDelivers). `results` keeps every
result event with its place: still with its call or timer, offered to emitFunc
(whose error is ignored) or dropped for want of one. `emitFunc` is
nil until SetEmitFunc, which is "for testing" (`window.go:405`) and has no caller
in the service: there every result is dropped.

`MC*` modules instantiate these for TLC. `*Proofs` modules hold theorems.
Definitions named after a fault (their comment begins "Fault in") are not part
of any specification: they are the plausible bugs the properties are tried
against, one at least for every property.

## 3. Runs

| Run | Instance | What it shows |
|---|---|---|
| consumer_group | 2 members, 1 partition of 3 records, fetch of 2, two faults, a move | no committed offset passes a record whose handler did not come to an outcome; offsets go back only after a live owner has lost its partition; the loop implements the ledger; every record is handled in the end unless its partition sits with a member whose loop broke off |
| aggregation | 2 members, 1 partition of 3 records of 2 keys, fetch of 1, windows of 2, a fault, a move | commit on success holds; a committed record is in a result, in an open window or among those gone; without redelivery no record is counted twice; a result is that of its events |
| consumer_batch_loss | 1 member, 1 partition, fetch of 2 | violated: see the findings |
| record_handler | up to 3 events | nil means that everything was delivered, an error that something was not; the counters agree |
| pipeline | 5 payloads, every pipeline of up to 3 of 25 configured transforms or of 3 of 23 data transforms, pairs of both kinds, conditions of up to three comparisons | a move whose targets keep clear neither loses nor doubles a value; unflatten undoes flatten; marks for DLQ and route stay; a split gives every item its event; a filter decides as its condition's logic does |
| lifecycle | one process | handlers have their clients, an exit before the deadline is clean, a done context ends the process, whatever requests the servers still have |
| http_client | 2 callers, thresholds 2 and 2, 2 attempts | the breaker is told one outcome of every call it let through, except of a Post that cannot be built; its counters fit its state, it is not probed early, does not stay open, and closes in front of a healthy service; bodies are closed, calls end |
| redis_client | 2 goroutines, colliding names, a cache of one | map and list in step; staleness has one of four causes and heals |
| stmt_cache | 2 goroutines, 3 queries, 2 places | the three structures and the open statements in step, a statement in a call's hands is closed only to make room, by Close or as invalid, and a call that was told so leaves the invalid one closed |
| processor | 4 calls, 2 slots | accounting exact, Stop drains, calls return |
| window | 2 keys, 3 events, 2 concurrent calls, an emitFunc from any time on or never | every event is in one window or one result; no full window is left behind; the maps agree; what is in a window while there is an emitFunc is offered to it unless Stop or the opener's context prevents it |
| window_context | 1 key, 2 events, one call at a time | violated: see the findings |

**Why the bounds are enough.** Two members and a move give every order of an
old owner's commit and a new owner's poll; a batch of two has a record after
the failed one, and a fault falls at every point of the loop. Several
partitions add the order of a batch only; the theorems on Consumer cover them.
In `aggregation` two records of one key fill a window with one of another key
between them, so that a window is open at every commit, crash and move; one
tick is longer than the idle timeout, so a window may become idle anywhere.
Its members are symmetric, and it asks for safety only. Three events
give a success before, and one after, a failure. With two callers one can be
inside Allow while the other records, and thresholds of two tell "one" from
"enough". The payloads have two and three levels, a dotted key beside a nested
field of the same name, an empty map, an empty array and a null; three
transforms let one leave behind what the next two meet. Three comparisons under
AND, OR and NOT are what precedence and associativity can go wrong on, and the
quoted values hold the words and signs the parser splits at. One place in the LRU cache, and two for three queries, make every
insertion evict. Four calls on two slots have two running and two blocked. Two
keys and three events have a window refilled while its former timer still runs.
Counters that only grow are capped: `MaxFaults`, `MaxMoves`, `NumRecords`,
`CountCap`, `MaxWrites`, `MaxPrepares`.

**Fairness.** Weak fairness stands for the Go scheduler: a goroutine that is
not blocked goes on. Beyond it: polls that are repeated return the records
there are (`SF` on Poll: the client keeps fetching); a sender blocked on a
channel gets a slot that becomes free again and again (`SF` on Acquire: Go
serves waiting senders in order); timers that are due fire; handlers end (they
run under `HandlerTimeout`), except in `MainFairSpec`, which assumes nothing of
handlers, worker and open requests so that `SignalEnds` shows the deadline at
work. `HealthyCloses` states its own premises (from some time on no failure is
recorded, and calls succeed again and again) instead of assuming them. No
fairness is assumed on success: on the handler's verdict, on commits, on
answers of servers, on restarts, on further events.

**Deadlock** is not checked where the system may stop: when records, events or
faults are used up, and after exit.

## 4. Proofs

Proved by TLAPS, for every value of the constants that satisfies the named
assumptions of the modules:

- `ConsumerProofs`. The inductive invariant is the conjunction of `TypeOK`,
  `BatchShape` (a batch is an interval, and a record due for commit is its
  latest), `DownShape` (a member that is down holds no batch), `BatchCovers`
  (what lies before a batch's next record was handled), `PositionCovers` (a
  fetch position covers handled or fetched records only) and `CommitCovers`.
  The middle parts are needed because a commit may come from a member that has
  lost the partition: what it commits is justified by its batch, not by the
  group's state. Theorems: `TypeCorrect`, `CommitsAreCovered`,
  `RefinesLedger`, `CommitsGoForward` (committed offsets do not go back while
  no live member has lost a partition) and `SingleFetchLosesNothing` (with
  `FetchMax = 1` the code is commit-on-success).
  Then, of the composition Aggregation: `AggregationRefinesConsumer`, every
  step of Aggregation is a step of Consumer or leaves its variables alone, so
  the theorems above hold of it. `CommittedRecordsAreSomewhere`: with
  `FetchMax = 1` a committed record is in an acknowledged result, in an open
  window of a live process, or gone. The invariant `AInv` is `TypeOK`,
  `WindowsShape` (windows are functions from keys to sequences of events, which
  the reasoning on Append and EXCEPT needs) and `SettledIsSomewhere`, which
  speaks of settled records rather than committed ones, because a record is
  settled a step before its commit; that committed records are settled is
  `NoLoss`, which comes over from Consumer by the refinement. The lemmas follow
  a record through Execute (the window it joins, a full window's result) and
  eviction. `RecordsAreCountedOnceWithoutRedelivery`: as long as nothing makes
  the group deliver a record again, no record is counted at two places. "At
  most one place" is not inductive; it holds because a record is handled once,
  so the invariant `CInv` adds, for that time, `FirstOwners` (only the
  owner of a partition has records of it in its batch, and a partition without
  an owner never had one) and `CountedIsPast` (a counted record was polled and
  is not still to come) to `OnceOverall`.
  `ResultsAlwaysAddUp`: a delivered result stands for exactly `Count` events of
  its key, and if the aggregations have different names every value in it is the
  sum, count, average, minimum or maximum over just these. The invariant `PInv` has `Partial` of every open window:
  fewer than `Count` events, all of the window's key, as many as it says, and
  running states that `Fit` the events so far (`AddsUp`: the sum, the number of
  numbers, the least and the greatest of them). The running states, and the
  fields of a result, are folds over the configured aggregations; what a fold
  computes is proved by exhibiting the function that the library defines it by,
  for any number of items (`UpdateFolds`, `ResultFolds`, `SumsExist`), and then
  by induction over the items. Induction is lemma `Induction`, for a set of
  numbers, from the well-foundedness of `<`: no operator has to be instantiated.
  `AggregationsAssumption` says that there are aggregations, each with one of
  the five functions, `InputAssumption` that an event has at most one key and
  that its numbers are whole.
- `CircuitBreakerProofs`. `CountersAlwaysFit` and `NeverEarlyProbe`, from
  `CountersFitState` with the type invariant and the snapshot's age. Of the
  client: `ClientsBreakerIsSound`, the same two of the breaker inside the client,
  by the lemma `BreakerInClient` (a step of a call is a step of the breaker or
  leaves it alone). `BreakerIsToldOnce` and `BodiesAreClosed` rest on the
  invariant `HInv`: `TypeOK`, `ClientShape` (the types of the call's variables),
  `StepFitsBreaker` (how far the call is, where the breaker has it, which outcomes
  are possible there and what has been told so far; inside Allow too, where
  `BreakerToldOnce` says nothing) and `OneBody` (at the result too a body is open
  just if there was a response).
- `ProcessorProofs`. The invariant is `TypeOK`, `PoolAccounted`, `TaskShape`
  (a call that has its slot has no goroutine yet) and `StopDrains`. Theorems:
  `PoolIsAccounted`, `StopAlwaysDrains`.
- `RecordHandlerProofs`. The invariant adds to `TypeOK`, `NilMeansSettled` and
  `ErrorMeansUnsettled` what the loop over the events knows at each place:
  `BeforeDelivery` (nothing has been acknowledged), `InDelivery` (each event
  before the current one is delivered or among the failed indices, and nothing
  is known of the others) and `InFallback` (the current event was meant for the
  output topic and is one of several). The result depends
  on the failed indices only at the end, so the two properties are not
  inductive without them. Theorems: `HandlerTypeCorrect`,
  `NilAlwaysMeansSettled`, `ErrorAlwaysMeansUnsettled`, and
  `RecordsAreCountedOnce`, from the counters' values at the places the handler
  returns from (lemma `CountersSoFar`).
  The second half is about Pipeline, for any payloads (of any width, and of up to
  the 100 levels at which `flatten.go` cuts off), configured pipelines, answers and verdicts. Its lemmas go up in layers.
  *Trees*: `TreeByNodes` restates `IsTree` by what is on the way to a node;
  `SetFieldNodes`, `RemoveFieldNodes`, `SubtreeIsTree` say node by node what
  the operations of `pkg/event` leave, and that they leave trees. *Folds*:
  rename, remove and unflatten are folds; `RenameRun`, `RemoveRun` and
  `UnflattenRun` turn each into a run, a function with the value after every
  item, over which `Induction` works. *Names*: `DottedConcat`, `DottedOfPath`
  and `PlainNode` on dotted names, themselves folds over the keys. *Results*:
  `ResultsAreRight`, transform by transform, what may come back. The invariant
  `PipelineInv` says that every event of the trace is one the transform before
  it returned, that headers only grow along the trace, and that events that are
  out are those of the latest transform, one for each item (`AreItsEvents`);
  the properties speak of the returned result only, two steps later.
  Theorems: `PipelineTypeCorrect`, `MarksAlwaysStay`,
  `EveryItemAlwaysGetsItsEvent`, `ReturnedEventsAreThere`;
  `UnflattenAlwaysUndoesFlatten`, where after k keys unflatten has rebuilt
  exactly the ways to the first k values (`IsPart`); and
  `MovesAlwaysKeepValues`, where the nodes that hold a value before and after
  correspond one to one: a single move by `MoveKeepsHolders`, a rename by the
  invariant `RenameGoes` of its run (a target is there only if it was before or
  an earlier mapping made it, and `NoConflict` leaves one mapping for it), a
  flatten by the dotted names, an unflatten by `Placed` (the keys so far are
  taken apart, and nothing is in the way of the next).
- `LifecycleProofs`. The invariant has `RegisteredSoFar` (how many components
  are registered at each step of startup), `KnownToCoordinator` (a server
  that serves or drains and a running worker are registered), `BeforeWorker` (worker and loop
  begin together, after the clients), `ClientsOutliveLoop` and `DownSoFar` (the
  components behind the coordinator's position are down). `CleanExit` needs
  the second and the last, since it speaks of servers and clients and the
  coordinator only of registered tasks. Theorems: `LifecycleTypeCorrect`,
  `HandlersAlwaysHaveClients`, `ExitIsClean`. The lemma `CleanupNeverReturns`
  is the hang after a failed NewProducer.
- `WindowTransformProofs`. The invariant `WInv` is `TypeOK`, `BegunHaveKeys` (a
  call that has begun has its key), `EventsInWindows` (a window holds taken
  events of its key), `EventsInResults` (an event of a result is in no window and
  in no second result), `EventsSomewhere` (a taken event is in one of the
  two), `OpenersOpen` (the event that opened a window is in it),
  `FullWindowGetsEmitted` and `TimerBelongsToWindow`. The cardinalities of
  `CountedInOneWindow` are not inductive as they stand: they follow from
  disjointness at the end, and from the delivery of a result changing its place
  only (`DeliverStep`). Theorems: `EventsAreCountedOnce`, which is about the
  result events and not about their emission, `FullWindowsGetEmitted`,
  `TimersBelongToWindows`.
- `StmtCacheProofs`. The lemmas on lists without repetition (what removing an
  element, pushing to the front and dropping the last leave) carry the
  invariant `SInv`: `TypeOK`, `Fits` (map, list and elements have the same
  queries, the list each once, and the open statements are those of the map,
  each under one query), `CallShape` and `HeldIsCached` (an open statement in a
  call's hands is the one cached under its query). `CachesInStep` compares
  sizes; that the list repeats nothing is what is inductive. Theorems:
  `StmtTypes`, `StmtCachesStayInStep`, and the action properties
  `StatementsAreClosedForRoom` and `RemovalAlwaysSettles`. The last one needs
  `HeldIsOlder` too: the statement cached under a query is never older than the
  one a call of that query has in hand, since others may have removed and
  prepared again between the server's answer and the lock.
- `RedisClientProofs`. The same lemmas on lists, for the LRU cache. The
  invariant `RInv` is `TypeOK`, `Fits`, `Honest` (what is cached under a key
  was read from a place of that name), `ReaderHasPlace` (a goroutine that reads
  has a place to read) and `StaleExplained`: what a reader fills in is as new
  as Redis's, or overtaken and then excused. Theorems: `CacheStaysInStep`,
  `StaleIsExplained`.

Only model-checked:

- every liveness property (`EventuallyHandled`, `SignalEnds`, `Recovers`,
  `HealthyCloses`, `CallsEnd`, `StaleHeals`, `CallsReturn`,
  `EmittedUnlessOpenerCancels`): liveness under fairness is beyond this prover;
- `ConditionsDecide`: the parser of conditions is a recursive operator, and a
  module that reaches one has no SMT backend. That is why `Verdict` is a
  constant of Pipeline: everything else about pipelines is proved for any.

## 5. Findings

1. **A failed record in a batch is lost** (`consumer_batch_loss`). A handler
   error returns from the record's closure only; a later record of the same
   partition succeeds and its commit places the offset above the failed one.
   Comments at `kafka.go:191` and `:197` promise commit-on-success. With
   `FetchMaxRecords = 1` the promise holds (`SingleFetchLosesNothing`).
2. **A window is never emitted by age in the service** (`window_context`). The
   timer keeps the context of the call that opened the window, which the fetch
   loop cancels as soon as that record is done.

Further observations, met while modelling:

- A fetch loop that broke off on a handler error is not started again: nobody
  reads `Consumer.Errors()`, the worker waits for its context only and the
  health check stays green. `EventuallyHandled` excludes exactly this state.
- After a failing NewProducer the deferred Stop waits for the `done` channel of
  a consumer that was never started: the process hangs (Lifecycle, `cleanup`).
- `health_port: 0` passes validation and then ends the process at startup.
- A handler may start after `Processor.Stop` has returned nil, for a call of
  Enqueue that passed the shutdown check before it; Stop drains what was in
  flight when it was called, no more.
- A timer that expired before it was stopped, or a call on its way to emit a
  full window, emits the key's next window early.
- In the service no result of `aggregate.window` reaches anyone: `emitFunc` is
  set by SetEmitFunc only (`window.go:405`, "for testing"), and a window whose
  result is dropped is removed all the same. emitWindowResults ignores the error
  of emitFunc, ForceEmitAllWindows returns it with the windows gone.
- A Post without retries whose request cannot be built is let through by the
  breaker and never reported to it (`client.go:203-205`). A `MaxRetries` of zero
  or less is not refused: every Get and every retried Post then fails at once and
  counts as a failure of the service.
- An event of a multi-event result that falls back to the DLQ is not counted
  in `MessagesSentToDLQ`.
- Field `b` of the hash `a` and the string `a:b` share a Redis cache key;
  Delete of a hash leaves its fields cached; a fill that races a write puts the
  older value back, until it expires. A key that has expired in Redis is served
  from the cache until the cache's own TTL is over.
- PreparedStmt may return a statement that was evicted and closed between the
  two locks; removeInvalidStmt closes whatever statement the query has now;
  QueryRow never removes an invalid one, and Query and Exec leave it cached when
  they fail on it with another error (a done context, a lost connection).
- `field.rename` checks for conflicts against the payload before any of its
  renames. It still loses values when a target lies inside its source, below a
  value, or is made by an earlier mapping, when the target is empty, and for a
  self-rename, which the comment at `rename.go:47` calls a no-op and which
  removes the field. `KeepsClear` in `Pipeline` is the condition under which
  `MovesKeepValues` holds. `field.extract` with a target inside its source, and
  `split.array` with a key inside its field, lose the value likewise.
- `field.flatten` and `field.unflatten` write fields of the same dotted name
  over each other; flatten in the order of a Go map, so at random. Empty maps
  vanish in a flatten. In an unflatten the key `a.b` overwrites a field `b` that
  the key `a` has brought along in its map, whose value is lost although the
  comment at `unflatten.go:69` says that this should not happen; `NamesApart` is
  the condition under which `MovesKeepValues` holds.
- A result of `aggregate.count` is a new event without headers: marks for the DLQ
  or of a route set before it are gone (`MarksStay` is about the other transforms).
- A transform after a split gets the list of events and fails the record.
- No code of the service calls RegisterRedisEnrichment, RegisterHTTPEnrichment
  or RegisterPostgresEnrichment: the enrichments work, but a pipeline that names
  one is refused at startup.
- The Retrier sleeps once more after its last attempt.
- A record that is delivered again is counted again in the windows of the
  member that gets it: `docs/architecture.md:11` says that retries do not
  corrupt shared state. `CountedOnceWithoutRedelivery` is what remains true.
- `aggregate.count` deletes a full window before its result is sent: if the
  send fails, the redelivered record starts a new window and the others are
  gone. Idle windows are deleted without a result, their records committed.
- The key of a count window is the text of the value, so 1 and "1" share a
  window; aggregations with the same `as` share their state. An `IdleTimeout`
  of 1 to 3 ns, or a negative one, makes NewTicker panic. `aggregate.window`
  emits its minimum and maximum as pointers.
- A condition's `==` and `!=` compare the texts of the values, so the number
  1000000, printed as 1e+06, is not equal to 1000000 while `<=` and `>=` hold. A
  quoted value with an unbalanced parenthesis is misread inside parentheses.
- `data.mask` with a target of its own leaves the source unmasked.
- `Condition` and `Branches` of a transform (`config.example.yaml:107-125`) are
  validated and then ignored by NewPipeline.

## 6. Not modelled, and the plan

Not modelled: logging (output only); the registry (a map filled by init
functions); the offset manager (unused by the service); `pkg/event/builder.go`
(fixtures of tests and examples); the reading of the configuration (viper, whose
results the modules take as constants); HTTP handling of the servers; what
franz-go, Redis, Postgres and the HTTP servers do inside (they appear as the
nondeterminism the code has to cope with); what regular expressions, digests,
JSON schemas and number formats compute (constants, or any verdict).

The order of the work was: the path of a record (Consumer, RecordHandler), the
process around it (Lifecycle), the concurrent parts it uses (CircuitBreaker,
HttpClient, Processor, WindowTransform, RedisClient, StmtCache), the pure parts
(EventFields, Pipeline, Condition, DataTransforms), and the composition of the
consumer with state in memory (Aggregation); then the proofs, in the same order.
What would come next:

1. Condition's parser and evaluation as recursive functions on a bounded set
   of expressions, for a proof of `ConditionsDecide`.
2. What validation of the configuration lets through.
