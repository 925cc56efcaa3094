# Verification of observad

TLA+ models of observad (the log service in `src/backend`) and of the parts of
its web UI (`src/frontend`) that run concurrently with it, TLC configurations
that check them on small instances, and theorems that the TLA+ proof system
checks for every value of the constants. Every definition is
translated from the source; `PROJECT.json` gives the lines of each one (`map`),
the runs, a mutant of the code for every property, the hazards and the theorems.

## The system

observad takes logs by HTTP, buffers them in a Redis stream, writes them into
ClickHouse in batches, and serves searches, statistics and a live tail.

    POST /api/v1/logs -> rate limiter -> handleIngest -> Buffer.Push
                                                            |  XADD
                                              Redis stream + consumer group
                                                            |  Claim
    search, stats <- ClickHouse  <- InsertBatch <-  writer workers -> Ack
                                                            |  Broadcast
    browser (useTail) <- websocket <- handleTail <- Hub subscriber channel

| Component | State | Operations |
|---|---|---|
| Ingest buffer (`ingest/buffer.go`) | the Redis stream and the group's pending entries list (PEL) | `Push`, `Claim` (XAUTOCLAIM, XREADGROUP "0", XREADGROUP ">"), `Ack` |
| Writer (`ingest/writer.go`) | per worker: the batch, its stream ids, the point in the loop | loop, `flush`, shutdown |
| ClickHouse schema and store (`migrations/001_init.sql`, `store/clickhouse.go`) | table `logs` (deduplicated by id), `logs_by_minute` (counts, fed by a materialized view) | `InsertBatch`, `Search`, `Stats`, `ApplyRetention` |
| HTTP API (`httpapi/`) | requests in flight | ingest, search, stats, tail, health, metrics |
| Rate limiter (`httpapi/ratelimit.go`) | a Redis counter per API key and its expiry | `allow` |
| Hub (`realtime/hub.go`) | subscribers, a channel of 256 logs each, an RWMutex | `Subscribe`, cancel, `Broadcast` |
| Tail handler (`httpapi/websocket.go`) | per connection: select loop, read loop, ping ticker | `handleTail` |
| Process (`cmd/observad/main.go`) | up, stopping, down | start, signal, drain, exit, crash |
| Tail client (`hooks/useTail.ts`, `TailPanel.tsx`) | React state, refs, sockets, a retry timer | effect, cleanup, socket callbacks, button |
| Memory store (`store/memstore.go`) | logs in memory | the same operations as ClickHouse; the fallback when ClickHouse is down at start |
| Query parser and log model (`query/`, `model/`) | none | `Parse`, `Clamp`, `Sanitize`, `NormalizeLevel` |
| Configuration (`config/config.go`) | the environment | `Load` |
| Log explorer (`useFilters.ts`, `useSearch.ts`, `providers.tsx`, `LogsTable.tsx`, `FilterPanel.tsx`) | the URL, the filters of the last render, cached pages, fetches under way | clicks, rendering, fetching, retrying |

How they interact: handler and writers share nothing but Redis; workers share
the Redis group, the store and the hub; the hub meets handlers only through its
lock and the channels; browser and process meet only through the connection.

What is hard here:

- a worker can die, fail or be slow between any two of *claim, insert,
  acknowledge, broadcast*, and another one takes its entries over after 30 s;
- one `Claim` is up to three Redis commands, each of which can fail, or take
  effect and lose its reply; the client library then sends it again;
- the stream is bounded, so entries vanish that nobody has read, or that are
  pending;
- broadcasts of several workers run concurrently with handlers that subscribe,
  close their channel and write to clients that do not read;
- the rate limiter's two commands are not atomic;
- inserts fail after a part of the rows is in, or counted, and come twice;
- the statistics are read by minute from a table that counts every insert, in
  three queries, while rows expire by two different times to live;
- React runs effects, cleanups, socket callbacks and timers in many orders;
- pages are cached, fetched late and retried while logs arrive and the range
  "the last hour" moves on.

What makes the parts correct, with the properties that say it:

| Part | Correct when | Properties |
|---|---|---|
| Write path | what was answered 202 or 207 is stored unless the stream overflowed | `NoSilentLoss`, `EventuallyStored` |
| | only stored logs are acknowledged, only acknowledged ones tailed | `SettledIsStored`, `TailedIsSettled` |
| | it is at-least-once delivery out of a bounded buffer | `ImplementsDelivery` |
| | nothing stays pending for ever, whoever it was delivered to | `EventuallySettled` |
| | no two live workers hold one entry; a batch is bounded; a shutdown drops none | `OneHolder`, `BatchBounded`, `NoBatchDropped` |
| Read side | what was inserted can be found by what the client wrote, in a range up to the next whole second, until it is too old | `Findable` |
| | the two stores mean the same by a filter | `StoresAgree` (violated) |
| | they do but for the second of a bound | `AgreeToTheSecond` |
| Statistics | a log counts once | `CountedOnce` (violated) |
| | reading by minute is off by less than a minute | `RollupWithinMinute` |
| | an answer from three queries lies between two states of the tables | `StatsBetween` |
| Hub, tail handler | no send on a closed channel, order kept, a slow client hurts only itself, subscriptions end | `NoSendOnClosed`, `InOrder`, `NothingSkipped`, `BroadcastReturns`, `Unsubscribed` |
| Rate limiter | a bounded burst, and whoever is refused recovers | `Burst`, `ExpiryOwed`, `RecoversOrForgot`, `Recovers` (violated) |
| Log explorer | the table shows what the filters ask for, the next page skips nothing that has not been pushed out, an empty page has a way back, the page comes to rest | `HonestTable`, `NoGap`, `WayBack`, `Settles` |
| Tail client | one connection, the truth about it, reconnecting, starting | `OneConnection`, `HonestState`, `Reconnects`, `StartConnects` (violated) |

## Modules

| Module | Models | Kind |
|---|---|---|
| `RedisStream` | the stream and its group, one operator per Redis command | component |
| `IngestPipeline` | handler, buffer, workers, tables and process around `RedisStream` | composition |
| `LogDelivery` | what the write path promises | abstract specification |
| `MCIngestPipeline` | symmetry of `IngestPipeline` | for TLC |
| `IngestPipelineProofs`, `OneHolderProofs` | theorems of `IngestPipeline` | for TLAPS |
| `LogQuery` | logs, queries, filters, pages and figures, without state | operators |
| `ReadSide` | posting, the two stores, configuration and statistics on `LogQuery` | composition |
| `MCReadSide` | requests, parameters and settings of `ReadSide` | for TLC |
| `LogExplorer` | the explorer in the browser on the search of `LogQuery` | composition |
| `MCLogExplorer` | logs and URLs of `LogExplorer` | for TLC |
| `LogQueryProofs` | theorems of `LogQuery`: filters, pages, sums | for TLAPS |
| `ReadSideProofs`, `LogExplorerProofs` | theorems of `ReadSide` and `LogExplorer`, on those of `LogQuery` | for TLAPS |
| `TailHub` | hub, its lock, tail handlers and their clients | component |
| `MCTailHub` | filters of `TailHub` | for TLC |
| `RateLimiter` | the limiter for one key | component |
| `TailClient` | the hook and the panel | component |
| `TailHubProofs`, `RateLimiterProofs`, `TailClientProofs` | theorems of these three | for TLAPS |

### RedisStream and IngestPipeline

An entry is its position in the stream. `first`, `added`, `delivered` and `pel`
are what XADD, MAXLEN, the group's last-delivered-id and its PEL are; `stale`
holds the pending entries idle for `stalePendingAfter`. Trimming is
approximate, so XADD moves `first` by any amount that leaves `MaxLen` entries.
Entries below `first` keep their place in the PEL, as in Redis: XAUTOCLAIM
deletes them, XREADGROUP "0" returns their ids without a log, and `Claim`
passes those ids on only together with a real log.

A worker's `pc` names the point it has reached: `loop` (first select), `idle`
(second select, after an empty claim), `stale`, `own`, `new` (the three
commands of `Claim`, each its own step because other connections come between
them), `insert`, `ack`, `tail` (the stages of `flush`), `exited`. `batch` and
`batchIDs` are the worker's variables, `logs` and `ids` those of `Claim`,
`after` is where `flush` returns to: `flush` has five call sites.

| Code | Actions |
|---|---|
| `handleIngest`, `Buffer.Push` | `StartIngest`, `PushEntry` (one XADD of the pipeline), `RespondAccepted`, `PushFails`, `PushRetry` |
| worker loop | `SeeDone`, `Tick`, `WaitOver`, `BeginClaim` |
| `Buffer.Claim` | `ClaimStale`, `ReadOwn`, `ReadNew`, `ClaimFails`, `ReplyLost` |
| `flush` | `Insert`, `InsertFails`, `Ack`, `AckFails`, `Broadcast` |
| `run`, container | `Start` (with any number of the workers), `Signal`, `Exit`, `Crash` |
| the clock | `Age` |

The branch for a full batch before `Claim` (`writer.go` 128-133), with its
pause between two inserts, has no action: `BatchBounded` shows, and a theorem
proves, that no state takes it. A failed insert may have stored any part of the
batch, and the view may have counted any part of that. Faults are a constant,
so that a run can say which failures it is about.

### LogDelivery

Logs enter a buffer, are answered for, stored, settled and shown. A log settles
only when stored or dropped, is dropped only when `Capacity` newer ones have
come, and is shown only when stored and settled. The refinement mapping is
`pushed <- added`, `dropped <- 1..(first - 1)`, `settled <-` delivered and no
longer pending. Claims, failures, shutdowns and crashes map to stuttering.

### TailHub

Readers of the lock are workers inside `Broadcast`; `writer` is the tail that
has called `Lock` and holds it once the readers have left; `queued` are the
readers that came after it (Go's RWMutex lets none of them past). One step is
one pick of `range h.subs`, one send, or the move to the next log. The handler
goes `subscribe`, `select`, `write`, `cancel`; a client may hang up at any
point (`peer`), and a write may succeed or fail wherever the client is. `out`,
`since`, `got` and `missed` are history variables for the properties.

### RateLimiter

`Incr` and `Expire` are the two commands of `allow`. `ReplyLost` is an INCR
that took effect without an answer. `forgot` remembers that the request which
read 1 will not set the expiry. The counter saturates above `Limit`, where its
value no longer matters. `recent` counts what was let through in the last
`Window` ticks.

### TailClient

`options` are those of the last render, `ran` those of the effect that ran
last: React runs effects after the render, so that callbacks come in between.
Sockets and the timer keep the options of the `connect` that made them, as the
closures do. `unmounted`, `wsRef` and `retry` are the refs of the hook.

### LogQuery

Time is a number of ticks, a tick being a millisecond or more, which is what
the column `timestamp`, a `DateTime64(3)`, keeps; `Second` and `MinuteLen` say how
many make a second and a minute. `NoTime` is the zero `time.Time`. `Bind` is what
becomes of a `time.Time` on its way into ClickHouse: clickhouse-go writes an
argument for a positional `?` in whole seconds. A message is the set of words a search may
look for. A request's parameters are what splitting and trimming make of them:
a time is missing, an instant, a duration ago or malformed; `Parse` and `Clamp`
do the rest, with every error in `ParseFails`.

`Where` is `buildWhere`, `Matches` is `matches`, written as the code writes
them: the one lists what must hold, the other what excludes. `Where` and
`RollupWhere` compare with the bounds that `Bind` leaves, `Matches` with the bounds
themselves. `Heads` gives the
sets of rows that the first n may be under `ORDER BY timestamp`, because rows
with one timestamp come in any order; a page is the difference of two of them
(`Slices`). A table of statistics is a function from cells (minute, level,
service) to counts, whether it comes from `logs_by_minute`, from table `logs`
or from memory.

### ReadSide

| Code | Actions and operators |
|---|---|
| `config.Load`, `openStore`, `ApplyRetention` | `Start` with `LoadFails`, `OpenClickHouse`, `OpenMemory` |
| the end of the process, by a signal or a crash | `Stop` |
| `handleIngest` with `Sanitize` | `Post` |
| `ClickHouse.InsertBatch`, the materialized view | `InsertBatch`, `InsertFails` |
| `MemStore.InsertBatch` | `MemInsert` |
| TTL of both tables | `Expire`, for any of the rows that are old enough |
| `handleStats`, `Stats` | `AskStats`, `StatsFromRollup`, `StatsFromRaw` (a query each), `MemStats`, `RespondStats` |

`entries` is what the handler has pushed. How an entry gets from there to an
insert is `IngestPipeline`'s business: here a batch is any set of entries, new
or inserted before, which is what the write path's properties allow. `raw` is
table `logs` as `FINAL` shows it; a row is replaced by a later one of the same
id. `ApplyRetention` executes two ALTERs, with intervals in whole seconds, and
may stop after the first. If the rollup is then kept for less than a minute
longer than the logs, one of its rows may expire before the logs it counts
(`torn`): it expires by the start of its minute, a log by its second (`Outlived`).
`inserted`, `sent`, `doomed`, and `before` and `calm` of a request, are history.

### LogExplorer

`url` is what `router.replace` has set, `filters` what the last render has read
from it: handlers start from `filters`. `cache` holds TanStack's queries by key:
the data with its time, the error, and the fetch under way (`sent`, `answered`,
with the number of the attempt). An answer remembers, as history, when it was
`read`, the logs `seen` in the table then and those `found`. `prev` is the page that `keepPreviousData`
leaves on screen. A fetch takes its snapshot of the table in `Answer` and arrives in
`Receive`, with anything in between. `Page`, `PageCount` and `Shown` are those
of `LogsTable`.

## Runs

| Run | Properties | Instance | Shows |
|---|---|---|---|
| `reclaim` | `TypeOK`, `SettledIsStored`, `TailedIsSettled` | 2 workers, 2 entries pushed one by one, batch 2, stream 2, 1 stop; slow workers, failing inserts and acks | two workers taking entries from each other settle nothing that is not in the tables |
| `faults` | `NoSilentLoss`, `BatchBounded`, `NoBatchDropped`, `ImplementsDelivery` | 1 worker, 3 entries in a stream of 2, 1 stop; every fault but slowness | nothing acknowledged is lost but by overflow; a shutdown flushes; the refinement |
| `progress` | `OneHolder`, `EventuallyStored`, `EventuallySettled` | 2 workers, 1 entry, 2 stops, fair | a worker's entries are its own for 30 s; progress across failures and restarts with other workers |
| `rollup` | `CountedOnce` | 1 worker, 2 entries, no fault | **violated**, see Findings |
| `fanout` | `TypeOK`, `NoSendOnClosed`, `InOrder`, `NothingSkipped`, `BroadcastReturns`, `Unsubscribed` | 2 workers, 2 tails, 2 levels of which every tail wants one, 2 logs, channel of 1, fair | fan-out under concurrent subscribing and cancelling; broadcasts return, subscriptions end |
| `limiter` | `TypeOK`, `Burst`, `ExpiryOwed`, `RecoversOrForgot` | 2 requests, limit 2, window 3; every fault | at most twice the limit in any window |
| `lockout` | `Recovers` | the same | **violated**, see Findings |
| `reconnect` | `TypeOK`, `OneConnection`, `HonestState`, `Reconnects` | 3 sockets, 2 queries, 3 changes, 2 lines | the hook between two cleanups |
| `starttail` | `StartConnects` | the same, the tail off at first | **violated**, see Findings |
| `reads` | `TypeOK`, `Findable`, `RollupWithinMinute`, `StatsBetween`, `AgreeToTheSecond` | 2 entries, ticks 0 to 4, a second of 2, a minute of 4, 2 calls to a store, 3 requests for statistics, 3 settings | the read side over inserts that fail half way or come twice, expiry and restarts |
| `seconds` | `StoresAgree` | the same, 1 call | **violated**, see Findings |
| `explorer` | `TypeOK`, `HonestTable`, `NoGap`, `WayBack`, `Settles` | 3 logs, pages of 1, ticks 0 to 1, 2 clicks, 2 failures, fair | paging there and back while logs arrive, the range moves on, pages stay cached and requests fail |

Why these bounds are enough. Two workers are needed for taking over and two are
all one entry can be torn between. Two entries make a batch of two, a batch that
is not full, and an entry delivered while another is pending; the third one of
`faults` makes a stream of two overflow with an entry pending. A batch of 2 is
the smallest that is neither always full nor always empty, and two stops let a
restart leave the owner of a pending entry out. `ScanFactor` keeps its real
value 10, which is never the limit for so few entries; the proofs do not depend
on it. For the hub, a channel of one is full after one log, two logs let it be
full for the second, and two workers make two broadcasts overlap. Three sockets
are one that closes late, one that replaces it, and one more.

For the read side, two logs of one id or of two are enough for a row that
replaces another one; one of the requests pairs a sound log with a refused one
and one is of an unknown level and from too far ahead. A second of two ticks has
an instant that is whole and one that is not, a minute of two seconds a first and
a last second. The parameters have a range of whole seconds that begins in one
minute and ends in the next, a search with levels on its second page, and a range
that begins within a second and is refused until the clock has come to its end. Two calls are two inserts, an insert and
its repetition, or an insert before, between or after the three queries of one
statistics request. The settings are the defaults, a retention of two seconds and
a half without the fallback, and one that `Load` refuses. In `explorer`, pages of one, three logs
and two clicks are three pages there and back, one of them emptied by the range
moving on; two failures are one request that is given up, or two that are
retried.

`MaxStops`, `MaxEntries`, `MaxPush`, `MaxCount`, `MaxLogs`, `MaxBatch`,
`MaxChanges`, `MaxNow`, `MaxAge`, `MaxCalls`, `MaxClicks` and `MaxFailures` bound
the models only; no property uses them as an escape.

Workers are interchangeable in `reclaim`, which uses symmetry; the runs with a
liveness property use none. Deadlock is checked everywhere except in
`reconnect` and `starttail`, where a component that was removed from the page
does nothing more, and in `reads` and `explorer`, which end when clock, calls
or clicks are used up and there is nothing left to do.

## Fairness

- `IngestPipeline!FairSpec`: a goroutine that can run does, requests end, the
  clock goes on, and the container is restarted (`docker-compose.yml`,
  `restart: unless-stopped`). Strong fairness for the ticker's case, because
  `select` chooses at random among ready cases, and for `Insert` and `Ack`: a
  store that is tried for ever succeeds at last. Claim commands do not fail in
  `progress`; without that assumption nothing can be promised.
- `TailHub!HubFairness` is all `Broadcast` needs: goroutines run, and the
  handler that has called `Lock` gets it once the readers are out.
  `HandlerFairness(t)` adds what ending the subscription of `t` needs: a mutex in
  starvation mode is first come first served, a write has a deadline, and
  `select` takes a ready case sooner or later. It is the premise of
  `Unsubscribed` only, for that tail alone: the handlers of the others may do as
  they like.
- `RateLimiter!Fairness`: requests end, time passes.
- `TailClient!Fairness`: React runs effects, timers fire, and a server that is
  tried for ever answers at last.
- `LogExplorer!Spec`: React renders a new URL, and a fetch is answered, given up
  or tried again some day: a query runs 30 s at most (`clickhouse.go`,
  `max_execution_time`), the browser reports a lost connection, and there is one
  retry (`providers.tsx` 13). Nothing is assumed of clicks or of the window's
  focus. How often a request fails is bounded in `explorer` and does not matter
  to `Settles`: one more failure ends the fetch as well.

## Proofs

The theorems hold for every number of workers, clients, tails, sockets, requests
and entries, every batch size, stream length and channel capacity, every set of
faults, all logs, parameters and settings, from the named assumptions on the
constants alone (`StreamAssumption`, `PipelineAssumption`, `TailAssumption`,
`LimiterAssumption`, `ClientAssumption`, `TextAssumption`, `QueryAssumption`,
`ReadAssumption`, `RequestAssumption`, `ExplorerAssumption`).

| Module | Theorem | Statement |
|---|---|---|
| `IngestPipelineProofs` | `TypeCorrect` | `Spec => []TypeOK` |
| | `SettledStored` | `Spec => []SettledIsStored` |
| | `TailedSettled` | `Spec => []TailedIsSettled` |
| | `NoLoss` | `Spec => []NoSilentLoss` |
| | `Bounded` | `Spec => []BatchBounded` |
| | `Refinement` | `Spec => ImplementsDelivery` |
| `OneHolderProofs` | `Exclusive` | `Spec => []OneHolder`, without the fault `"slow"` |
| | `NoDrop` | `Spec => NoBatchDropped` |
| `TailHubProofs` | `SendsOnOpen` | `Spec => []NoSendOnClosed` |
| | `TailOrder` | `Spec => []InOrder` |
| | `Complete` | `Spec => []NothingSkipped` |
| | `HubTypes` | `Spec => []TypeOK` |
| `RateLimiterProofs` | `LimiterTypes`, `Owed` | `Spec => []TypeOK`, `Spec => []ExpiryOwed` |
| | `BurstBounded` | `Spec => []Burst` |
| | `FaultsOnly` | without faults, a counter has an expiry or a request about to set it |
| `TailClientProofs` | `ClientTypes` | `Spec => []TypeOK` |
| | `SingleConnection` | `Spec => []OneConnection` |
| | `Honest` | `Spec => []HonestState` |
| `LogQueryProofs` | `FiltersDiffer` | `Matches(l, q)` and `Where(l, q)` differ only for a log in the second of a bound, and not at all where both bounds are whole seconds |
| | `RollupCovers` | `Where(l, q)` or `Matches(l, q)` implies `RollupWhere(Cell(l), q)` |
| | `RollupExceeds` | `RollupWhere(Cell(l), q)` implies that l is less than a minute outside the range |
| | `SearchAnswers`, `ServicesAnswer` | there is a page for every query, a choice of services for every table |
| | `PagesTile` | if all timestamps differ, a page and the next are disjoint and together one page of both lengths |
| `ReadSideProofs` | `ReadTypes` | `Spec => []TypeOK` |
| | `Retrieval` | `Spec => []Findable` |
| | `Agreement` | `Spec => []AgreeToTheSecond` |
| | `WithinMinute` | `Spec => []RollupWithinMinute` |
| | `StatsWithin` | `Spec => []StatsBetween` |
| | `AlwaysAnswered` | an accepted request has a page and a list of services in both stores, always |
| `LogExplorerProofs` | `ExplorerTypes` | `Spec => []TypeOK` |
| | `TableHonest` | `Spec => []HonestTable` |
| | `PagesMeet` | `Spec => []NoGap` |
| | `AlwaysBack` | `Spec => []WayBack` |

**The write path.** No safety property is inductive: whether an acknowledgement
is right depends on what a worker holds, and that on what the commands returned.
`IInv` is `TypeOK`, `SettledIsStored`, `TailedIsSettled` and four more:

- `StreamInv`: what is pending was delivered, what was delivered was added, and
  a stream that has been trimmed still holds `MaxLen` entries;
- `HandInv`: a worker holds only delivered entries, and every id it will
  acknowledge has its log in the same batch or belongs to a trimmed entry;
- `FlushInv`: while a worker is at `ack` or `tail` its batch is stored and
  counted, and at `tail` it is settled, too;
- `ApiInv`: what the API and the table know of is in the stream.

Two summaries of a step, `StreamStep` for the stream and `StoreStep` for the
tables, say what any action can do to the rest of the state; the lemma about a
worker's hands then need not look at the actions of the others. What is stored
stays stored, what is settled stays settled: that is why the late
acknowledgement of a slow worker does no harm. `NoLoss` follows from `IInv`
without another induction: an accepted entry is undelivered, pending or settled,
and settled means stored or trimmed. `Refinement` maps the initial state to the
initial state and every step, under `IInv`, to a step of `LogDelivery` or a
stutter. `Bounded` has an induction of its own (`RoomInv`), on the lengths of
`batch` and `logs` against what the commands were asked for.

`Exclusive` adds `Holding`: what a worker holds is pending for it, or settled,
and not yet stale. A pending entry has one owner, so two workers that hold one
entry would both be its owner, or it would be settled: the ids of a worker are
settled by its own acknowledgement only. It takes `StaleInv`, that only
delivered entries become stale, and the assumption that no worker is slow, for
XAUTOCLAIM takes stale entries only. `NoDrop` follows from `FlushInv` for the step that
empties the batch.

**The hub.** `SendsOnOpen` needs that a worker which has picked a subscriber is
inside the lock (`PickInv`): cancel closes a channel only once all readers have
left. `TailOrder` is about what a tail has got, is being written and has queued,
as one sequence. It is ordered because a worker appends a log only to a
subscriber it has not offered it to, after offering it all earlier ones
(`Offered`, `TargetInv`), and because the handler moves logs without reordering
them: receiving and writing leave the sequence as it is, a failed write leaves
one log out. `Complete` speaks of a log as due as soon as it has been offered,
not only when its worker has moved on (`SkipInv`): that is when it enters the
sequence or is missed. A new subscriber is due nothing because nobody is inside
the lock when it comes, and nothing is offered outside of it (`BusyInv`).
For `HubTypes` the bound on the logs of all workers together must be part of
the invariant (`BoundedInv`): a worker's logs are different ones of those, so
that its position stays within the bound.

**The limiter.** `Owed` is inductive with the types: whoever creates the counter
reads 1. It gives `FaultsOnly`: where no command is lost nothing is forgotten, so
the lockout of the findings takes a fault. `Burst` is about any window, not only
the counter's own, so that two counters may meet in it. Since the last EXPIRE
nothing was let through but what the present counter counts (`BurstInv`). When
it is removed, that is all but one tick of a window, and so the next counter
starts with at most the limit in the window that it adds its own to: hence the
factor of two, for every limit and window.

**The client.** `OneConnection` and `HonestState` are inductive together with
`QuietInv`: before the first effect there is nothing, and the hook closes a
socket only in a cleanup, after which it ignores every callback. The proof rests
on `unmounted` never being reset, which is also why the tail does not start.

**The read side.** `FiltersDiffer` and the two theorems on the rollup need no
state. Rounding down keeps the order of time (`RoundDownMonotone`) and is the
greatest multiple that is not later (`RoundDownGreatest`): so a log that only one
of the filters selects lies between a bound and its whole second. A second lies
within one minute (`BindBucket`), so that cutting a bound to it does not matter to
the rollup, and the bounds rounded to minutes select every cell the exact ones
need and no more than a minute beyond. `Agreement` follows: where both bounds
are whole seconds, both stores find the same in one set of rows, and a page and
its total are made from that alone. `Retrieval` needs `Kept`: every log has a word to be found
by (`Sanitize` refuses empty messages), the memory store holds what it was
given, and ClickHouse every inserted log that is alone with its id and was never
older than the retention; `FINAL` and a failed insert remove a row only for
another one of its id, expiry only what is too old by then. The range must go on
to the next whole second, because of its end ClickHouse gets no more. That the narrowest
request is accepted needs the types, above all that `Sanitize` leaves a level
the parser knows.

`WithinMinute` and `StatsWithin` are about sums, which the model writes with the
fold `MapThenSumSet`. The library's induction theorems cannot be instantiated
here, but the subsets of a finite set are well-founded under strict inclusion,
and a set of subsets that is closed under adding an element then holds the set
itself (`SetInduction`): that is an induction over a set instead of over an
operator. From it follow that the fold adds element by element, that a sum
grows with its terms and with its set, and that the sums over groups make up
the sum over all (`LogQueryProofs`, "Sums over finite sets").

`RollupInv` says that a cell counts no log more often than it was sent, and
every inserted log that was never too old; and that, unless `torn`, the rollup
is kept for a minute longer than the logs. The lower bound needs that a cell
expires no earlier than any of its logs, although it expires by the minute's
start: that minute makes up for it, and three times the retention has it to
spare from a retention of half a minute on. `RollupCovers` and
`RollupExceeds` then place the cells against the range. `StatsInv` follows the
three queries of one request: what each has returned is at least what the
tables said at the start and at most what they say now. Growing tables keep
both bounds (`UpperGrows`), and a step that takes something from a table clears
`calm`.

`AlwaysAnswered` says that the properties of the form "for all answers" are
about something: from any finite set of rows one can take a last one until as
many are left as are wanted, which makes a page (`SearchAnswers`), and likewise
for the busiest services.

**The explorer.** `ExplorerInv` is that every query in the cache is for its own
key and that what it holds, or is about to receive, is what the server made of
just these filters at some earlier time, over some of the logs there now
(`Sincere`, `AnswerTo`). `HonestTable` and `WayBack` follow from it without
another induction: the page kept on screen has the key of another query. `NoGap`
counts (`PageAfter`): a log that comes after a page has that page and all that
precedes it ahead of it, as many logs as the next page leaves out. So it is
among those left out only if the next page has fewer of these logs ahead of it:
skipped logs are at most as many as the newer ones that only the first page had
found (`Newcomers`). That is all there is to say of a next page that was read
first and is still cached. If it is read later there are no newcomers: what
matched still matches, for the range has moved on, but these logs are newer than
one that matches still, and binding keeps their order (`LaterWhere`). It takes a
page with rows; `NoGap` says so. `PagesTile` is the same for a table at rest.
It needs different timestamps, because `ORDER BY timestamp` alone leaves the
order of the others open.

Only model-checked: the liveness properties (`EventuallyStored`,
`EventuallySettled`, `BroadcastReturns`, `Unsubscribed`, `RecoversOrForgot`,
`Reconnects`, `Settles`), because the proof system does not reason about
fairness. `CountedOnce`, `Recovers`, `StartConnects` and `StoresAgree` are violated.
Every other property of a run has its theorem.

## Findings

- **A log is counted twice in the statistics** (`rollup`). `001_init.sql` says
  that inserting a log again is idempotent. It is for table `logs`, not for
  `logs_by_minute`, whose view counts every inserted row. No fault is needed: a
  batch that is not full stays in the worker's hands, unacknowledged, while the
  next `Claim` reads the worker's pending list and appends the same log again.
- **One lost reply locks a key out** (`lockout`). The expiry of the counter is
  set only by the request that reads 1. If that request does not get to it, the
  counter never expires, and `limit` requests later everyone with that key is
  refused for ever.
- **The live tail never starts** (`starttail`). The cleanup of `useTail` sets
  `unmounted`, nothing resets it, and pressing the button runs that cleanup
  before the effect that should connect.
- **The two stores disagree within a second** (`seconds`). A comment in
  `memstore.go` (121) says that `matches` mirrors ClickHouse's filtering. It
  compares times exactly, whereas the driver gives ClickHouse the bounds of the
  range in whole seconds (`clickhouse.go` 383, 387) for a column of milliseconds.
  ClickHouse so finds logs just before the range and misses those of its last
  second: a log of 12.400 is not found from 12.400 to 12.400.

Met on the way, and not a property here: an entry that was acknowledged is not
deleted, so the depth metric counts the stream's length, not the backlog; the
pause between attempts at inserting is on a branch that is never taken; the
context of a hijacked connection is not cancelled, so `handleTail` ends only by
its read loop or a failed write. On the read side: beyond the last page the
total of ClickHouse is 0, that of the memory store is not, and the table then
says that no logs match; the memory store compares lower-cased words,
ClickHouse without regard to case, which differs outside ASCII; a retention of
less than a second is a TTL of 0, and one of less than half a minute, which
`Load` accepts as well, lets rows of `logs_by_minute` expire before the logs they
count, because they expire by the start of their minute; two clicks before the next render lose the first one; the order in
which levels are chosen makes another cache key. A next page that
is still cached may be up to 15 s older than the page before it (`providers.tsx`
12), so that going back and forth skips logs, by ordinary clicks, but never more
than have come in between; `NoGap` says both. A URL written by hand, with a limit
above 1000 or an offset that is no multiple of the limit, makes the pager skip
logs or leave its first page unreachable as well: `NoGap` and `WayBack` leave such
URLs out and say so.

## Not modelled

- API key, CORS, metrics and logging: no state of their own. Configuration
  beyond what decides whether and how the process starts.
- The length of timeouts and backoffs: time is the order of events, and ticks of
  a millisecond or more on the read side. Finer times, which only the memory
  store tells apart, are not modelled.
- A batch that ClickHouse can never accept: fairness of `Insert` assumes that it
  succeeds at last. A start that fails because Redis is missing is a start that
  does not happen.
- Text: splitting, trimming and capitals in queries, attributes, hosts and trace
  ids, the lengths `Sanitize` checks (one flag).
- ClickHouse merges but for what `FINAL` and TTL show. An older row of an id may
  come back if the newer one expires before a merge, and rows of one id on two
  days lie in two partitions; `Findable` is about logs alone with their id.
- TanStack's removal of unused queries after 5 minutes, and the dashboard and
  charts, which draw what the statistics say.
- Redis persistence (Redis survives, as the code assumes); several observad
  processes with the same consumer names.
- The k6 load test.

## Plan

Done, in this order: `RedisStream`, `IngestPipeline`, `LogDelivery`, their
proofs, `TailHub`, `RateLimiter`, `TailClient` with theorems of these,
`OneHolderProofs`, then the read side: `LogQuery`, `ReadSide`, `LogExplorer`,
and their proofs, until every safety property of a run had its theorem.

Left: theorems beyond the properties of the runs, above all what the write path
and the read side promise together, and an abstract specification of the hub.
