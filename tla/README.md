# api-poll: a TLA+ development

`api-poll` (`src/upbit-api-poll`) watches the notices of the Upbit exchange
through a pool of proxies and opens a futures order on Gate.io when a notice
announces a listing. This directory holds TLA+ modules for its core, the
configurations with which TLC checks them, and proofs that TLAPS checks.
Paths below are relative to `src/upbit-api-poll`.

## 1. The system

```
 web site <--- requests --- ProxyRotatingPoller <--- Acquire/release --- ClientsQueuePool
                              |        ^   ^                               (groups of clients)
                    responses |        |   '--- WorkNow/NextWorkSession --- WorkSchedule
                              v        | SetURL
                        NoticeByIDFetcher
                              | titles
                              v
                 streamNews goroutine (main.go) --> NewsMonitor --> OpenFuturesOrder --> Gate.io
```

| component | state it keeps | operations | what makes it correct |
|---|---|---|---|
| `ClientsQueuePool` (pkg/httptools/clients_queue.go) | a buffered channel of groups, each with the time it was last acquired | constructor (groups by location), `Acquire`, the release closure | no group lost or lent twice, release never blocks, the rate of a proxy, rotation |
| `ProxyRotatingPollerBuilder` | configuration | setters, `Build` | an accepted pool can keep the target rate |
| `ProxyRotatingPoller` (proxy_rotating_poller.go) | URL behind a RWMutex, the channel of responses, wait group, work debt, error counter | `StartPolling`, `SetURL`, the loop, its recovery, one goroutine per client | no request to a URL after `SetURL` left it, the pool and the goroutines agree, goes on after panics and errors, never deadlocks with its user, keeps the target rate |
| HTTP clients (client_http2.go, client_fasthttp.go) | tunnels, pooled buffers, counters | `Request`, the CONNECT dialer | a request ends; a retry helps; a body stays what it was; nothing left open or miscounted |
| `WorkSchedule` (internal/entity/work_schedule.go) | hours per weekday, preparation time, time zone | `WorkNow`, `NextWorkSession` | never sleeps into a session, wakes in time |
| `NoticeByIDFetcher` (internal/core/notice_by_id_fetcher.go) | last title, next number, marks of refused proxies, news channel | constructor (search for the first free number), `StreamNewNoticeTitles`, the loop over responses | every new notice delivered, once, in order |
| `AnnouncementByIDFetcher`, `AnnouncementsFetcher` (internal/core) | last title and next number, news channel | the same on the JSON interface; a 429 ends their loop | nothing skipped, the newest announcement reached, a poller without a reader comes to rest |
| `streamNews` and `run` (main.go) | last news, news channel, context | de-duplication, shutdown | no title lost or doubled |
| `NewsMonitor` (internal/core/news_monitor.go) | - | `StartMonitoring` | an order for each listing, never held up |
| `OpenFuturesOrder` (pkg/gate/gate.go) | the requests of one call | leverage, contract, price, order | at most one order per call, bounded size |
| `WebsocketSucker` (internal/core/websocket_sucker.go) | connection behind a mutex, streaming flag | `StreamNews`, reader, loop, pinger, reconnection | news in order and once over reconnections; a broken connection is replaced; a cancelled stream ends |
| `Broadcast` (pkg/channel/broadcast.go) | followers behind a mutex, closed flag | `Follow`, `FollowWithMemory`, `Unfollow`, `Send`, `Close` | every follower gets every value in order; no send on a closed channel; `Send` returns |
| `PrometheusService` (internal/service/metrics.go) | three maps of metrics | first use and use of a metric | calls that overlap neither end the process nor lose a count |
| `MapTS`/`ShardedMapTS` (pkg/container) | shards with a lock each | `Set`, `Delete`, `Size`, `Clear`, `ForEach`, ... | what a pass over the shards shows; no two lock each other out |
| `SendMessage`, tickers parser, gRPC client, configuration, entities, tools | see section 6 and PROJECT.json | | |

How they interact: the poller calls the pool and the schedule and, in one
goroutine per client, an HTTP client; those goroutines send to a channel the
fetcher receives from; the fetcher calls back `SetURL`, which excludes requests
by the RWMutex, from the very loop that empties that channel; titles go through
two channels to the monitor, which starts one goroutine per order. All of them
count in `PrometheusService`. `main.go` runs `NoticeByIDFetcher` with the HTTP/2
client; it starts none of the other fetchers nor the sucker, and nothing uses
`Broadcast`, the maps or the gRPC client.

What is hard about it: responses overtake each other; a waiting writer of the
RWMutex keeps readers out; the loop is restarted by panics, schedule errors and
a cancelled context with a new wait group each time; a fetcher that ends leaves
its poller without a reader, and so does its cancellation; the pacing carries
debts; `Acquire` stamps before it sleeps, and sleeps after the hours were looked
at; hours of other days are compared with today's date; unreadable prices become
infinite sizes; answers of the exchange get lost; a retry is taken
for a failure; buffers of bodies return to their pool while they are read; locks
are held over channel sends and network reads; plain maps are shared between
goroutines. `PROJECT.json` lists each hazard at its line with the properties that
cover it, or why none does.

## 2. Modules

| module | models | notes |
|---|---|---|
| `ClientsPool` | the interface `ClientsPool`: exclusive loans at a rate | abstract, implemented by `ClientsQueuePool` |
| `ClientsQueuePool` | `Acquire` and the release closure, step by step, with the clock | the core of the proofs |
| `ClientGroups` | `Build`: checks of the configuration, clients made one by one, the constructor's rounds over the map of locations, the count | |
| `ProxyRotatingPoller`, `MCProxyRotatingPoller` | loop, client goroutines, RWMutex, channel, cancellation, faults | pool without its clock |
| `PollPacing` | the arithmetic of `workDebt` and `lastPollStartTime` | |
| `HTTPClients`, `MCHTTPClients` | `Request` of both clients, the dialer, the pool of buffers, the counters | fasthttp and net/http are external |
| `WorkSchedule` | `WorkNow`, `NextWorkSession` and the loop's use of them over a week, with the wait in `Acquire` between the decision to poll and the poll | messages of the notifier take no time |
| `MCSequentialParts` | instances of `ClientGroups`, `PollPacing` and `WorkSchedule`, one of which runs in a behaviour | they share no state |
| `NoticeFeed` | a feed of notices in order, each once | abstract, implemented by the two fetchers that count numbers |
| `NoticeByIDFetcher`, `MCNoticeByIDFetcher` | fetcher and web site composed with an instance of `ProxyRotatingPoller` | |
| `AnnouncementFetchers`, `MCAnnouncementFetchers` | the two fetchers on the JSON interface, and the one above as a third kind, on the same poller | extends `NoticeByIDFetcher` |
| `FuturesOrder` | `OpenFuturesOrder`: any number of calls and the exchange | |
| `NewsPipeline`, `MCNewsPipeline` | `streamNews`, the monitor, shutdown, on top of `FuturesOrder` | takes `NoRepeatInARow` of the fetcher (in `FetcherInStep`) as its input |
| `Broadcast` | followers, `Send` under the mutex, the replay, `Close` | |
| `WebsocketSucker` | streams, their readers, loops and pingers over one connection | |
| `PrometheusService` | `getOrCreate` in the steps the Go runtime and the registry see | |
| `ShardedMap` | calls on one key, passes over the shards, `ForEach` | |
| `SideParts`, `MCSideParts` | the four modules above, one of which runs in a behaviour | they share no state |
| `QueueLemmas` | what sends and receives do to a channel | lemmas for the proofs below |
| `ClientsQueuePoolProofs` | theorems about `ClientsQueuePool` and `ClientGroups` | |
| `ProxyRotatingPollerProofs` | theorems about `ProxyRotatingPoller` | |
| `LoopTimesProofs` | theorems about `PollPacing` and `WorkSchedule` | the two share no state |
| `AnnouncementFetchersProofs` | theorems about `AnnouncementFetchers`, and so about `NoticeByIDFetcher` | |
| `NewsPipelineProofs` | theorems about `NewsPipeline` and `FuturesOrder` | |
| `HTTPClientsProofs` | theorems about `HTTPClients` | |
| `SidePartsProofs` | theorems about the four parts of `SideParts` | |

State and actions follow the code. In `ClientsQueuePool`, `queue` is the
channel `members`, and `Receive`, `Stamp`, `Measure`, `Return` are the lines of
`Acquire` between which another goroutine or the clock can come in; `Release`
is the closure. Times are ages that saturate at `RestInterval`, beyond which
the code does not tell them apart. In `ProxyRotatingPoller`, `pc` is the
polling goroutine (`begin` is a call of `populateWithResponses`, and
`ReturnWith` what its return value does), `worker[c]` the goroutine of client
`c`, a client that is `requesting` holds the read lock, `writer` is a `SetURL`
call that waits. `tracked` is the wait group of the current call, which a
restart forgets. In `NoticeByIDFetcher`, `fpc` is where the fetcher is, from
the constructor (`listing`, `probing`) to the steps of `updateAndNotify`
(`send`, `setURL`, `inSetURL`). `AnnouncementFetchers` adds `ended`, the return
on a 429, and `kind`, the fetcher that runs. In `NewsPipeline`, `mpc` is the
goroutine of `streamNews` and `orders[i].at` the next request of call `i`.

In `HTTPClients`, `pc[c]` is where the goroutine of client `c` is in `Request`
(`connecting` waits for the reply to CONNECT, `silent` for one that never
comes, `backoff` sleeps before the next attempt); `buffer[c]` is the pooled
buffer of its response and `held[c]` the response its user still reads. Answers
are numbered as they arrive, and a number stands for a body: `content[x]` is what
buffer `x` holds now, and `held[c]` says whose body the response was (`of`), which
one was copied (`own`) or in which buffer it is read (`at`), so that `BodyRead(c)`
follows what the code does with the bytes. A buffer given to another request has
the new body at once; the mixture of two bodies a concurrent reader may see is not
told apart from the later one. In `Broadcast`,
`cursor` is the follower `Send` has reached while it holds the mutex, so that
`cursor = 0` is a free mutex. In `WorkSchedule`,
`acquire` is where a poll waits for its clients and `waited` for how long it has.
In `WebsocketSucker`, each stream has a `loop`, a
`pinger` and its latest `reader`; a reader that is `reading`, `reconnecting` or
`handing` holds `connGuard`, the last also after its loop has gone. In
`PrometheusService`, a store is two steps between which `writing` is the flag
the runtime checks; `ReadSeen`, `WriteSeen` and `FlagLost` are the fatal errors
it may raise, and the access that goes unseen is the other alternative. In
`ShardedMap`, `at[u]` is the shard a call has come to, `owner` who keeps a lock
between two steps.

In most modules the type invariant and small properties that belong together
are conjuncts of one invariant (`FetcherInStep`, `NothingLeftOver`,
`BroadcastSafe`, ...), each a named definition with a comment of its own.

Operators commented `Mutant:` are deliberate faults. No specification uses
them; replacing a definition by its mutant makes the property that guards it
fail, which shows the property is not vacuous. `PROJECT.json` pairs them.

## 3. What the runs check

Each run is `tlc -config <name>.cfg <module>`.

| run | instance | shows |
|---|---|---|
| `Pool` | 3 groups, 2 callers in `Acquire`, rest of 2 ticks, channel of 3 | `OnePlace`, `ReleaseNeverBlocks`, `TwoUsesApart`, `ImplementsPool`, and `Rotates` under fairness |
| `SequentialParts` | builder: up to 5 clients, every distribution over 2 locations and "unknown", rates 0..4, one client that cannot be made | `EachClientOnce`: groups partition the clients and fit the channel; `SpreadOverLocations`; `AcceptedKeepsTarget` |
| | pace: 5 polls, waits of up to 7 with an interval of 3, sleeps 0 or 1 too long, begun in, before and after hours | `LagIsDebt`, `AheadOnlyByStartDelay` |
| | hours: every schedule of 4 kinds of hours over a week of 3 days of 6 instants, started anywhere, waits of up to 2 instants in `Acquire` | `SleepsWell`: never oversleeps, is awake when preparation begins; `NeverPollsEarly`: a poll before the preparation of a work day was decided on the day before |
| `PollerLiveness` | 2 clients in 2 groups, one fault, cancellation, hours ending and beginning at any time | `PoolMatchesWorkers`, `AtMostOneLatePoll`, `SetURLCompletes`, `PollsUntilCancelled` (`KeepsPolling` before, `ComesToRest` after, with or without a reader) |
| `PollerCancelStops` | the same without faults | violation: a cancelled context does not stop the goroutine |
| `PollerWaitEnds` | the same | violation: the loop waits for ever for a client that sends on a full channel |
| `FetchersOneClient` | 3 fetchers, 1 client, 3 announcements, failing and refused requests | `ImplementsFeed`, `EveryNoticeDelivered`, `EndedComesToRest` |
| `FetchersTwoClients` | 3 fetchers, 2 clients that poll together, answers in any order | `NothingSkipped` (by-ID fetcher), `FetcherInStep`, `NoStaleRequest`, `GroupsComeBackWhole`: a group is back when both its clients are done; `SettlesOnNewest` |
| `NoticeFeedDuplicates` | `NoticeByIDFetcher` with the same clients | violation: with two clients a notice is delivered twice and another skipped |
| `NewsPipeline` | 3 titles (2 listings) in sequences of 3, channels of 1, lost answers, requests that never return, two contracts, a price that is a number, malformed or out of range, 5-bit integers | `NothingLostOnTheWay`, `NoOrderWithoutItsNews`, `OrderIsBounded`, `EveryListingOrdered`: each listing gets an order for its token, until the interrupt |
| `HTTPClients` | 2 callers with either client, 2 requests each, 1 retry, 2 buffers, good, unencoded, unreadable and refused answers | `BodiesKept`, `NothingLeftOver`, `RequestsReturn` |
| `Retries` | the same | violation: a request that a retry got an answer for is reported as failed |
| `SideParts` | broadcast: 2 followers, channels of 1, memory of 2, 2 sends | `BroadcastSafe`, `BroadcastLive` |
| | 2 streams, 3 messages; 2 goroutines, 2 metrics in one map; 2 users, 2 shards, 2 keys, callbacks that call the map or panic | `SuckerSafe`, `SuckerLive`, `DeafAfterRestart`, `MetricsSafe`, `MapSafe`, `CallsReturn` |

Some of these say what remains of a promise. `ComesToRest`: requests end, but the
clients whose answers the channel has no room for, and their groups, stay where they
are. `NeverPollsEarly`: a poll decided on just before midnight starts when `Acquire`
lets it. `BodiesKept`: a body that fasthttp got without an encoding may turn into
that of a later answer. `RequestsReturn`: not with a proxy silent after CONNECT.
`DeafAfterRestart`: once the reader left behind by a cancelled stream has the
connection, no stream is ever handed a message again. `CallsReturn`: not once a
callback of `ForEach` has left the shards locked. `CrashTakesTwo` (in `MetricsSafe`):
the process may end as soon as one goroutine creates a metric during another's
call. `PanicOnlyInReplay` (in `BroadcastSafe`): a `Close` during
`FollowWithMemory` may panic, nothing else may.

### Why the bounds are enough

- Pool: what can go wrong between callers needs two of them and a group neither
  has; a third use needs a rest interval of more than one tick. `Capacity`
  equal to the number of groups is the tightest the assumption allows.
- Groups: five clients in three locations give several rounds of different
  sizes; rates to 4 give quotients that are and are not whole, and 0 is refused.
- Poller: two groups show rotation and two polls at once; clients of one group that
  finish at different times are in `FetchersTwoClients`. The channel has room for twice
  the clients, as in the code, and fills up when its reader stops. One fault is enough
  to lose a wait group; a second one finds the same state.
- Fetchers: 3 announcements let one be found by the constructor, one be published
  while it searches and one while polling; a channel of 1 makes the fetcher wait
  for its reader. A late response needs two clients in one group.
- Pacing: waits of more than two intervals build a debt that takes several polls
  to pay. Schedule: three days give a work day after, before and between days
  without work; the kinds of hours touch both ends of the day, and a wait of two
  instants carries a poll over midnight into one that has its preparation later.
- Pipeline: A, B, A is the shortest sequence that brings a title back.
- HTTP clients: a buffer changes hands between two callers, or between two requests
  of one; the first and the last attempt are different with one retry.
- Side parts: a follower that blocks and one that waits behind it; a channel of 1
  and a memory of 2 let a value come between the two replayed ones; a stream that
  is cancelled and its successor, and three messages of which the second is not
  news; two creators of one metric, and two metrics of one map; a key per shard,
  so that one changes behind a pass and one before it.
- `MaxFaults`, `MaxPolls`, `MaxID`, `MaxNews`, `MaxRequests`, `MaxWait`, `MaxSends`,
  `MaxStreams`, `MaxMessages`, `MaxCalls` and `MaxProxies`, `MaxRate` bound the length
  of behaviours or the size of inputs; at the former a model may stop, hence
  `CHECK_DEADLOCK FALSE` in those configurations (and in `SequentialParts`, where a
  constructor ends).

### Fairness

- Goroutines that can run are scheduled (weak fairness of each step). Receivers
  and senders of a channel and readers behind a writer are queued by the Go
  runtime, so a waiting one is served: strong fairness of `Receive(c)`,
  `SendRequest(c)`, `SendResponse(c)`.
- A request ends: `ClientHTTP2.Request` has a timeout of a second
  (client_http2.go:124). `HTTPClients` is where that is examined: with fasthttp,
  `Do` has the deadline but not the wait for the reply to CONNECT, so `silent`
  gets no fairness.
- Users of the pool release (the poller does so in a deferred call). Users of the
  poller receive until they are cancelled, except inside `SetURL` and after a 429;
  after the cancellation they may receive or not, since the fetchers return on it
  (notice_by_id_fetcher.go:89, announcement_by_id_fetcher.go:79,
  announcements_fetcher.go:74).
- A client does not fail forever: strong fairness of an answer. Without that no
  delivery can be promised. `AnnouncementFetchers` asks less of the scheduler than Go
  gives: weak fairness of the poller as a whole, which is enough with one group. The
  exchange gets no fairness in `NewsPipeline`: its requests have no timeout.
- `Broadcast`: the goroutines as a whole, since only so many steps are possible
  between two values sent; readers read until they leave. `ShardedMap`: a waiter
  gets a `sync.RWMutex` in its turn.
- `WebsocketSucker`: an attempt to connect succeeds in the end (the code repeats it
  for ever); a reader waiting for the mutex gets it (Go's mutex serves a waiter that
  starves first); and a `select` with a cancelled context does not choose the ticker
  for ever.

## 4. What is proved

Every invariant the passing runs check (`GroupsComeBackWhole` as `PoolMatchesWorkers`,
for the poller alone), the action property `TwoUsesApart`, both refinements, the
permanence `DeafAfterRestart`, and the hypotheses one module has about another, for all
values of the constants. A theorem assumes the `ASSUME`s of the module it is about,
which TLC evaluates on every instance. Two modules of proofs are about two models each,
which share no state: `ClientGroups` and `WorkSchedule` name their behaviours and
control states apart (`BuildSpec`, `stage`; `HoursSpec`, `loop`, `clock`) so that both
can be extended.

| theorem | statement |
|---|---|
| `TypeCorrect`, `PlaceOfGroups`, `ReleaseHasRoom` | `ClientsQueuePool`: `[]TypeOK`, `[]OnePlace`, `[]ReleaseNeverBlocks` |
| `RateKept`, `PoolImplements` | `ClientsQueuePool`: `TwoUsesApart`, and it implements `ClientsPool` |
| `GroupsOfClients`, `GroupsAreSpread`, `AcceptedPools` | `ClientGroups`: `[]EachClientOnce`, `[]SpreadOverLocations`, `[]AcceptedKeepsTarget` |
| `GroupsFitThePool` | the groups it hands on are distinct and no more than the clients: what `ClientsQueuePool` assumes |
| `PoolAgrees`, `RequestsAreFresh`, `OneLatePoll` | `ProxyRotatingPoller`: `[]PoolMatchesWorkers`, `[]NoStaleRequest`, `[]AtMostOneLatePoll` |
| `NoLagForgotten`, `NeverAhead` | `PollPacing`: `[]LagIsDebt`, `[]AheadOnlyByStartDelay` |
| `LoopSleepsWell`, `LoopNeverEarly` | `WorkSchedule`: `[]SleepsWell`, `[]NeverPollsEarly` |
| `FetchersAskTheNewPage`, `NothingIsSkipped`, `FetchersInStep` | `AnnouncementFetchers`: `[]NoStaleRequest`, `[]NothingSkipped`, `[]FetcherInStep` |
| `SingleClientImplementsFeed` | with one client, it implements `NoticeFeed` |
| `NothingLost`, `OrdersHaveNews`, `OrdersBounded` | `NewsPipeline`: `[]NothingLostOnTheWay`, `[]NoOrderWithoutItsNews`, `[]OrderIsBounded` |
| `BodiesStay`, `EverythingAccounted` | `HTTPClients`: `[]BodiesKept`, `[]NothingLeftOver` |
| `BroadcastIsSafe`, `SuckerIsSafe`, `MetricsAreSafe`, `MapIsSafe` | `SideParts`: `[]BroadcastSafe`, `[]SuckerSafe`, `[]MetricsSafe`, `[]MapSafe` |
| `DeafForEver` | `SideParts`: `DeafAfterRestart`, over every step to come |

Hardly any of these is inductive. What each needed:

- **Pool.** `TypeOK /\ PcMember /\ OnePlace /\ RateInv`. `PcMember` ties a caller's
  position to the group in its hands, without which it could return one it does not
  hold. From `OnePlace` a counting argument (an injective sequence that misses a group
  is shorter than the number of groups) gives the room for a release. `RateInv` relates
  the time stamps, which the code reads, to the uses, which it does not record: by
  `lastAcquiredAt` for a group in the channel, by the stamp the closure captured for one
  in use, by both and what is left of the sleep inside `Acquire`. That the third of three
  uses is a rest interval after the first follows at `Return`, and is the guard of
  `ClientsPool!Acquire`.
- **Groups.** `RoundsInv`: of a location with clients left, the groups so far and those
  clients are all its clients; of the others, no more than the groups so far, and the
  last round was needed by some location. It gives both the room in the channel and the
  number of groups without an induction over the rounds. `Ordered` shows that a finite
  set of numbers can be listed in order, by the rank of each number in it.
- **Poller.** `PoolMatchesWorkers` is inductive with the types. That a lock excludes the
  writer is `NoStaleRequest` itself, step by step. `LateInv`: a loop about to acquire was
  sent there by a context that was alive.
- **Times.** `Account` is the equation between clock, polls, debt and the time overslept,
  in each of the loop's two positions. For the schedule, `RestedInv`: a loop that has
  slept on a work day is awake no earlier than its preparation begins; one that waits in
  `Acquire` longer than the day is old decided to poll the day before.
- **Fetchers.** `UrlInv`, `ReachInv` and `TitleInv`: the page asked for is the fetcher's
  next number except while it moves on; every number an answer carries has been reached
  and what lies below it was sent, which is why a late answer cannot skip one; the last
  title sent is the one remembered. For the feed, `AnswersInv`: with a single client the
  answers on the way are in order, a fresh one with nothing older behind it.
- **Pipeline.** `OnTheWay` follows every title through the channels. `EachForItsNews`
  keeps an injection from the calls of `OpenFuturesOrder` to the listings that caused
  them; that no token is ordered more often than listed is then counted, whatever
  happens to the answers.
- **HTTP clients.** `CallerInv` says of each position in `Request` what it has in its
  hands. `BuffersInv` says that a buffer out of the pool belongs to one request and
  holds the body of its answer, and `HeldInv` that what any buffer holds is no older
  than the bodies read from it. `CountersBalance` needs the number of requests under way
  to move with a set.
- **Broadcast.** `RowsInv`: a follower's channel continues what it read without a gap, up
  to the last value or, for those `Send` has not come to yet, the one before.
  `ChannelsInv` says so of followers that left.
- **Sucker.** `OrderInv`, `InboxInv` and `HoldInv`: messages are in the order of the
  server along the path from the connection to the user, over all streams, and only one
  reader has the lock, so that a reader left behind overtakes nobody. `LeftBehindStays`:
  once such a reader has the lock no step takes it away, which with the mutual exclusion
  is `DeafForEver`.
- **Metrics and maps.** `AloneInv`: without an overlap the flag of a map says who writes
  to it. `CountInv` and `ClearInv` compare a pass with the shards it has behind it.

Only model-checked:

- liveness (`Rotates`, `PollsUntilCancelled`, `SetURLCompletes`, `EveryNoticeDelivered`,
  `SettlesOnNewest`, `EndedComesToRest`, `EveryListingOrdered`, `RequestsReturn`,
  `BroadcastLive`, `SuckerLive`, `CallsReturn`): fairness and ENABLED are outside the
  prover's reach;
- the four violations of section 5, which are counterexamples.

## 5. Where code and documentation differ

With a run that shows it:

1. `PollerCancelStops`: proxy_rotating_poller.go:139 says "Stop execution on context
   cancellation", but a cancelled `populateWithResponses` returns nil (line 205) and is
   called again, forever. What holds: at most one poll starts after the cancellation
   (`AtMostOneLatePoll`) and the clients come to rest (`PollsUntilCancelled`).
2. `PollerWaitEnds`: proxy_rotating_poller.go:201 says "Context cancelled, waiting for
   goroutines to finish". The goroutines send on the channel of responses whether the
   context is cancelled or not (line 234), and the fetchers that receive return on the
   same cancellation, so on a full channel neither they nor the wait (line 203) end, and
   their clients never return to the pool. What holds is `ComesToRest`.
3. `Retries`: README.md:28 and 288 offer retries of failed requests. `lastErr` is not
   cleared when a later attempt succeeds (client_fasthttp.go:283), so a request whose
   retry is answered fails all the same. (The HTTP/2 client never reads its retry
   configuration.)
4. `NoticeFeedDuplicates`: README.md:36 speaks of "Thread-safe news detection", but a
   response for the previous page that is sent late is taken for news. What holds with
   several proxies is `FetcherInStep`; the by-ID fetcher, which takes the number from
   the answer, also skips nothing (`NothingSkipped`), though it may repeat.

Seen while modelling, without a run of its own:

- README.md:269 says the service operates "only during specified hours", README.md:282
  that it sleeps outside them. After the hours `NextWorkSession` is negative, so the loop
  does not sleep (work_schedule.go:189) and polls; on a day without an entry it takes the
  hours of the next entry for today's. What holds is `SleepsWell` and `NeverPollsEarly`.
- `UseFastHTTP` and `UseHTTP2` of the builder drop the logger and the metrics of the
  configuration they are given. `NewClientFastHTTP` reads `Proxy` without the test for
  nil the HTTP/2 client makes (client_fasthttp.go:206), and its `Request` ignores the
  context.
- A proxy that accepts a connection and then does not answer CONNECT keeps the read lock,
  and with it the next `SetURL`, for ever (fasthttp client only).
- `AnnouncementByIDFetcher` asks for the list with the endpoint as it is configured,
  `per_page=%d` (configs/config.yaml:2), where the list fetcher fills in a number
  (announcement_by_id_fetcher.go:216, announcements_fetcher.go:200). The model takes the
  request to be answered. `AnnouncementsFetcher` fills in 1, so that of two announcements
  published between two polls it hands on the later one only.
- README.md:265 limits each proxy to `single_proxy_max_rps`. `Acquire` stamps a group
  before it sleeps (clients_queue.go:68), so a group that slept may be used again at
  once. `TwoUsesApart`, the rate of `ClientsPool`, is what holds.
- README.md:262-264 counts proxies; `Build` counts groups, which are fewer as soon as
  proxies are in several locations.
- A negative start delay after hours makes the loop believe it is late
  (proxy_rotating_poller.go:174); `AheadOnlyByStartDelay` says by how much it then
  exceeds the target rate.
- Two notices in a row with the same title stop the feed: `EveryNoticeDelivered` is
  checked with distinct titles.
- A contract without limits of size whose price is malformed, and so 0, would be ordered
  in the size an infinite quotient is converted to: hence the limits in `OrderIsBounded`.
  (A price out of range is infinite, and orders the one contract the code falls back
  to.) The proof shows that the upper one must lie below the greatest int64 too.

## 6. What is left out, and why

Inside the modelled components:

- Wording of messages, logs, notifier calls (except that a panic in them is a `Panic`
  step), HTTP headers, labels of metrics: nothing reads them back. Which of its uses
  increment a counter is in `HTTPClients` and `PrometheusService` only.
- The counter of suppressed failures: any failure may be the one not reported
  (`RequestDropped`). Its three steps without a lock only change which one is.
- Data races on text (a restarted loop reads `p.url` without the lock for a message).
- The marks of refused proxies decide which 429 is reported; the poller is the same.
- The return of a fetcher on a cancelled context: `ProxyRotatingPoller` lets the user
  of a cancelled poller stop receiving at any time, the fetchers' modules are about a
  context that is alive. What a goroutine still does while the process ends.
- The old connection of the sucker, which a reconnection leaves unclosed: the server is
  external and the model keeps the one connection in use.
- Values and single reads of the maps, their read locks for the outside, and the hash
  that chooses a shard, a parameter.
- Time inside `ProxyRotatingPoller`: kept in `ClientsQueuePool` and `PollPacing`. Clock
  changes of the time zone in `WorkSchedule`.
- Panics and off hours inside the fetchers' modules: covered for the poller alone.
- Regular expressions and patterns of titles: parameters of `NewsPipeline`; a model of
  the expressions would be one of Go's regexp library.

Components without a module:

- `SendMessage` (Telegram): one goroutine per message that nothing waits for; how it
  cuts a text is layout. gRPC client: no caller, one generated remote call.
- Configuration and wiring: read once at the start; what it validates appears as
  `ASSUME`s on the constants. Entities and JSON: data types and generated parsers, a body
  that cannot be parsed being one of the replies in the fetchers' modules.
- The tools under `cmd/`: one-shot programs on files and for load tests by hand.

## 7. Plan

Done, in this order: pool and its proofs; poller; feed; schedule and pacing; pipeline
and orders; the other fetchers; HTTP clients; builder; sucker, broadcast, metrics and
maps. Every component whose behaviour has steps that depend on an order has a module.

Proved, for all constants: what section 4 lists. Proving it changed the models in a few
places. The greatest page of `NoticeByIDFetcher` has no bound by the published notices
once several clients answer late (`URLs`). A contract whose limit is the greatest int64
does not bound an order with an unreadable price (`OrderIsBounded`). The order of a
location's clients, the rows of a follower's values and the typing of functions are now
stated so that they can be reasoned about (`InOrder`, `FollowersGetAll`, `TypeOK`).

The four disagreements of section 5 with a run expect a violation there, and each has
beside it the property that remains and holds.

Left: proofs that `NewsPipeline` may take `NoRepeatInARow` of the fetchers as its input,
and `ClientsQueuePool` the place of the poller's pool, as refinements between the modules
rather than as the invariants both sides have.
