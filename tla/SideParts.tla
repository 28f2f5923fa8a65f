------------------------------ MODULE SideParts ------------------------------
(***************************************************************************)
(* Four parts of the repository that share no state with the rest of the   *)
(* model or with each other: the broadcast channel, the websocket sucker,  *)
(* the metrics and the sharded map.  Running two of them together would    *)
(* only interleave what each does alone, so that a behaviour picks one and *)
(* the others stay as they were made.                                      *)
(***************************************************************************)
EXTENDS Integers, FiniteSets, Sequences

CONSTANTS Followers, Capacity, MemoryLen, MaxSends,          \* Broadcast
          MaxStreams, MaxMessages, News, NewsChanSize,       \* WebsocketSucker
          Goroutines, Names, Maps, MapOf,                    \* PrometheusService
          Users, Keys, ShardsCount, ShardOf,                 \* ShardedMap
          MaxCalls, None                                     \* the last two

VARIABLES part,  \* the part that runs
          followers, closed, cursor, sent, fpc, room, chan, chanClosed, replayed,
          panicked, got, recalled, joined,
          streaming, started, ctxDone, loop, reader, pinger, message, newsChan,
          conn, inbox, produced, received, lost,
          pc, name, vec, calls, table, writing, registered, value, crashed, done,
          overlapped,
          present, owner, op, at, total, mapCalls, always, ever

B == INSTANCE Broadcast
W == INSTANCE WebsocketSucker
P == INSTANCE PrometheusService
M == INSTANCE ShardedMap WITH calls <- mapCalls

ASSUME BroadcastAssumption == B!ConstantsFit
ASSUME SuckerAssumption    == W!ConstantsFit
ASSUME MetricsAssumption   == P!ConstantsFit
ASSUME MapAssumption       == M!ConstantsFit

broadcastVars == <<followers, closed, cursor, sent, fpc, room, chan, chanClosed, replayed,
                   panicked, got, recalled, joined>>
suckerVars == <<streaming, started, ctxDone, loop, reader, pinger, message, newsChan,
                conn, inbox, produced, received, lost>>
metricsVars == <<pc, name, vec, calls, table, writing, registered, value, crashed, done,
                 overlapped>>
mapVars == <<present, owner, op, at, total, mapCalls, always, ever>>

vars == <<part, broadcastVars, suckerVars, metricsVars, mapVars>>

Init == /\ part \in {"broadcast", "sucker", "metrics", "map"}
        /\ B!Init /\ W!Init /\ P!Init /\ M!Init
        /\ part # "map" => present = {}

BroadcastRuns == /\ part = "broadcast" /\ B!Next
                 /\ UNCHANGED <<part, suckerVars, metricsVars, mapVars>>
SuckerRuns == /\ part = "sucker" /\ W!Next
              /\ UNCHANGED <<part, broadcastVars, metricsVars, mapVars>>
MetricsRun == /\ part = "metrics" /\ P!Next
              /\ UNCHANGED <<part, broadcastVars, suckerVars, mapVars>>
MapRuns == /\ part = "map" /\ M!Next
           /\ UNCHANGED <<part, broadcastVars, suckerVars, metricsVars>>

Next == BroadcastRuns \/ SuckerRuns \/ MetricsRun \/ MapRuns

\* A part that does not run owes no step: none of the fair actions is enabled
\* in its initial state.
Spec == Init /\ [][Next]_vars /\ B!Fairness /\ W!Fairness /\ M!Fairness

-----------------------------------------------------------------------------
\* Broadcast: a follower gets every value sent while it follows, in order, and
\* its memory in order; only Close during a replay ends in a panic.
BroadcastSafe == B!TypeOK /\ B!FollowersGetAll /\ B!PanicOnlyInReplay

\* Broadcast: Send returns unless a follower with a full channel does not read,
\* a replay unless values sent meanwhile take its room.
BroadcastLive == B!SendReturnsOrStuck /\ B!ReplayReturns

\* WebsocketSucker: over every reconnection and restart a message that reached
\* the client is in one place, and news are delivered in order and once.
SuckerSafe == W!TypeOK /\ W!NewsInOneHand

\* WebsocketSucker: once a reader left behind by a cancelled stream has the
\* connection it keeps it, and no later stream is ever handed a message again.
DeafAfterRestart == W!DeafAfterRestart

\* WebsocketSucker: a cancelled stream ends and a broken connection is replaced,
\* unless a reader left behind holds the lock that takes.
SuckerLive == W!ClosesOrPingerWaits /\ W!Reconnected

\* PrometheusService: it takes two overlapping calls on one map to end the
\* process, and until then every finished call is counted by the metric served.
MetricsSafe == P!TypeOK /\ P!CrashTakesTwo /\ P!NothingUncounted

\* ShardedMap: what Size returns lies between what stayed and what was there at
\* all, and Clear leaves no key that was there all the time.
MapSafe == M!TypeOK /\ M!SizeIsBetween /\ M!ClearedIsGone

\* ShardedMap: every call returns, goroutines that lock all shards at once too,
\* unless a callback calls the map or panics.
CallsReturn == M!CallsReturn
=============================================================================
