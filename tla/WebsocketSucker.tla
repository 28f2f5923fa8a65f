--------------------------- MODULE WebsocketSucker ---------------------------
(***************************************************************************)
(* WebsocketSucker of internal/core/websocket_sucker.go, which takes news  *)
(* from a websocket.  A stream has a goroutine that loops over messages,   *)
(* one that sends pings, and for every message a reader of its own.  Reader*)
(* and pinger share the connection under connGuard, which the reader holds *)
(* while it waits for a message, while it reconnects and until the loop    *)
(* has taken the message; a cancelled loop leaves its reader behind.       *)
(*                                                                         *)
(* The websocket server, which may break the connection, is external.  A   *)
(* message is a number; some are news of Upbit.                            *)
(***************************************************************************)
EXTENDS Integers, Sequences, SequencesExt

CONSTANTS MaxStreams,    \* bound: calls of StreamNews that begin a stream
          MaxMessages,   \* bound: messages of the server
          News,          \* those that parse and are of the exchange upbit
          NewsChanSize   \* WebsocketSucketNewsChanSize

\* What is assumed of them.
ConstantsFit == /\ MaxStreams \in Nat /\ MaxMessages \in Nat
                /\ News \subseteq 1..MaxMessages /\ NewsChanSize \in Nat \ {0}

VARIABLES streaming,  \* ws.streaming
          started,    \* streams begun, the number of the latest
          ctxDone,    \* per stream: its context is cancelled
          loop,       \* per stream: where read is
          reader,     \* per stream: where its latest reader is
          pinger,     \* per stream: where ping is
          message,    \* per stream: the message its reader or loop has, or 0
          newsChan,   \* per stream: its channel
          conn,       \* ws.conn: "up" or "down"
          inbox,      \* external: what the server has sent on it
          produced,   \* external: number of the server's latest message
          received,   \* history: per stream, what its user has taken
          lost        \* history: messages that went with a connection

streamVars == <<streaming, started, ctxDone, loop, reader, pinger, message, newsChan>>
vars == <<streamVars, conn, inbox, produced, received, lost>>

Streams == 1..MaxStreams

\* NewWebsocketSucker returns with a connection.
Init == /\ streaming = FALSE /\ started = 0
        /\ ctxDone = [s \in Streams |-> FALSE]
        /\ loop = [s \in Streams |-> "off"]
        /\ reader = [s \in Streams |-> "none"]
        /\ pinger = [s \in Streams |-> "off"]
        /\ message = [s \in Streams |-> 0]
        /\ newsChan = [s \in Streams |-> <<>>]
        /\ conn = "up" /\ inbox = <<>> /\ produced = 0
        /\ received = [s \in Streams |-> <<>>]
        /\ lost = {}

\* Mutant: the lock is given back before the message is handed on.
HoldsToRead(s) == reader[s] \in {"reading", "reconnecting"}

\* connGuard is held.
ReaderHolds(s) == reader[s] \in {"reading", "reconnecting", "handing"}
PingerHolds(s) == pinger[s] \in {"pinging", "reconnecting"}
Unlocked == \A s \in Streams : ~ReaderHolds(s) /\ ~PingerHolds(s)

-----------------------------------------------------------------------------
(* StreamNews and read. *)

\* A second call while streaming is refused.
StreamNews == /\ ~streaming /\ started < MaxStreams
              /\ streaming' = TRUE
              /\ started' = started + 1
              /\ loop' = [loop EXCEPT ![started + 1] = "spawning"]
              /\ pinger' = [pinger EXCEPT ![started + 1] = "select"]
              /\ UNCHANGED <<ctxDone, reader, message, newsChan, conn, inbox, produced,
                             received, lost>>

\* The reader of the next message.
SpawnReader(s) == /\ loop[s] = "spawning"
                  /\ reader' = [reader EXCEPT ![s] = "locking"]
                  /\ loop' = [loop EXCEPT ![s] = "select"]
                  /\ UNCHANGED <<streaming, started, ctxDone, pinger, message, newsChan,
                                 conn, inbox, produced, received, lost>>

\* Mutant: the cancellation is not looked at.
NeverSeen(s) == FALSE

\* case <-ctx.Done()
SeesDone(s) == ctxDone[s]

LoopEnds(s) == /\ loop[s] = "select" /\ SeesDone(s)
               /\ loop' = [loop EXCEPT ![s] = "waiting"]
               /\ UNCHANGED <<streaming, started, ctxDone, reader, pinger, message,
                              newsChan, conn, inbox, produced, received, lost>>

\* Mutant: the exchange is not looked at.
AnyExchange(m) == m # 0

\* The message parses and its exchange is upbit.
IsNews(m) == m \in News

\* message <- receivedMessage, a channel without a buffer: the loop takes the
\* message and the reader is gone, with its lock.
HandOver(s) ==
    /\ reader[s] = "handing" /\ loop[s] = "select"
    /\ reader' = [reader EXCEPT ![s] = "none"]
    /\ IF IsNews(message[s])
       THEN loop' = [loop EXCEPT ![s] = "sending"] /\ UNCHANGED message
       ELSE /\ loop' = [loop EXCEPT ![s] = "spawning"]
            /\ message' = [message EXCEPT ![s] = 0]
    /\ UNCHANGED <<streaming, started, ctxDone, pinger, newsChan, conn, inbox, produced,
                   received, lost>>

\* newsChan <- suckerPayload.OriginalTitle
SendNews(s) == /\ loop[s] = "sending"
               /\ Len(newsChan[s]) < NewsChanSize
               /\ newsChan' = [newsChan EXCEPT ![s] = Append(@, message[s])]
               /\ message' = [message EXCEPT ![s] = 0]
               /\ loop' = [loop EXCEPT ![s] = "spawning"]
               /\ UNCHANGED <<streaming, started, ctxDone, reader, pinger, conn, inbox,
                              produced, received, lost>>

\* wg.Wait() is over; close(newsChan), streaming.Store(false).
StreamEnds(s) == /\ loop[s] = "waiting" /\ pinger[s] = "done"
                 /\ loop' = [loop EXCEPT ![s] = "closed"]
                 /\ streaming' = FALSE
                 /\ UNCHANGED <<started, ctxDone, reader, pinger, message, newsChan, conn,
                                inbox, produced, received, lost>>

-----------------------------------------------------------------------------
(* The readers and the pingers. *)

ReaderLocks(s) == /\ reader[s] = "locking" /\ Unlocked
                  /\ reader' = [reader EXCEPT ![s] = "reading"]
                  /\ UNCHANGED <<streaming, started, ctxDone, loop, pinger, message,
                                 newsChan, conn, inbox, produced, received, lost>>

\* ReadMessage
Reads(s) == /\ reader[s] = "reading" /\ inbox # <<>>
            /\ message' = [message EXCEPT ![s] = Head(inbox)]
            /\ inbox' = Tail(inbox)
            /\ reader' = [reader EXCEPT ![s] = "handing"]
            /\ UNCHANGED <<streaming, started, ctxDone, loop, pinger, newsChan, conn,
                           produced, received, lost>>

\* Its error: the connection is down and nothing received on it is left.
ReadFails(s) == /\ reader[s] = "reading" /\ conn = "down" /\ inbox = <<>>
                /\ reader' = [reader EXCEPT ![s] = "reconnecting"]
                /\ UNCHANGED <<streaming, started, ctxDone, loop, pinger, message, newsChan,
                               conn, inbox, produced, received, lost>>

\* connectTillEstablished gets through; the old connection is left as it is.
NewConnection == /\ conn' = "up" /\ inbox' = <<>>
                 /\ lost' = lost \union ToSet(inbox)
                 /\ UNCHANGED <<streaming, started, ctxDone, loop, message, newsChan,
                                produced, received>>

ReaderConnects(s) == /\ reader[s] = "reconnecting"
                     /\ reader' = [reader EXCEPT ![s] = "reading"]
                     /\ NewConnection
                     /\ UNCHANGED pinger

PingerConnects(s) == /\ pinger[s] = "reconnecting"
                     /\ pinger' = [pinger EXCEPT ![s] = "select"]
                     /\ NewConnection
                     /\ UNCHANGED reader

\* The pinger's own steps: a tick, the lock, a ping, and one that fails.
PingerMoves(s, from, to) ==
    /\ pinger[s] = from
    /\ pinger' = [pinger EXCEPT ![s] = to]
    /\ UNCHANGED <<streaming, started, ctxDone, loop, reader, message, newsChan, conn,
                   inbox, produced, received, lost>>

Ticks(s)       == PingerMoves(s, "select", "locking")
PingerLocks(s) == Unlocked /\ PingerMoves(s, "locking", "pinging")
Pings(s)       == PingerMoves(s, "pinging", "select")
PingFails(s)   == conn = "down" /\ PingerMoves(s, "pinging", "reconnecting")
PingerEnds(s)  == ctxDone[s] /\ PingerMoves(s, "select", "done")

-----------------------------------------------------------------------------
(* The user and the server. *)

Cancel(s) == /\ s <= started /\ ~ctxDone[s]
             /\ ctxDone' = [ctxDone EXCEPT ![s] = TRUE]
             /\ UNCHANGED <<streaming, started, loop, reader, pinger, message, newsChan,
                            conn, inbox, produced, received, lost>>

TakeNews(s) == /\ newsChan[s] # <<>>
               /\ received' = [received EXCEPT ![s] = Append(@, Head(newsChan[s]))]
               /\ newsChan' = [newsChan EXCEPT ![s] = Tail(@)]
               /\ UNCHANGED <<streaming, started, ctxDone, loop, reader, pinger, message,
                              conn, inbox, produced, lost>>

\* A message sent while the connection is down reaches nobody.
ServerSends == /\ produced < MaxMessages
               /\ produced' = produced + 1
               /\ IF conn = "up" THEN inbox' = Append(inbox, produced + 1) /\ UNCHANGED lost
                                 ELSE lost' = lost \union {produced + 1} /\ UNCHANGED inbox
               /\ UNCHANGED <<streamVars, conn, received>>

\* What was received before may still be read.
ConnectionBreaks == /\ conn = "up"
                    /\ conn' = "down"
                    /\ UNCHANGED <<streamVars, inbox, produced, received, lost>>

\* The steps that the goroutines of stream s take by themselves; the ticker's
\* are apart.
LoopRuns(s) == SpawnReader(s) \/ LoopEnds(s) \/ HandOver(s) \/ SendNews(s) \/ StreamEnds(s)
ReaderRuns(s) == ReaderLocks(s) \/ Reads(s) \/ ReadFails(s) \/ ReaderConnects(s)
PingerRuns(s) == \/ PingerLocks(s) \/ Pings(s) \/ PingFails(s) \/ PingerConnects(s)
                 \/ PingerEnds(s)

Next == \/ StreamNews \/ ServerSends \/ ConnectionBreaks
        \/ \E s \in Streams : \/ LoopRuns(s) \/ ReaderRuns(s) \/ PingerRuns(s)
                             \/ Ticks(s) \/ Cancel(s) \/ TakeNews(s)

\* Goroutines are scheduled, an attempt to connect succeeds in the end, and the
\* user goes on taking news.  A reader gets the mutex in its turn, and the select
\* of a pinger, which chooses at random, does not pass over a cancelled context
\* for ever.
Fairness == \A s \in Streams :
    /\ WF_vars(LoopRuns(s)) /\ WF_vars(ReaderRuns(s))
    /\ WF_vars(PingerRuns(s)) /\ WF_vars(TakeNews(s))
    /\ SF_vars(ReaderLocks(s)) /\ SF_vars(PingerEnds(s))

Spec == Init /\ [][Next]_vars /\ Fairness

-----------------------------------------------------------------------------
Over(s) == loop[s] \in {"waiting", "closed"}

\* The types of the variables.
TypeOK ==
    /\ streaming \in BOOLEAN /\ started \in 0..MaxStreams
    /\ conn \in {"up", "down"} /\ produced \in 0..MaxMessages
    /\ inbox \in Seq(1..produced) /\ lost \subseteq 1..produced
    /\ ctxDone \in [Streams -> BOOLEAN]
    /\ loop \in [Streams -> {"off", "spawning", "select", "sending", "waiting", "closed"}]
    /\ reader \in [Streams -> {"none", "locking", "reading", "reconnecting", "handing"}]
    /\ pinger \in [Streams -> {"off", "select", "locking", "pinging", "reconnecting", "done"}]
    /\ message \in [Streams -> 0..produced]
    /\ newsChan \in [Streams -> Seq(1..produced)] /\ received \in [Streams -> Seq(1..produced)]
    /\ \A s \in Streams : Len(newsChan[s]) <= NewsChanSize

\* Whatever reconnections and restarts there are, a message that reached the
\* client is at one place: on its way to one user, in order and once, or with
\* the reader a cancelled stream has left behind.  Of the news nothing else is
\* lost.
Handed(s) == received[s] \o newsChan[s]
InHand == {message[s] : s \in Streams} \ {0}
AllHanded == UNION {ToSet(Handed(s)) : s \in Streams}
NewsInOneHand ==
    /\ (News \intersect 1..produced)
         = News \intersect (AllHanded \union InHand \union lost \union ToSet(inbox))
    /\ AllHanded \subseteq News
    /\ AllHanded \intersect (InHand \union lost) = {}
    /\ \A s, t \in Streams : \A i \in DOMAIN Handed(s), j \in DOMAIN Handed(t) :
         (s < t \/ (s = t /\ i < j)) => Handed(s)[i] < Handed(t)[j]

\* The reader a cancelled stream has left behind has the connection.
LeftBehind(s) == Over(s) /\ ReaderHolds(s)

\* Once it has, it has it for good: whatever restarts and reconnections follow, no
\* stream that is not over is ever handed a message again.
DeafAfterRestart ==
    []((\E s \in Streams : LeftBehind(s)) =>
           [](\A t \in Streams : ~Over(t) => reader[t] # "handing"))

\* A cancelled stream closes its channel, unless its pinger waits for the lock a
\* reader left behind has.
ClosesOrPingerWaits ==
    []<>(\A s \in Streams : ctxDone[s] /\ s <= started =>
             \/ loop[s] = "closed"
             \/ pinger[s] = "locking" /\ \E t \in Streams : ReaderHolds(t) /\ Over(t))

\* While a stream is not cancelled a broken connection is replaced, unless a
\* reader left behind has a message nobody takes.
Reconnected ==
    []<>(\/ conn = "up"
         \/ \A s \in Streams : s <= started => ctxDone[s]
         \/ \E t \in Streams : reader[t] = "handing" /\ Over(t))
=============================================================================
