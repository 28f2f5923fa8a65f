----------------------------- MODULE HTTPClients -----------------------------
(***************************************************************************)
(* ClientHTTP2 and ClientFastHTTP of pkg/httptools, the two adapters behind*)
(* the Client interface.  Each caller is a goroutine of the poller with a  *)
(* client, and so a proxy, of its own; it makes one request after another  *)
(* while the responses of earlier ones are still in use elsewhere.         *)
(*                                                                         *)
(* ClientFastHTTP tries again after a delay, opens a tunnel through the    *)
(* proxy itself and takes the buffers of bodies from a pool shared by all  *)
(* clients.  ClientHTTP2 tries once, with a second for everything.  The    *)
(* libraries fasthttp and net/http are external; so are the answers.       *)
(***************************************************************************)
EXTENDS Integers, FiniteSets

CONSTANTS Callers,
          MaxRetries,   \* ClientRetriesConfig.MaxRetries
          Replies,      \* the server's answers: status, encoded, broken
          Buffers,      \* the buffers fasthttp's pool may hold
          MaxRequests,  \* bound: requests of one caller
          None          \* no buffer

ASSUME CallersAssumption == IsFiniteSet(Callers)
ASSUME RetriesAssumption == MaxRetries \in Nat /\ MaxRequests \in Nat
ASSUME RepliesAssumption ==
    Replies \subseteq [status : {200, 429, 500}, encoded : BOOLEAN, broken : BOOLEAN]
ASSUME BuffersAssumption == IsFiniteSet(Buffers) /\ Cardinality(Buffers) >= Cardinality(Callers)

ASSUME NoneAssumption == None \notin Buffers

VARIABLES kind,     \* the client in use: "fasthttp" or "http2"
          metered,  \* it has metrics other than noopMetrics
          pc,       \* where each caller is in Request
          made,     \* requests each caller has made
          attempt,  \* i of the loop over retries
          lastErr,  \* lastErr # nil
          tunnel,   \* the client keeps an open tunnel
          sockets,  \* sockets the client has open
          buffer,   \* the buffer of resp, if it has a body
          content,  \* the answer whose body each buffer holds
          reply,    \* the answer received
          answer,   \* history: its number
          answers,  \* history: the answers so far, a body is named after its
                    \* answer's number
          held,     \* the latest response returned to each caller's user
          count     \* the counters of the metrics

netVars == <<tunnel, sockets>>
bodyVars == <<buffer, content, reply, answer, answers>>
vars == <<kind, metered, pc, made, attempt, lastErr, netVars, bodyVars, held, count>>

Counters == {"requests", "responses", "errors", "limited", "successful"}
NoReply == [status |-> 0, encoded |-> FALSE, broken |-> FALSE]

\* A response: the answer it was made of, whether that was encoded, and where
\* its body is: in memory of its own, or in a buffer of the pool.
NoBody == 0
Nothing == [of |-> NoBody, encoded |-> TRUE, own |-> NoBody, at |-> None]

\* UseFastHTTP and UseHTTP2 of the builder ignore the Metrics of their
\* configuration; the fetchers' own constructor functions pass theirs.
Init == /\ kind \in {"fasthttp", "http2"} /\ metered \in BOOLEAN
        /\ pc = [c \in Callers |-> "idle"]
        /\ made = [c \in Callers |-> 0]
        /\ attempt = [c \in Callers |-> 0]
        /\ lastErr = [c \in Callers |-> FALSE]
        /\ tunnel = [c \in Callers |-> FALSE]
        /\ sockets = [c \in Callers |-> 0]
        /\ buffer = [c \in Callers |-> None]
        /\ content = [b \in Buffers |-> NoBody]
        /\ reply = [c \in Callers |-> NoReply]
        /\ answer = [c \in Callers |-> NoBody] /\ answers = 0
        /\ held = [c \in Callers |-> Nothing]
        /\ count = [m \in Counters |-> 0]

-----------------------------------------------------------------------------
(* Helpers. *)

Goes(c, place) == pc' = [pc EXCEPT ![c] = place]

\* The counters once those of the set have been incremented.
Counted(names) == [m \in Counters |-> IF metered /\ m \in names THEN count[m] + 1
                                                                ELSE count[m]]

InUse == {buffer[c] : c \in Callers} \ {None}

\* maxRetries of a fasthttp client; that of an HTTP/2 client is never read.
Retries == IF kind = "fasthttp" THEN MaxRetries ELSE 0

-----------------------------------------------------------------------------
(* Request. *)

\* The timer, the counter of requests and the request itself.
Begin(c) == /\ pc[c] = "idle" /\ made[c] < MaxRequests
            /\ made' = [made EXCEPT ![c] = @ + 1]
            /\ count' = Counted({"requests"})
            /\ Goes(c, "attempt")
            /\ UNCHANGED <<kind, metered, attempt, lastErr, netVars, bodyVars, held>>

\* The counters of an attempt that fails.
OfAttempt == {}

\* An attempt fails: another one after the delay, or none.
Fails(c) == /\ lastErr' = [lastErr EXCEPT ![c] = TRUE]
            /\ Goes(c, IF attempt[c] < Retries THEN "backoff" ELSE "result")
            /\ count' = Counted(OfAttempt)
            /\ UNCHANGED <<kind, metered, made, attempt, bodyVars, held>>

\* httpClient.Do over the tunnel there is; net/http finds its own way.
Reuse(c) == /\ pc[c] = "attempt"
            /\ kind = "http2" \/ tunnel[c]
            /\ Goes(c, "onTheWire")
            /\ UNCHANGED <<kind, metered, made, attempt, lastErr, netVars, bodyVars,
                           held, count>>

\* FasthttpHTTPDialer: fasthttp.Dial fails.
DialFails(c) == /\ pc[c] = "attempt" /\ kind = "fasthttp" /\ ~tunnel[c]
                /\ Fails(c)
                /\ UNCHANGED netVars

\* It succeeds and CONNECT is written; the reply is waited for with no
\* deadline.
Connect(c) == /\ pc[c] = "attempt" /\ kind = "fasthttp" /\ ~tunnel[c]
              /\ sockets' = [sockets EXCEPT ![c] = @ + 1]
              /\ Goes(c, "connecting")
              /\ UNCHANGED <<kind, metered, made, attempt, lastErr, tunnel, bodyVars,
                             held, count>>

\* Status 200: the connection is used and kept.
Connected(c) == /\ pc[c] = "connecting"
                /\ tunnel' = [tunnel EXCEPT ![c] = TRUE]
                /\ Goes(c, "onTheWire")
                /\ UNCHANGED <<kind, metered, made, attempt, lastErr, sockets, bodyVars,
                               held, count>>

\* Mutant: a refusal leaves the connection open.
LeftOpen(n) == n

\* conn.Close() on every other way out of the dialer.
Closed(n) == n - 1

\* A read error, a malformed reply or any other status.
Refused(c) == /\ pc[c] \in {"connecting", "silent"}
              /\ sockets' = [sockets EXCEPT ![c] = Closed(@)]
              /\ Fails(c)
              /\ UNCHANGED tunnel

\* The proxy sends no complete reply and does not close the connection.
GoesSilent(c) == /\ pc[c] = "connecting"
                 /\ Goes(c, "silent")
                 /\ UNCHANGED <<kind, metered, made, attempt, lastErr, netVars, bodyVars,
                                held, count>>

\* A timeout, a reset, for HTTP/2 also a cancelled context or a request that
\* cannot be created: the attempt and its connection end.
Lost(c) == /\ pc[c] = "onTheWire"
           /\ tunnel' = [tunnel EXCEPT ![c] = FALSE]
           /\ sockets' = [sockets EXCEPT ![c] = IF tunnel[c] THEN @ - 1 ELSE @]
           /\ Fails(c)

\* The answer; fasthttp reads its body to a buffer of the pool.
Answered(c) ==
    /\ pc[c] = "onTheWire"
    /\ \E r \in Replies : reply' = [reply EXCEPT ![c] = r]
    /\ answers' = answers + 1
    /\ answer' = [answer EXCEPT ![c] = answers + 1]
    /\ IF kind = "fasthttp"
       THEN \E b \in Buffers \ InUse : /\ buffer' = [buffer EXCEPT ![c] = b]
                                       /\ content' = [content EXCEPT ![b] = answers + 1]
       ELSE UNCHANGED <<buffer, content>>
    /\ Goes(c, "result")
    /\ UNCHANGED <<kind, metered, made, attempt, lastErr, netVars, held, count>>

\* Mutant: the retry is not counted.
SameAttempt(i) == i

\* i++
NextAttempt(i) == i + 1

\* time.Sleep(delay) is over.
Backoff(c) == /\ pc[c] = "backoff"
              /\ attempt' = [attempt EXCEPT ![c] = NextAttempt(@)]
              /\ Goes(c, "attempt")
              /\ UNCHANGED <<kind, metered, made, lastErr, netVars, bodyVars, held, count>>

\* if lastErr != nil: nothing clears it when a later attempt succeeds.
RequestFailed(c) == lastErr[c]

\* Mutant: fasthttp's bodies are returned as they are.
NeverCopied(r) == kind = "http2"

\* decodeResponseBody returns memory of its own: not fasthttp's for a body
\* without an encoding, which is the buffer itself.
Copied(r) == kind = "http2" \/ r.encoded

\* What io.ReadAll finds: net/http's stream, or the buffer of the response.
BodyNow(c) == IF kind = "http2" THEN answer[c] ELSE content[buffer[c]]

\* The deferred calls, ReleaseResponse among them.
Leave(c) == /\ Goes(c, "idle")
            /\ buffer' = [buffer EXCEPT ![c] = None]
            /\ reply' = [reply EXCEPT ![c] = NoReply]
            /\ answer' = [answer EXCEPT ![c] = NoBody]
            /\ attempt' = [attempt EXCEPT ![c] = 0]
            /\ lastErr' = [lastErr EXCEPT ![c] = FALSE]
            /\ UNCHANGED <<kind, metered, made, netVars, content, answers>>

\* "request_failed"
ReturnError(c) == /\ pc[c] = "result" /\ RequestFailed(c)
                  /\ count' = Counted({"errors"})
                  /\ Leave(c)
                  /\ UNCHANGED held

\* "body_read"
ReturnUnreadable(c) == /\ pc[c] = "result" /\ ~RequestFailed(c) /\ reply[c].broken
                       /\ count' = Counted({"errors"})
                       /\ Leave(c)
                       /\ UNCHANGED held

\* A 429 and any other status are responses as well.
CountersOf(status) == CASE status = 429 -> {"responses", "errors", "limited"}
                        [] status = 200 -> {"responses", "successful"}
                        [] OTHER -> {"responses"}

ReturnResponse(c) == /\ pc[c] = "result" /\ ~RequestFailed(c) /\ ~reply[c].broken
                     /\ count' = Counted(CountersOf(reply[c].status))
                     /\ held' = [held EXCEPT ![c] =
                          IF Copied(reply[c])
                          THEN [of |-> answer[c], encoded |-> reply[c].encoded,
                                own |-> BodyNow(c), at |-> None]
                          ELSE [of |-> answer[c], encoded |-> reply[c].encoded,
                                own |-> NoBody, at |-> buffer[c]]]
                     /\ Leave(c)

\* An idle tunnel is closed.
TunnelCloses(c) == /\ pc[c] \in {"idle", "backoff"} /\ tunnel[c]
                   /\ tunnel' = [tunnel EXCEPT ![c] = FALSE]
                   /\ sockets' = [sockets EXCEPT ![c] = @ - 1]
                   /\ UNCHANGED <<kind, metered, pc, made, attempt, lastErr, bodyVars,
                                  held, count>>

\* The request of c goes on; a silent proxy is what no deadline ends.
Proceeds(c) == \/ Reuse(c) \/ DialFails(c) \/ Connect(c) \/ Connected(c)
               \/ pc[c] = "connecting" /\ Refused(c)
               \/ Lost(c) \/ Answered(c) \/ Backoff(c)
               \/ ReturnError(c) \/ ReturnUnreadable(c) \/ ReturnResponse(c)

Next == \E c \in Callers : \/ Begin(c) \/ Proceeds(c) \/ GoesSilent(c)
                           \/ Refused(c) \/ TunnelCloses(c)

\* Do has a deadline of a second for what it waits for, dialing apart; every
\* other step is the goroutine's own.
Spec == Init /\ [][Next]_vars /\ \A c \in Callers : WF_vars(Proceeds(c))

-----------------------------------------------------------------------------
\* The body a user who reads the response of c now finds in it.
BodyRead(c) == IF held[c].at = None THEN held[c].own ELSE content[held[c].at]

\* The types of the variables.
TypeOK ==
    /\ kind \in {"fasthttp", "http2"} /\ metered \in BOOLEAN
    /\ pc \in [Callers -> {"idle", "attempt", "connecting", "silent", "onTheWire",
                           "backoff", "result"}]
    /\ made \in [Callers -> 0..MaxRequests]
    /\ attempt \in [Callers -> 0..MaxRetries]
    /\ lastErr \in [Callers -> BOOLEAN] /\ tunnel \in [Callers -> BOOLEAN]
    /\ sockets \in [Callers -> 0..1]
    /\ buffer \in [Callers -> Buffers \union {None}]
    /\ content \in [Buffers -> Nat]
    /\ reply \in [Callers -> Replies \union {NoReply}]
    /\ answer \in [Callers -> Nat] /\ answers \in Nat
    /\ held \in [Callers -> [of : Nat, encoded : BOOLEAN, own : Nat,
                             at : Buffers \union {None}]]
    /\ count \in [Counters -> Nat]

\* Whatever requests are made while a response is in use, its body stays what
\* the server sent: it was read before its buffer went back to the pool, and to
\* memory of its own.  Only a body that fasthttp got without an encoding may turn
\* under its user's hands, into that of a later answer and never an earlier one.
BodiesKept == \A c \in Callers :
    \/ BodyRead(c) = held[c].of
    \/ kind = "fasthttp" /\ ~held[c].encoded /\ BodyRead(c) > held[c].of

\* Nothing is left open: the sockets of a client are the tunnel it keeps and the
\* one it is connecting.
SocketsAccountedFor == \A c \in Callers :
    sockets[c] = (IF tunnel[c] THEN 1 ELSE 0)
                   + (IF pc[c] \in {"connecting", "silent"} THEN 1 ELSE 0)

\* Requests with metrics are counted once, however often they are tried: as
\* answered or as failed, a 429 as both.
Running == Cardinality({c \in Callers : pc[c] # "idle"})
CountersBalance ==
    metered => /\ count["requests"] = count["responses"] + count["errors"]
                                        - count["limited"] + Running
               /\ count["successful"] + count["limited"] <= count["responses"]

\* However requests end, what they opened is closed and they are counted once.
NothingLeftOver == TypeOK /\ SocketsAccountedFor /\ CountersBalance

\* README.md:28: "Retry logic with exponential backoff for failed requests".  A
\* request that a retry got an answer for is not reported as failed.
RetriesHelp == \A c \in Callers : pc[c] = "result" /\ reply[c] # NoReply => ~RequestFailed(c)

\* Every request ends, with every proxy but one that accepts the connection
\* and then says nothing: this is what the poller's SetURL, which waits for
\* the requests under way, depends on.
RequestsReturn == \A c \in Callers : pc[c] # "idle" ~> pc[c] \in {"idle", "silent"}
=============================================================================
