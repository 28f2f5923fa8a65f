------------------------- MODULE ProxyRotatingPoller -------------------------
(***************************************************************************)
(* The poller of pkg/httptools/proxy_rotating_poller.go.  One goroutine    *)
(* runs the polling loop: it takes a group of clients from the pool and    *)
(* starts one goroutine per client, each of which makes one request to the *)
(* current URL and sends the response to the channel that StartPolling     *)
(* returned.  The user of the poller receives the responses and may change *)
(* the URL at any time.                                                    *)
(*                                                                         *)
(* The URL is guarded by a RWMutex.  A request holds the read lock while   *)
(* it is on the wire; SetURL takes the write lock, and in Go a waiting     *)
(* writer keeps new readers out.  The pool is the queue of idle groups of  *)
(* ClientsQueuePool without its clock; the pacing of the loop, also a      *)
(* matter of time alone, is left out.  The content of a response is a      *)
(* parameter: Replies here, the server's answers in the modules built on   *)
(* this one.                                                               *)
(***************************************************************************)
EXTENDS Integers, FiniteSets, Sequences, Functions

CONSTANTS Clients,     \* the HTTP clients, one per proxy
          Groups,      \* the groups of the pool
          MembersOf,   \* the clients of each group
          URLs,        \* what SetURL may be called with
          Replies,     \* what a request that succeeds may return
          Empty,       \* Response{}: sent for a request that failed
          MaxFaults    \* bound: panics and schedule errors in one behaviour

ASSUME PoolAssumption ==
    /\ IsFiniteSet(Clients) /\ IsFiniteSet(Groups)
    /\ MembersOf \in [Groups -> (SUBSET Clients) \ {{}}]
    /\ \A g, h \in Groups : g # h => MembersOf[g] \intersect MembersOf[h] = {}
    /\ UNION {MembersOf[g] : g \in Groups} = Clients
ASSUME FaultsAssumption == MaxFaults \in Nat

VARIABLES pc,         \* where the polling goroutine is
          running,    \* p.running
          ctxDone,    \* the context is cancelled
          working,    \* what p.workSchedule.WorkNow() says
          idleGroups, \* p.clientsByLocation, the groups Acquire can return
          tracked,    \* groups whose goroutine the current wg waits for
          worker,     \* where the goroutine of each client is
          url,        \* p.url
          requestURL, \* the URL of each client's latest request
          writer,     \* SetURL: "none", or "waiting" for the write lock
          newURL,     \* the argument of the SetURL call that waits
          response,   \* the response each client's goroutine is to send
          responses,  \* responsesChan
          faults,     \* history: panics and schedule errors so far
          late        \* history: groups acquired since the cancellation,
                      \* 2 standing for two or more

loopVars   == <<pc, running, ctxDone, working, idleGroups, tracked, faults, late>>
urlVars    == <<url, writer, newURL>>
workerVars == <<worker, requestURL, response>>
pollerVars == <<loopVars, urlVars, workerVars, responses>>

\* make(chan Response, p.totalClientsCount<<1)
ChanSize == 2 * Cardinality(Clients)

Init == /\ pc = "off" /\ running = FALSE /\ ctxDone = FALSE
        /\ working \in BOOLEAN
        /\ idleGroups \in Bijection(1..Cardinality(Groups), Groups)
        /\ tracked = {}
        /\ worker = [c \in Clients |-> "idle"]
        /\ url \in URLs
        /\ requestURL = [c \in Clients |-> url]
        /\ writer = "none" /\ newURL = url
        /\ response = [c \in Clients |-> Empty]
        /\ responses = <<>>
        /\ faults = 0 /\ late = 0

-----------------------------------------------------------------------------
(* The polling goroutine. *)

\* StartPolling; a second call finds running set and changes nothing.
StartPolling == /\ ~running
                /\ running' = TRUE
                /\ pc' = "begin"
                /\ UNCHANGED <<ctxDone, working, idleGroups, tracked, faults, late,
                               urlVars, workerVars, responses>>

\* Mutant: the loop does not go on after a return.
NeverContinue(err) == FALSE

\* executePollingWithRecovery: only the error of a cancelled context ends the
\* goroutine, which then closes the channel.
ShouldContinue(err) == err \notin {"Canceled", "DeadlineExceeded"}

\* populateWithResponses returns to the loop of doPollingWithRecovery.
ReturnWith(err) == pc' = IF ShouldContinue(err) THEN "begin" ELSE "stopped"

\* populateWithResponses begins, with a wait group of its own.
Begin == /\ pc = "begin"
         /\ pc' = "check"
         /\ tracked' = {}
         /\ UNCHANGED <<running, ctxDone, working, idleGroups, faults, late,
                        urlVars, workerVars, responses>>

\* The top of the loop: WorkNow, and NextWorkSession when there is no work.
CheckWork == /\ pc = "check"
             /\ pc' = IF working THEN "select" ELSE "asleep"
             /\ UNCHANGED <<running, ctxDone, working, idleGroups, tracked, faults,
                            late, urlVars, workerVars, responses>>

\* NextWorkSession fails: the function returns, and forgets its wait group.
ScheduleError == /\ pc = "check" /\ ~working
                 /\ faults < MaxFaults
                 /\ faults' = faults + 1
                 /\ ReturnWith("nil")
                 /\ UNCHANGED <<running, ctxDone, working, idleGroups, tracked, late,
                                urlVars, workerVars, responses>>

\* The sleep till the next session ends; the schedule is not asked again.
WakeUp == /\ pc = "asleep"
          /\ pc' = "select"
          /\ UNCHANGED <<running, ctxDone, working, idleGroups, tracked, faults, late,
                         urlVars, workerVars, responses>>

\* A panic in the loop (a notifier, a schedule) is recovered and the function
\* is called again.
Panic == /\ pc \in {"check", "asleep"}
         /\ faults < MaxFaults
         /\ faults' = faults + 1
         /\ pc' = "begin"
         /\ UNCHANGED <<running, ctxDone, working, idleGroups, tracked, late,
                        urlVars, workerVars, responses>>

\* Mutant: the cancellation is not looked at.
NeverDone == FALSE

\* What the select sees of the context.
SeesDone == ctxDone

\* select: the cancelled context, or the default branch.
Select == /\ pc = "select"
          /\ pc' = IF SeesDone THEN "draining" ELSE "acquire"
          /\ UNCHANGED <<running, ctxDone, working, idleGroups, tracked, faults, late,
                         urlVars, workerVars, responses>>

\* wg.Wait(), return nil.
Drain == /\ pc = "draining"
         /\ tracked = {}
         /\ ReturnWith("nil")
         /\ UNCHANGED <<running, ctxDone, working, idleGroups, tracked, faults, late,
                        urlVars, workerVars, responses>>

\* Acquire, wg.Add(1) and the goroutines of the group's clients.
Acquire == /\ pc = "acquire"
           /\ idleGroups # <<>>
           /\ LET g == Head(idleGroups) IN
                /\ idleGroups' = Tail(idleGroups)
                /\ tracked' = tracked \union {g}
                /\ worker' = [c \in Clients |->
                                IF c \in MembersOf[g] THEN "spawned" ELSE worker[c]]
           /\ late' = IF ctxDone /\ late < 2 THEN late + 1 ELSE late
           /\ pc' = "pacing"
           /\ UNCHANGED <<running, ctxDone, working, faults, urlVars,
                          requestURL, response, responses>>

\* The sleep before the next poll.
Pace == /\ pc = "pacing"
        /\ pc' = "check"
        /\ UNCHANGED <<running, ctxDone, working, idleGroups, tracked, faults, late,
                       urlVars, workerVars, responses>>

LoopStep == Begin \/ CheckWork \/ WakeUp \/ Select \/ Drain \/ Acquire \/ Pace

-----------------------------------------------------------------------------
(* The goroutine of one client, and the one of its group. *)

\* Mutant: the lock is kept until the response is sent.
LockedTillSent == {c \in Clients : worker[c] \in {"requesting", "sending"}}

\* Mutant: the lock only covers the read of p.url.
LockedForRead == {}

\* The clients that hold the read lock of urlGuard.
Readers == {c \in Clients : worker[c] = "requesting"}

\* urlGuard.RLock() and the read of p.url: the request goes out.
SendRequest(c) == /\ worker[c] = "spawned"
                  /\ writer = "none"
                  /\ worker' = [worker EXCEPT ![c] = "requesting"]
                  /\ requestURL' = [requestURL EXCEPT ![c] = url]
                  /\ UNCHANGED <<loopVars, urlVars, response, responses>>

\* client.Request returns r and fetchResponse gives the lock back.
RequestDone(c, r) == /\ worker[c] = "requesting"
                     /\ worker' = [worker EXCEPT ![c] = "sending"]
                     /\ response' = [response EXCEPT ![c] = r]
                     /\ UNCHANGED <<loopVars, urlVars, requestURL, responses>>

\* The request failed and the counter of suppressed errors is full: nothing is
\* sent.  The counter itself is left out, any failure may be the one.
RequestDropped(c) == /\ worker[c] = "requesting"
                     /\ worker' = [worker EXCEPT ![c] = "done"]
                     /\ UNCHANGED <<loopVars, urlVars, requestURL, response, responses>>

\* A send on the channel of responses does not block.
HasRoom == Len(responses) < ChanSize

\* responsesChan <- response
SendResponse(c) == /\ worker[c] = "sending"
                   /\ HasRoom
                   /\ responses' = Append(responses, response[c])
                   /\ worker' = [worker EXCEPT ![c] = "done"]
                   /\ response' = [response EXCEPT ![c] = Empty]
                   /\ UNCHANGED <<loopVars, urlVars, requestURL>>

\* Mutant: the group does not wait for its clients.
NotWaited(g) == \E c \in MembersOf[g] : worker[c] # "idle"

\* Mutant: the first client that is done gives the group back.
OneDone(g) == \E c \in MembersOf[g] : worker[c] = "done"

\* localWg.Wait() of a group's goroutine is over.
AllDone(g) == \A c \in MembersOf[g] : worker[c] = "done"

\* releaseClients() and wg.Done(), the deferred calls of the group's goroutine.
ReleaseGroup(g) ==
    /\ g \notin Range(idleGroups)
    /\ AllDone(g)
    /\ worker' = [c \in Clients |-> IF c \in MembersOf[g] /\ worker[c] = "done"
                                    THEN "idle" ELSE worker[c]]
    /\ idleGroups' = Append(idleGroups, g)
    /\ tracked' = tracked \ {g}
    /\ UNCHANGED <<pc, running, ctxDone, working, faults, late,
                   urlVars, requestURL, response, responses>>

-----------------------------------------------------------------------------
(* The user of the poller, and its surroundings. *)

\* SetURL asks for the write lock; from here new readers wait.
SetURLCall(u) == /\ writer = "none"
                 /\ writer' = "waiting"
                 /\ newURL' = u
                 /\ UNCHANGED <<loopVars, url, workerVars, responses>>

\* The readers are gone: SetURL changes the URL and returns.
SetURLReturn == /\ writer = "waiting"
                /\ Readers = {}
                /\ writer' = "none"
                /\ url' = newURL
                /\ UNCHANGED <<loopVars, newURL, workerVars, responses>>

\* A receive from the channel of responses.
Receive == /\ responses # <<>>
           /\ responses' = Tail(responses)
           /\ UNCHANGED <<loopVars, urlVars, workerVars>>

Cancel == /\ ~ctxDone
          /\ ctxDone' = TRUE
          /\ UNCHANGED <<pc, running, working, idleGroups, tracked, faults, late,
                         urlVars, workerVars, responses>>

\* The hours of work begin or end.
ScheduleTurns == /\ working' = ~working
                 /\ UNCHANGED <<pc, running, ctxDone, idleGroups, tracked, faults, late,
                                urlVars, workerVars, responses>>

\* What the poller does by itself; Request(c) is how a request may end.
WorkerStep(c) == SendRequest(c) \/ SendResponse(c)

\* The user consumes a response only when it is not inside SetURL: the
\* fetchers call SetURL from the loop that receives.
Next == \/ StartPolling \/ LoopStep \/ ScheduleError \/ Panic
        \/ \E c \in Clients : \/ WorkerStep(c)
                              \/ \E r \in Replies \union {Empty} : RequestDone(c, r)
                              \/ RequestDropped(c)
        \/ \E g \in Groups : ReleaseGroup(g)
        \/ \E u \in URLs : SetURLCall(u)
        \/ SetURLReturn
        \/ writer = "none" /\ Receive
        \/ Cancel \/ ScheduleTurns

Spec == Init /\ [][Next]_pollerVars

\* Every goroutine is scheduled; a request ends within its timeout.  Senders
\* on a full channel and readers behind a writer are queued by the runtime,
\* so each gets its turn: strong fairness.
GoFairness ==
    /\ WF_pollerVars(StartPolling)
    /\ WF_pollerVars(LoopStep)
    /\ \A c \in Clients :
          /\ SF_pollerVars(SendRequest(c))
          /\ WF_pollerVars(RequestDropped(c) \/ \E r \in Replies \union {Empty} : RequestDone(c, r))
          /\ SF_pollerVars(SendResponse(c))
    /\ \A g \in Groups : WF_pollerVars(ReleaseGroup(g))
    /\ WF_pollerVars(SetURLReturn)

\* A user that goes on receiving until its context is cancelled.  Then it may
\* take more responses or none: the fetchers return.
FairSpec == Spec /\ GoFairness
                 /\ SF_pollerVars(writer = "none" /\ ~ctxDone /\ Receive)

-----------------------------------------------------------------------------
\* The types of the variables.
TypeOK ==
    /\ pc \in {"off", "begin", "check", "asleep", "select", "acquire", "pacing",
               "draining", "stopped"}
    /\ running \in BOOLEAN /\ ctxDone \in BOOLEAN /\ working \in BOOLEAN
    /\ idleGroups \in Seq(Groups) /\ tracked \subseteq Groups
    /\ worker \in [Clients -> {"idle", "spawned", "requesting", "sending", "done"}]
    /\ url \in URLs /\ newURL \in URLs /\ writer \in {"none", "waiting"}
    /\ requestURL \in [Clients -> URLs]
    /\ response \in [Clients -> Replies \union {Empty}]
    /\ responses \in Seq(Replies \union {Empty}) /\ Len(responses) <= ChanSize
    /\ faults \in 0..MaxFaults /\ late \in 0..2

\* Once SetURL has returned no request to another URL is on the wire: SetURL
\* waits for the requests that hold the read lock, and later ones read the
\* new URL.
NoStaleRequest == \A c \in Clients : worker[c] = "requesting" => requestURL[c] = url

\* A group is in the pool or at work, whatever restarts the loop goes through:
\* the groups in the pool are those whose clients have nothing to do, so that a
\* client never has two requests at a time.
PoolMatchesWorkers ==
    /\ TypeOK
    /\ IsInjective(idleGroups)
    /\ \A g \in Groups : g \in Range(idleGroups)
                           <=> \A c \in MembersOf[g] : worker[c] = "idle"

\* After the cancellation of its context the loop starts at most one more
\* poll: the one it had decided on when the context was cancelled.
AtMostOneLatePoll == late <= 1

\* SetURL returns: a request gives its lock back before it waits for room in
\* the channel, which the caller of SetURL does not empty meanwhile.
SetURLCompletes == writer = "waiting" ~> writer = "none"

\* While the context is alive every group is polled again and again, through
\* panics, schedule errors and hours without work.
KeepsPolling == \A g \in Groups : []<>(g \notin Range(idleGroups)) \/ <>ctxDone

\* The goroutine of a client has ended, or waits for room in a channel that
\* nobody empties, itself or through another client of its group.
StuckSending(c) == worker[c] = "sending" /\ ~HasRoom
AtRest(c) ==
    \/ worker[c] = "idle"
    \/ StuckSending(c)
    \/ /\ worker[c] = "done"
       /\ \E g \in Groups : c \in MembersOf[g] /\ \E d \in MembersOf[g] : StuckSending(d)

\* Cancelled, the poller comes to rest: no request is on the wire or to come,
\* and every client is back in the pool but for those that the full channel
\* holds, and their groups.
ComesToRest == ctxDone ~> [](\A c \in Clients : AtRest(c))

\* The poller polls until it is cancelled, and then makes no more requests.
PollsUntilCancelled == KeepsPolling /\ ComesToRest

\* proxy_rotating_poller.go:139: "Stop execution on context cancellation".
CancelStops == (running /\ ctxDone) ~> pc = "stopped"

\* proxy_rotating_poller.go:201: "Context cancelled, waiting for goroutines to
\* finish".  The wait for them ends.
GoroutinesFinish == pc = "draining" ~> pc # "draining"
=============================================================================
