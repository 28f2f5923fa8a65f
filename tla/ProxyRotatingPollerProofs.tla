---------------------- MODULE ProxyRotatingPollerProofs ----------------------
(***************************************************************************)
(* Proofs about ProxyRotatingPoller for every pool of groups, every set of *)
(* URLs and of replies and any number of panics and schedule errors: the   *)
(* pool agrees with what the goroutines do, no request is on the wire to a *)
(* URL that SetURL has left, and a cancelled loop starts at most one poll. *)
(***************************************************************************)
EXTENDS ProxyRotatingPoller, QueueLemmas, FiniteSetTheorems

\* The states of a goroutine of a client.
WorkerStates == {"idle", "spawned", "requesting", "sending", "done"}

\* The clients of different groups are different, and no group is empty.
LEMMA GroupsApart ==
  /\ \A g \in Groups : MembersOf[g] \subseteq Clients /\ MembersOf[g] # {}
  /\ \A g, h \in Groups : g # h => \A c \in MembersOf[g] : c \notin MembersOf[h]
BY PoolAssumption

LEMMA ChanSizeType == ChanSize \in Nat
<1>1. Cardinality(Clients) \in Nat
  BY PoolAssumption, FS_CardinalityType
<1> QED
  BY <1>1 DEF ChanSize

-----------------------------------------------------------------------------
LEMMA InitPoller == Init => PoolMatchesWorkers
<1> SUFFICES ASSUME Init PROVE PoolMatchesWorkers
  OBVIOUS
<1>1. Cardinality(Groups) \in Nat
  BY PoolAssumption, FS_CardinalityType
<1>2. /\ idleGroups \in [1..Cardinality(Groups) -> Groups]
      /\ IsInjective(idleGroups)
      /\ Range(idleGroups) = Groups
  BY DEF Init, Bijection, Injection, Surjection, Range
<1>3. idleGroups \in Seq(Groups)
  BY <1>1, <1>2, SeqDef
<1>4. \A g \in Groups : \A c \in MembersOf[g] : worker[c] = "idle"
  BY GroupsApart DEF Init
<1>5. responses \in Seq(Replies \union {Empty}) /\ Len(responses) <= ChanSize
  BY ChanSizeType DEF Init
<1>6. TypeOK
  <2>1. faults \in 0..MaxFaults /\ late \in 0..2
    BY FaultsAssumption DEF Init
  <2>2. /\ worker \in [Clients -> WorkerStates]
        /\ requestURL \in [Clients -> URLs]
        /\ response \in [Clients -> Replies \union {Empty}]
    BY DEF Init, WorkerStates
  <2> QED
    BY <1>3, <1>5, <2>1, <2>2 DEF Init, TypeOK, WorkerStates
<1> QED
  BY <1>2, <1>4, <1>6 DEF PoolMatchesWorkers

LEMMA NextType == PoolMatchesWorkers /\ [Next]_pollerVars => TypeOK'
<1> SUFFICES ASSUME TypeOK, [Next]_pollerVars PROVE TypeOK'
  BY DEF PoolMatchesWorkers
<1> USE DEF loopVars, urlVars, workerVars
<1>1. CASE StartPolling
  BY <1>1 DEF TypeOK, StartPolling
<1>2. CASE Begin \/ CheckWork \/ WakeUp \/ Select \/ Pace
  BY <1>2 DEF TypeOK, Begin, CheckWork, WakeUp, Select, Pace
<1>3. CASE Drain
  BY <1>3 DEF TypeOK, Drain, ReturnWith
<1>4. CASE ScheduleError \/ Panic
  BY <1>4, FaultsAssumption DEF TypeOK, ScheduleError, Panic, ReturnWith
<1>5. CASE Acquire
  <2>1. Head(idleGroups) \in Groups /\ Tail(idleGroups) \in Seq(Groups)
    BY <1>5, HeadTailProperties DEF TypeOK, Acquire
  <2>2. late' \in 0..2
    BY <1>5 DEF TypeOK, Acquire
  <2> QED
    BY <1>5, <2>1, <2>2 DEF TypeOK, Acquire
<1>6. ASSUME NEW c \in Clients, SendRequest(c) PROVE TypeOK'
  BY <1>6 DEF TypeOK, SendRequest
<1>7. ASSUME NEW c \in Clients, SendResponse(c) PROVE TypeOK'
  <2>1. /\ Append(responses, response[c]) \in Seq(Replies \union {Empty})
        /\ Len(Append(responses, response[c])) = Len(responses) + 1
        /\ Len(responses) \in Nat
    BY <1>7, AppendProperties, LenProperties DEF TypeOK
  <2>2. Len(responses) + 1 <= ChanSize
    BY <1>7, <2>1, ChanSizeType DEF SendResponse, HasRoom
  <2>3. /\ worker' = [worker EXCEPT ![c] = "done"]
        /\ response' = [response EXCEPT ![c] = Empty]
        /\ responses' = Append(responses, response[c])
        /\ UNCHANGED <<loopVars, urlVars, requestURL>>
    BY <1>7 DEF SendResponse
  <2> QED
    BY <2>1, <2>2, <2>3 DEF TypeOK
<1>8. ASSUME NEW c \in Clients, NEW r \in Replies \union {Empty}, RequestDone(c, r)
      PROVE  TypeOK'
  BY <1>8 DEF TypeOK, RequestDone
<1>9. ASSUME NEW c \in Clients, RequestDropped(c) PROVE TypeOK'
  BY <1>9 DEF TypeOK, RequestDropped
<1>10. ASSUME NEW g \in Groups, ReleaseGroup(g) PROVE TypeOK'
  <2>1. Append(idleGroups, g) \in Seq(Groups)
    BY AppendProperties DEF TypeOK
  <2>2. worker' \in [Clients -> WorkerStates]
    BY <1>10 DEF TypeOK, ReleaseGroup, WorkerStates
  <2> QED
    BY <1>10, <2>1, <2>2 DEF TypeOK, ReleaseGroup, WorkerStates
<1>11. ASSUME NEW u \in URLs, SetURLCall(u) PROVE TypeOK'
  BY <1>11 DEF TypeOK, SetURLCall
<1>12. CASE SetURLReturn
  BY <1>12 DEF TypeOK, SetURLReturn
<1>13. CASE Receive
  <2>1. /\ Tail(responses) \in Seq(Replies \union {Empty})
        /\ Len(Tail(responses)) = Len(responses) - 1
        /\ Len(responses) \in Nat
    BY <1>13, HeadTailProperties, LenProperties DEF TypeOK, Receive
  <2> QED
    BY <1>13, <2>1, ChanSizeType DEF TypeOK, Receive
<1>14. CASE Cancel \/ ScheduleTurns
  BY <1>14 DEF TypeOK, Cancel, ScheduleTurns
<1>15. CASE UNCHANGED pollerVars
  BY <1>15 DEF TypeOK, pollerVars
<1> QED
  BY <1>1, <1>2, <1>3, <1>4, <1>5, <1>6, <1>7, <1>8, <1>9, <1>10, <1>11, <1>12,
     <1>13, <1>14, <1>15 DEF Next, LoopStep, WorkerStep

-----------------------------------------------------------------------------
(* The pool and the goroutines. *)

\* Which groups have nothing to do.
Resting(g) == \A c \in MembersOf[g] : worker[c] = "idle"

\* A step of one client that is at work, and stays so, leaves every group at
\* rest or at work.
LEMMA ClientAtWork ==
  ASSUME PoolMatchesWorkers, NEW c \in Clients, NEW place \in WorkerStates \ {"idle"},
         worker[c] # "idle", worker' = [worker EXCEPT ![c] = place],
         UNCHANGED idleGroups
  PROVE  /\ IsInjective(idleGroups')
         /\ \A g \in Groups : g \in Range(idleGroups') <=> Resting(g)'
<1>1. \A g \in Groups : Resting(g)' <=> Resting(g)
  BY GroupsApart DEF PoolMatchesWorkers, TypeOK, Resting, WorkerStates
<1> QED
  BY <1>1 DEF PoolMatchesWorkers, Resting

LEMMA NextPool == PoolMatchesWorkers /\ [Next]_pollerVars => PoolMatchesWorkers'
<1> SUFFICES ASSUME PoolMatchesWorkers, [Next]_pollerVars
             PROVE  /\ IsInjective(idleGroups')
                    /\ \A g \in Groups : g \in Range(idleGroups') <=> Resting(g)'
  BY NextType DEF PoolMatchesWorkers, Resting
<1> DEFINE Agree == /\ IsInjective(idleGroups')
                    /\ \A g \in Groups : g \in Range(idleGroups') <=> Resting(g)'
<1>1. CASE Acquire
  <2>1. PICK h \in Groups : h = Head(idleGroups)
    BY <1>1, HeadTailProperties DEF PoolMatchesWorkers, TypeOK, Acquire
  <2>2. /\ IsInjective(idleGroups')
        /\ Range(idleGroups') = Range(idleGroups) \ {h}
    BY <1>1, <2>1, ReceiveRange DEF PoolMatchesWorkers, TypeOK, Acquire
  <2>3. worker' = [c \in Clients |-> IF c \in MembersOf[h] THEN "spawned" ELSE worker[c]]
    BY <1>1, <2>1 DEF Acquire
  <2>4. ~Resting(h)'
    BY <2>3, GroupsApart DEF Resting
  <2>5. \A g \in Groups \ {h} : Resting(g)' <=> Resting(g)
    BY <2>3, GroupsApart DEF Resting
  <2> QED
    BY <2>2, <2>4, <2>5 DEF PoolMatchesWorkers, Resting
<1>2. ASSUME NEW g \in Groups, ReleaseGroup(g) PROVE Agree
  <2>1. /\ g \notin Range(idleGroups)
        /\ \A c \in MembersOf[g] : worker[c] = "done"
        /\ worker' = [c \in Clients |-> IF c \in MembersOf[g] /\ worker[c] = "done"
                                        THEN "idle" ELSE worker[c]]
        /\ idleGroups' = Append(idleGroups, g)
    BY <1>2 DEF ReleaseGroup, AllDone
  <2>2. IsInjective(idleGroups') /\ Range(idleGroups') = Range(idleGroups) \union {g}
    BY <2>1, SendRange DEF PoolMatchesWorkers, TypeOK
  <2>3. Resting(g)'
    BY <2>1, GroupsApart DEF Resting
  <2>4. \A h \in Groups \ {g} : Resting(h)' <=> Resting(h)
    BY <2>1, GroupsApart DEF Resting
  <2> QED
    BY <2>2, <2>3, <2>4 DEF PoolMatchesWorkers, Resting
<1>3. ASSUME NEW c \in Clients, SendRequest(c) PROVE Agree
  BY <1>3, ClientAtWork DEF SendRequest, loopVars, WorkerStates
<1>4. ASSUME NEW c \in Clients, SendResponse(c) PROVE Agree
  BY <1>4, ClientAtWork DEF SendResponse, loopVars, WorkerStates
<1>5. ASSUME NEW c \in Clients, NEW r \in Replies \union {Empty}, RequestDone(c, r)
      PROVE  Agree
  BY <1>5, ClientAtWork DEF RequestDone, loopVars, WorkerStates
<1>6. ASSUME NEW c \in Clients, RequestDropped(c) PROVE Agree
  BY <1>6, ClientAtWork DEF RequestDropped, loopVars, WorkerStates
<1>7. CASE UNCHANGED <<idleGroups, worker>>
  BY <1>7 DEF PoolMatchesWorkers, Resting
<1> QED
  BY <1>1, <1>2, <1>3, <1>4, <1>5, <1>6, <1>7
     DEF Next, LoopStep, WorkerStep, pollerVars, loopVars, workerVars, StartPolling,
         Begin, CheckWork, WakeUp, Select, Drain, Pace, ScheduleError, Panic,
         SetURLCall, SetURLReturn, Receive, Cancel, ScheduleTurns

\* Whatever restarts the loop goes through, a group is in the pool exactly when
\* its clients have nothing to do; a client never makes two requests at a time.
THEOREM PoolAgrees == Spec => []PoolMatchesWorkers
<1> QED
  BY InitPoller, NextPool, PTL DEF Spec

-----------------------------------------------------------------------------
(* The URL. *)

LEMMA NextFresh == TypeOK /\ NoStaleRequest /\ [Next]_pollerVars => NoStaleRequest'
<1> SUFFICES ASSUME TypeOK, NoStaleRequest, [Next]_pollerVars,
                    NEW c \in Clients, worker'[c] = "requesting"
             PROVE  requestURL'[c] = url'
  BY DEF NoStaleRequest
<1> USE DEF loopVars, urlVars, workerVars
<1>1. CASE SendRequest(c)
  BY <1>1 DEF TypeOK, SendRequest
<1>2. CASE SetURLReturn
  BY <1>2 DEF SetURLReturn, Readers
<1>3. CASE worker[c] = "requesting" /\ requestURL'[c] = requestURL[c] /\ url' = url
  BY <1>3 DEF NoStaleRequest
<1>4. ASSUME NEW d \in Clients, d # c, SendRequest(d) PROVE requestURL'[c] = url'
  BY <1>3, <1>4 DEF TypeOK, SendRequest
<1>5. ASSUME NEW d \in Clients, SendResponse(d) PROVE requestURL'[c] = url'
  BY <1>3, <1>5 DEF TypeOK, SendResponse
<1>6. ASSUME NEW d \in Clients, NEW r, RequestDone(d, r) PROVE requestURL'[c] = url'
  BY <1>3, <1>6 DEF TypeOK, RequestDone
<1>7. ASSUME NEW d \in Clients, RequestDropped(d) PROVE requestURL'[c] = url'
  BY <1>3, <1>7 DEF TypeOK, RequestDropped
<1>8. CASE Acquire
  BY <1>3, <1>8 DEF TypeOK, Acquire
<1>9. ASSUME NEW g \in Groups, ReleaseGroup(g) PROVE requestURL'[c] = url'
  BY <1>3, <1>9 DEF TypeOK, ReleaseGroup
<1>10. CASE UNCHANGED <<worker, requestURL, url>>
  BY <1>3, <1>10
<1> QED
  BY <1>1, <1>2, <1>4, <1>5, <1>6, <1>7, <1>8, <1>9, <1>10
     DEF Next, LoopStep, WorkerStep, pollerVars, StartPolling, Begin, CheckWork,
         WakeUp, Select, Drain, Pace, ScheduleError, Panic, SetURLCall, Receive,
         Cancel, ScheduleTurns

\* Once SetURL has returned, no request to another URL is on the wire.
THEOREM RequestsAreFresh == Spec => []NoStaleRequest
<1>1. Init => NoStaleRequest
  BY DEF Init, NoStaleRequest
<1>2. PoolMatchesWorkers => TypeOK
  BY DEF PoolMatchesWorkers
<1> QED
  BY <1>1, <1>2, NextFresh, PoolAgrees, PTL DEF Spec

-----------------------------------------------------------------------------
(* The cancellation. *)

\* Nothing is late before the cancellation, and a loop that is about to acquire
\* a group was sent there by a context that was alive.
LateInv == /\ late \in {0, 1}
           /\ ~ctxDone \/ pc = "acquire" => late = 0

LEMMA NextLate == LateInv /\ [Next]_pollerVars => LateInv'
<1> SUFFICES ASSUME LateInv, [Next]_pollerVars PROVE LateInv'
  OBVIOUS
<1>1. CASE Acquire
  BY <1>1 DEF LateInv, Acquire
<1>2. CASE Select
  BY <1>2 DEF LateInv, Select, SeesDone
<1>3. CASE Cancel
  BY <1>3 DEF LateInv, Cancel
<1>4. CASE UNCHANGED <<ctxDone, late>> /\ (pc' = pc \/ pc' # "acquire")
  BY <1>4 DEF LateInv
<1> QED
  BY <1>1, <1>2, <1>3, <1>4
     DEF Next, LoopStep, WorkerStep, pollerVars, loopVars, StartPolling, Begin,
         CheckWork, WakeUp, Drain, Pace, ScheduleError, Panic, ReturnWith,
         SendRequest, SendResponse, RequestDone, RequestDropped, ReleaseGroup,
         SetURLCall, SetURLReturn, Receive, ScheduleTurns

\* However often the cancelled loop is called again, it starts at most the poll
\* it had decided on.
THEOREM OneLatePoll == Spec => []AtMostOneLatePoll
<1>1. Init => LateInv
  BY DEF Init, LateInv
<1>2. LateInv => AtMostOneLatePoll
  BY DEF LateInv, AtMostOneLatePoll
<1> QED
  BY <1>1, <1>2, NextLate, PTL DEF Spec
=============================================================================
