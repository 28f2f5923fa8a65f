-------------------------- MODULE ClientsQueuePool --------------------------
(***************************************************************************)
(* The pool of client groups of pkg/httptools/clients_queue.go: a buffered *)
(* channel of members, each a group of clients and the time it was last    *)
(* acquired.  Acquire takes the head of the channel, waits until the group *)
(* has rested and hands it out with a closure that puts it back.           *)
(*                                                                         *)
(* Acquire is split where other goroutines, and the clock, can come in     *)
(* between: the receive, the time stamp, the measurement of the elapsed    *)
(* time, the end of the sleep.  The clock is not a counter: every time the *)
(* code keeps is represented by its age, which saturates at RestInterval   *)
(* because the code never tells longer ages apart.                         *)
(***************************************************************************)
EXTENDS Integers, FiniteSets, Sequences, Functions

CONSTANTS Groups,        \* the groups NewClientsQueuePool formed
          Callers,       \* goroutines that call Acquire
          NoGroup,       \* what a caller that is not in Acquire works on
          RestInterval,  \* clientRestInterval, in clock ticks
          Capacity       \* capacity of the channel: the number of clients

ASSUME GroupsAssumption == /\ IsFiniteSet(Groups)
                           /\ NoGroup \notin Groups
ASSUME RestAssumption == RestInterval \in Nat \ {0}
ASSUME CapacityAssumption == /\ Capacity \in Nat
                             /\ Cardinality(Groups) <= Capacity

VARIABLES queue,           \* members: the groups in the channel, head first
          lastAcquiredAt,  \* age of member.lastAcquiredAt
          pc,              \* where each caller is in Acquire
          member,          \* the group each caller received
          acquiredAt,      \* age of the acquiredAt a release closure captured
          sleepLeft,       \* what is left of the caller's time.Sleep
          inUse,           \* groups returned by Acquire and not yet released
          lastUse,         \* history: age of the latest return of Acquire
          prevUse          \* history: age of the return before it

vars == <<queue, lastAcquiredAt, pc, member, acquiredAt, sleepLeft,
          inUse, lastUse, prevUse>>

Ages == 0..RestInterval

Older(age) == IF age < RestInterval THEN age + 1 ELSE RestInterval

Aged(ages) == [x \in DOMAIN ages |-> Older(ages[x])]

\* All members carry the one initTime; the order of the groups is the order
\* in which NewClientsQueuePool formed them.
Init == /\ queue \in Bijection(1..Cardinality(Groups), Groups)
        /\ lastAcquiredAt = [g \in Groups |-> 0]
        /\ pc = [c \in Callers |-> "idle"]
        /\ member = [c \in Callers |-> NoGroup]
        /\ acquiredAt = [g \in Groups |-> RestInterval]
        /\ sleepLeft = [c \in Callers |-> 0]
        /\ inUse = {}
        /\ lastUse = [g \in Groups |-> RestInterval]
        /\ prevUse = [g \in Groups |-> RestInterval]

-----------------------------------------------------------------------------
\* Mutant: the head is read and left in the channel.
PeekQueue(q) == q

\* What a receive leaves in the channel.
AfterReceive(q) == Tail(q)

\* Mutant: a released group goes back to the front.
PushFront(q, g) == <<g>> \o q

\* What a send leaves in the channel.
AfterSend(q, g) == Append(q, g)

\* Mutant: the test of elapsed is gone and the wait is one tick short.
UnguardedSleep(elapsed) == RestInterval - elapsed - 1

\* Mutant: the wait is cut short by one tick.
ShortSleep(elapsed) == IF elapsed < RestInterval THEN RestInterval - elapsed - 1 ELSE 0

\* The time Acquire sleeps for a member acquired that long ago.
SleepFor(elapsed) == IF elapsed < RestInterval THEN RestInterval - elapsed ELSE 0

\* Mutant: the release closure captured the stamp the member came with.
OldStamp(g) == lastAcquiredAt[g]

\* The stamp with which the release closure puts the group back.
ReleaseStamp(g) == acquiredAt[g]

-----------------------------------------------------------------------------
\* member := <-q.members
Receive(c) == /\ pc[c] = "idle"
              /\ queue # <<>>
              /\ member' = [member EXCEPT ![c] = Head(queue)]
              /\ queue' = AfterReceive(queue)
              /\ pc' = [pc EXCEPT ![c] = "received"]
              /\ UNCHANGED <<lastAcquiredAt, acquiredAt, sleepLeft,
                             inUse, lastUse, prevUse>>

\* acquiredAt := time.Now()
Stamp(c) == /\ pc[c] = "received"
            /\ acquiredAt' = [acquiredAt EXCEPT ![member[c]] = 0]
            /\ pc' = [pc EXCEPT ![c] = "stamped"]
            /\ UNCHANGED <<queue, lastAcquiredAt, member, sleepLeft,
                           inUse, lastUse, prevUse>>

\* elapsed := time.Since(...), and the start of the sleep, of length 0 when
\* the group has rested.
Measure(c) ==
    /\ pc[c] = "stamped"
    /\ sleepLeft' = [sleepLeft EXCEPT ![c] = SleepFor(lastAcquiredAt[member[c]])]
    /\ pc' = [pc EXCEPT ![c] = "sleeping"]
    /\ UNCHANGED <<queue, lastAcquiredAt, member, acquiredAt,
                   inUse, lastUse, prevUse>>

\* The sleep is over (time.Sleep may last longer, never shorter) and Acquire
\* returns: the use of the group begins.
Return(c) == LET g == member[c] IN
    /\ pc[c] = "sleeping"
    /\ sleepLeft[c] = 0
    /\ inUse' = inUse \union {g}
    /\ prevUse' = [prevUse EXCEPT ![g] = lastUse[g]]
    /\ lastUse' = [lastUse EXCEPT ![g] = 0]
    /\ member' = [member EXCEPT ![c] = NoGroup]
    /\ pc' = [pc EXCEPT ![c] = "idle"]
    /\ UNCHANGED <<queue, lastAcquiredAt, acquiredAt, sleepLeft>>

\* The release closure: a send that would block on a full channel.
Release(g) == /\ g \in inUse
              /\ Len(queue) < Capacity
              /\ queue' = AfterSend(queue, g)
              /\ lastAcquiredAt' = [lastAcquiredAt EXCEPT ![g] = ReleaseStamp(g)]
              /\ inUse' = inUse \ {g}
              /\ UNCHANGED <<pc, member, acquiredAt, sleepLeft, lastUse, prevUse>>

\* The clock: every age grows, every sleep gets shorter.
Tick == /\ lastAcquiredAt' = Aged(lastAcquiredAt)
        /\ acquiredAt' = Aged(acquiredAt)
        /\ lastUse' = Aged(lastUse)
        /\ prevUse' = Aged(prevUse)
        /\ sleepLeft' = [c \in Callers |->
                           IF sleepLeft[c] > 0 THEN sleepLeft[c] - 1 ELSE 0]
        /\ UNCHANGED <<queue, pc, member, inUse>>

Next == \/ \E c \in Callers : Receive(c) \/ Stamp(c) \/ Measure(c) \/ Return(c)
        \/ \E g \in Groups : Release(g)
        \/ Tick

Spec == Init /\ [][Next]_vars

\* Time passes, goroutines are scheduled, every user gives its group back (a
\* request is bounded by its timeout) and a caller that waits on the channel
\* is served: Go's receivers queue up, hence the strong fairness of Receive.
Fairness == /\ WF_vars(Tick)
            /\ \A c \in Callers : /\ SF_vars(Receive(c))
                                  /\ WF_vars(Stamp(c))
                                  /\ WF_vars(Measure(c))
                                  /\ WF_vars(Return(c))
            /\ \A g \in Groups : WF_vars(Release(g))

FairSpec == Spec /\ Fairness

-----------------------------------------------------------------------------
\* The types of the variables.
TypeOK == /\ queue \in Seq(Groups)
          /\ lastAcquiredAt \in [Groups -> Ages]
          /\ pc \in [Callers -> {"idle", "received", "stamped", "sleeping"}]
          /\ member \in [Callers -> Groups \union {NoGroup}]
          /\ acquiredAt \in [Groups -> Ages]
          /\ sleepLeft \in [Callers -> Ages]
          /\ inUse \subseteq Groups
          /\ lastUse \in [Groups -> Ages]
          /\ prevUse \in [Groups -> Ages]

Queued == Range(queue)

Received == {member[c] : c \in Callers} \ {NoGroup}

\* No group is lost and none is in two places: each is in the channel once,
\* or in the hands of one caller inside Acquire, or in use.  Two users of one
\* group would double its request rate; a lost group would lower the pool's.
OnePlace ==
    /\ IsInjective(queue)
    /\ \A c, d \in Callers : member[c] = member[d] /\ c # d => member[c] = NoGroup
    /\ Queued \union Received \union inUse = Groups
    /\ Queued \intersect Received = {}
    /\ (Queued \union Received) \intersect inUse = {}

\* A release closure never blocks its goroutine: while a group is in use the
\* channel, as large as the number of clients, has room for it.
ReleaseNeverBlocks == inUse # {} => Len(queue) < Capacity

\* Acquire stamps the group before it sleeps, so two uses in a row may be
\* close together, but a third never is: when Acquire returns a group, at
\* least RestInterval has passed since the use before the previous one.
TwoUsesApart ==
    [][\A g \in Groups : g \in inUse' \ inUse => prevUse[g] >= RestInterval]_vars

\* The pool rotates: every group is used again and again.
Rotates == \A g \in Groups : []<>(g \in inUse)

\* The pool keeps the promise of the interface the poller is written against.
Pool == INSTANCE ClientsPool

ImplementsPool == Pool!Spec
=============================================================================
