----------------------- MODULE ClientsQueuePoolProofs -----------------------
(***************************************************************************)
(* Proofs about ClientsQueuePool for every set of groups and callers and   *)
(* every rest interval: type correctness, the place of every group, the    *)
(* room in the channel for a release, and the rate the pool really keeps,  *)
(* which is that ClientsQueuePool implements ClientsPool.  And about       *)
(* ClientGroups, the builder and the constructor, for every number of      *)
(* proxies, in whatever locations, and all rates: what becomes of each     *)
(* client, and that the groups are what the pool counts on.                *)
(***************************************************************************)
EXTENDS ClientsQueuePool, ClientGroups, QueueLemmas, FiniteSetTheorems

\* Ages stay in range when the clock ticks, and their order is kept.
LEMMA OlderType == \A a \in Ages : Older(a) \in Ages
BY RestAssumption DEF Ages, Older

LEMMA OlderMonotonic == \A a, b \in Ages : a <= b => Older(a) <= Older(b)
BY RestAssumption DEF Ages, Older

\* Where a caller is in Acquire tells whether it has a group in its hands.
PcMember == \A c \in Callers : (pc[c] = "idle") <=> (member[c] = NoGroup)

-----------------------------------------------------------------------------
LEMMA InitType == Init => TypeOK /\ PcMember
<1> SUFFICES ASSUME Init PROVE TypeOK /\ PcMember
  OBVIOUS
<1>1. Cardinality(Groups) \in Nat
  BY GroupsAssumption, FS_CardinalityType
<1>2. queue \in [1..Cardinality(Groups) -> Groups]
  BY DEF Init, Bijection, Injection
<1>3. queue \in Seq(Groups)
  BY <1>1, <1>2, SeqDef
<1> QED
  BY <1>3, RestAssumption DEF Init, TypeOK, PcMember, Ages

LEMMA NextType == TypeOK /\ PcMember /\ [Next]_vars => TypeOK' /\ PcMember'
<1> SUFFICES ASSUME TypeOK, PcMember, [Next]_vars
             PROVE  TypeOK' /\ PcMember'
  OBVIOUS
<1> USE GroupsAssumption, RestAssumption
<1>1. ASSUME NEW c \in Callers, Receive(c) PROVE TypeOK' /\ PcMember'
  <2>1. Head(queue) \in Groups /\ Tail(queue) \in Seq(Groups)
    BY <1>1, HeadTailProperties DEF TypeOK, Receive
  <2> QED
    BY <1>1, <2>1 DEF TypeOK, PcMember, Receive, AfterReceive
<1>2. ASSUME NEW c \in Callers, Stamp(c) PROVE TypeOK' /\ PcMember'
  <2>1. 0 \in Ages
    BY DEF Ages
  <2> QED
    BY <1>2, <2>1 DEF TypeOK, PcMember, Stamp
<1>3. ASSUME NEW c \in Callers, Measure(c) PROVE TypeOK' /\ PcMember'
  <2>1. member[c] \in Groups
    BY <1>3 DEF TypeOK, PcMember, Measure
  <2>2. SleepFor(lastAcquiredAt[member[c]]) \in Ages
    BY <2>1 DEF TypeOK, SleepFor, Ages
  <2> QED
    BY <1>3, <2>2 DEF TypeOK, PcMember, Measure
<1>4. ASSUME NEW c \in Callers, Return(c) PROVE TypeOK' /\ PcMember'
  <2>1. member[c] \in Groups
    BY <1>4 DEF TypeOK, PcMember, Return
  <2>2. 0 \in Ages
    BY DEF Ages
  <2>3. lastUse' \in [Groups -> Ages] /\ prevUse' \in [Groups -> Ages]
    BY <1>4, <2>1, <2>2 DEF TypeOK, Return
  <2> QED
    BY <1>4, <2>1, <2>3 DEF TypeOK, PcMember, Return
<1>5. ASSUME NEW g \in Groups, Release(g) PROVE TypeOK' /\ PcMember'
  <2>1. Append(queue, g) \in Seq(Groups)
    BY AppendProperties DEF TypeOK
  <2> QED
    BY <1>5, <2>1 DEF TypeOK, PcMember, Release, AfterSend, ReleaseStamp
<1>6. CASE Tick
  <2>1. /\ lastAcquiredAt' \in [Groups -> Ages]
        /\ acquiredAt' \in [Groups -> Ages]
        /\ lastUse' \in [Groups -> Ages]
        /\ prevUse' \in [Groups -> Ages]
    BY <1>6, OlderType DEF TypeOK, Tick, Aged
  <2>2. sleepLeft' \in [Callers -> Ages]
    BY <1>6 DEF TypeOK, Tick, Ages
  <2> QED
    BY <1>6, <2>1, <2>2 DEF TypeOK, PcMember, Tick
<1>7. CASE UNCHANGED vars
  BY <1>7 DEF TypeOK, PcMember, vars
<1> QED
  BY <1>1, <1>2, <1>3, <1>4, <1>5, <1>6, <1>7 DEF Next

\* The pool never leaves its types.
THEOREM TypeCorrect == Spec => []TypeOK
<1>1. Spec => [](TypeOK /\ PcMember)
  BY InitType, NextType, PTL DEF Spec
<1> QED
  BY <1>1, PTL

-----------------------------------------------------------------------------
(* The place of every group. *)

LEMMA InitPlace == Init => OnePlace
<1> SUFFICES ASSUME Init PROVE OnePlace
  OBVIOUS
<1>1. IsInjective(queue) /\ Queued = Groups
  BY DEF Init, Bijection, Injection, Surjection, Queued, Range
<1>2. Received = {}
  BY DEF Init, Received
<1> QED
  BY <1>1, <1>2 DEF Init, OnePlace

LEMMA NextPlace == TypeOK /\ PcMember /\ OnePlace /\ [Next]_vars => OnePlace'
<1> SUFFICES ASSUME TypeOK, PcMember, OnePlace, [Next]_vars PROVE OnePlace'
  OBVIOUS
<1> USE GroupsAssumption
<1>1. ASSUME NEW c \in Callers, Receive(c) PROVE OnePlace'
  <2> DEFINE h == Head(queue)
  <2>1. /\ IsInjective(queue')
        /\ h \in Queued
        /\ Queued' = Queued \ {h}
    BY <1>1, ReceiveRange DEF TypeOK, OnePlace, Receive, AfterReceive, Queued
  <2>2. h \in Groups /\ member[c] = NoGroup
    BY <1>1, HeadTailProperties DEF TypeOK, PcMember, Receive
  <2>3. member' = [member EXCEPT ![c] = h] /\ inUse' = inUse
    BY <1>1 DEF Receive
  <2>4. Received' = Received \union {h}
    BY <2>2, <2>3 DEF TypeOK, Received
  <2>5. \A d \in Callers : member[d] # h
    BY <2>1, <2>2 DEF OnePlace, Received
  <2>6. \A d, e \in Callers : member'[d] = member'[e] /\ d # e => member'[d] = NoGroup
    BY <2>3, <2>5 DEF OnePlace, TypeOK
  <2> HIDE DEF h
  <2> QED
    BY <2>1, <2>2, <2>3, <2>4, <2>6 DEF OnePlace
<1>2. ASSUME NEW c \in Callers, Return(c) PROVE OnePlace'
  <2> DEFINE g == member[c]
  <2>1. g \in Groups /\ g \in Received
    BY <1>2 DEF TypeOK, PcMember, Return, Received
  <2>2. /\ member' = [member EXCEPT ![c] = NoGroup]
        /\ inUse' = inUse \union {g}
        /\ queue' = queue /\ Queued' = Queued
    BY <1>2 DEF Return, Queued
  <2>3. \A d \in Callers \ {c} : member[d] # g
    BY <2>1 DEF OnePlace
  <2>4. Received' = Received \ {g}
    BY <2>2, <2>3 DEF TypeOK, Received
  <2>5. \A d, e \in Callers : member'[d] = member'[e] /\ d # e => member'[d] = NoGroup
    BY <2>2 DEF OnePlace, TypeOK
  <2> HIDE DEF g
  <2> QED
    BY <2>1, <2>2, <2>4, <2>5 DEF OnePlace
<1>3. ASSUME NEW g \in Groups, Release(g) PROVE OnePlace'
  <2>1. g \in inUse /\ g \notin Queued /\ g \notin Received
    BY <1>3 DEF Release, OnePlace
  <2>2. /\ queue' = Append(queue, g)
        /\ inUse' = inUse \ {g}
        /\ member' = member /\ Received' = Received
    BY <1>3 DEF Release, AfterSend, Received
  <2>3. IsInjective(queue') /\ Queued' = Queued \union {g}
    BY <2>1, <2>2, SendRange DEF TypeOK, OnePlace, Queued
  <2> QED
    BY <2>1, <2>2, <2>3 DEF OnePlace
<1>4. CASE UNCHANGED <<queue, member, inUse>>
  BY <1>4 DEF OnePlace, Queued, Received
<1> QED
  BY <1>1, <1>2, <1>3, <1>4 DEF Next, Stamp, Measure, Tick, vars

\* No group is ever lost, duplicated or shared by two users.
THEOREM PlaceOfGroups == Spec => []OnePlace
<1> DEFINE IInv == TypeOK /\ PcMember /\ OnePlace
<1>1. Init => IInv
  BY InitType, InitPlace
<1>2. IInv /\ [Next]_vars => IInv'
  BY NextType, NextPlace
<1> QED
  BY <1>1, <1>2, PTL DEF Spec

\* A channel that holds each group at most once has room for one in use.
LEMMA RoomForRelease == TypeOK /\ OnePlace => ReleaseNeverBlocks
<1> SUFFICES ASSUME TypeOK, OnePlace, NEW g \in inUse PROVE Len(queue) < Capacity
  BY DEF ReleaseNeverBlocks
<1>1. /\ Len(queue) \in Nat
      /\ DOMAIN queue = 1..Len(queue)
      /\ queue \in [1..Len(queue) -> Groups]
  BY LenProperties DEF TypeOK
<1>2. g \in Groups /\ \A i \in 1..Len(queue) : queue[i] # g
  BY <1>1 DEF TypeOK, OnePlace, Queued, Range
<1>3. queue \in Injection(1..Len(queue), Groups \ {g})
  <2>1. queue \in [1..Len(queue) -> Groups \ {g}]
    BY <1>1, <1>2
  <2> QED
    BY <2>1 DEF OnePlace, Injection
<1>4. /\ IsFiniteSet(Groups \ {g})
      /\ Cardinality(Groups \ {g}) = Cardinality(Groups) - 1
      /\ Cardinality(Groups) \in Nat
  BY <1>2, FS_RemoveElement, FS_CardinalityType, GroupsAssumption
<1>5. Cardinality(1..Len(queue)) = Len(queue)
  BY <1>1, FS_Interval
<1>6. Cardinality(1..Len(queue)) <= Cardinality(Groups \ {g})
  BY <1>3, <1>4, FS_Injection
<1> QED
  BY <1>1, <1>4, <1>5, <1>6, CapacityAssumption

\* A release closure never blocks its goroutine on a full channel.
THEOREM ReleaseHasRoom == Spec => []ReleaseNeverBlocks
<1>1. TypeOK /\ OnePlace => ReleaseNeverBlocks
  BY RoomForRelease
<1> QED
  BY <1>1, TypeCorrect, PlaceOfGroups, PTL

-----------------------------------------------------------------------------
(* The rate at which a group is used. *)

\* The time stamps bound the uses of a group: the stamp a member carries was
\* taken after the use before the latest one, the stamp Acquire takes comes
\* after the latest use, and a sleep ends a rest interval after the stamp the
\* member carried.
RateInv ==
    /\ \A g \in Groups \ inUse : lastAcquiredAt[g] <= prevUse[g]
    /\ \A g \in inUse : acquiredAt[g] <= prevUse[g]
    /\ \A c \in Callers : pc[c] \in {"stamped", "sleeping"} =>
          acquiredAt[member[c]] <= lastUse[member[c]]
    /\ \A c \in Callers : pc[c] = "sleeping" =>
          lastAcquiredAt[member[c]] + sleepLeft[c] >= RestInterval

PoolInv == TypeOK /\ PcMember /\ OnePlace /\ RateInv

LEMMA InitRate == Init => RateInv
BY RestAssumption DEF Init, RateInv

\* A caller that is in Acquire has a group of its own, not in use.
LEMMA OwnGroup ==
  ASSUME TypeOK, PcMember, OnePlace, NEW c \in Callers, pc[c] # "idle"
  PROVE  /\ member[c] \in Groups
         /\ member[c] \notin inUse
         /\ member[c] \notin Queued
         /\ \A d \in Callers \ {c} : member[d] # member[c]
BY DEF TypeOK, PcMember, OnePlace, Received

\* When Acquire returns, the use before the previous one is long enough ago.
LEMMA ReturnApart ==
  ASSUME PoolInv, NEW c \in Callers, Return(c)
  PROVE  prevUse[member[c]] >= RestInterval
<1>1. member[c] \in Groups /\ member[c] \notin inUse
  BY OwnGroup DEF PoolInv, Return
<1>2. lastAcquiredAt[member[c]] \in Nat /\ prevUse[member[c]] \in Nat
  BY <1>1, RestAssumption DEF PoolInv, TypeOK, Ages
<1>3. lastAcquiredAt[member[c]] + 0 >= RestInterval
  BY DEF PoolInv, RateInv, Return
<1> QED
  BY <1>1, <1>2, <1>3, RestAssumption DEF PoolInv, RateInv

LEMMA NextRate == PoolInv /\ [Next]_vars => RateInv'
<1> SUFFICES ASSUME PoolInv, [Next]_vars PROVE RateInv'
  OBVIOUS
<1> USE RestAssumption
<1>0. TypeOK /\ PcMember /\ OnePlace /\ RateInv
  BY DEF PoolInv
<1>1. ASSUME NEW c \in Callers, Receive(c) PROVE RateInv'
  BY <1>0, <1>1 DEF RateInv, Receive, TypeOK
<1>2. ASSUME NEW c \in Callers, Stamp(c) PROVE RateInv'
  <2>1. /\ member[c] \in Groups /\ member[c] \notin inUse
        /\ \A d \in Callers \ {c} : member[d] # member[c]
    BY <1>0, <1>2, OwnGroup DEF Stamp
  <2>2. /\ acquiredAt' = [acquiredAt EXCEPT ![member[c]] = 0]
        /\ pc' = [pc EXCEPT ![c] = "stamped"]
        /\ UNCHANGED <<lastAcquiredAt, member, sleepLeft, inUse, lastUse, prevUse>>
    BY <1>2 DEF Stamp
  <2>3. \A g \in inUse : acquiredAt'[g] = acquiredAt[g]
    BY <1>0, <2>1, <2>2 DEF TypeOK
  <2>4. ASSUME NEW d \in Callers, pc'[d] \in {"stamped", "sleeping"}
        PROVE  acquiredAt'[member[d]] <= lastUse[member[d]]
    <3>1. CASE d = c
      BY <1>0, <2>1, <2>2, <3>1 DEF TypeOK, Ages
    <3>2. CASE d # c
      <4>1. pc[d] = pc'[d] /\ member[d] # member[c]
        BY <1>0, <2>1, <2>2, <3>2 DEF TypeOK
      <4>2. member[d] \in Groups
        BY <1>0, <2>4, <4>1, OwnGroup
      <4> QED
        BY <1>0, <2>2, <2>4, <4>1, <4>2 DEF TypeOK, RateInv
    <3> QED
      BY <3>1, <3>2
  <2>5. \A d \in Callers : pc'[d] = "sleeping" => pc[d] = "sleeping"
    BY <1>0, <2>2 DEF TypeOK
  <2> QED
    BY <1>0, <2>2, <2>3, <2>4, <2>5 DEF RateInv
<1>3. ASSUME NEW c \in Callers, Measure(c) PROVE RateInv'
  <2>1. member[c] \in Groups
    BY <1>0, <1>3, OwnGroup DEF Measure
  <2>2. lastAcquiredAt[member[c]] \in 0..RestInterval
    BY <1>0, <2>1 DEF TypeOK, Ages
  <2>3. lastAcquiredAt[member[c]] + SleepFor(lastAcquiredAt[member[c]]) >= RestInterval
    BY <2>2 DEF SleepFor
  <2> QED
    BY <1>0, <1>3, <2>3 DEF RateInv, Measure, TypeOK
<1>4. ASSUME NEW c \in Callers, Return(c) PROVE RateInv'
  <2> DEFINE g == member[c]
  <2>1. /\ g \in Groups /\ g \notin inUse
        /\ \A d \in Callers \ {c} : member[d] # g
    BY <1>0, <1>4, OwnGroup DEF Return
  <2>2. /\ inUse' = inUse \union {g}
        /\ prevUse' = [prevUse EXCEPT ![g] = lastUse[g]]
        /\ lastUse' = [lastUse EXCEPT ![g] = 0]
        /\ member' = [member EXCEPT ![c] = NoGroup]
        /\ pc' = [pc EXCEPT ![c] = "idle"]
        /\ UNCHANGED <<lastAcquiredAt, acquiredAt, sleepLeft>>
    BY <1>4 DEF Return
  <2>3. acquiredAt[g] <= lastUse[g]
    BY <1>0, <1>4 DEF RateInv, Return
  <2>4. \A h \in Groups \ {g} : prevUse'[h] = prevUse[h] /\ lastUse'[h] = lastUse[h]
    BY <1>0, <2>2 DEF TypeOK
  <2>5. prevUse'[g] = lastUse[g]
    BY <1>0, <2>1, <2>2 DEF TypeOK
  <2>6. \A d \in Callers : pc'[d] # "idle" =>
           /\ d # c /\ pc'[d] = pc[d] /\ member'[d] = member[d]
           /\ member[d] \in Groups \ {g}
    BY <1>0, <2>1, <2>2, OwnGroup DEF TypeOK
  <2> HIDE DEF g
  <2>7. \A h \in inUse' : acquiredAt'[h] <= prevUse'[h]
    BY <1>0, <2>2, <2>3, <2>4, <2>5 DEF RateInv, TypeOK
  <2>8. \A h \in Groups \ inUse' : lastAcquiredAt'[h] <= prevUse'[h]
    BY <1>0, <2>2, <2>4 DEF RateInv
  <2>9. \A d \in Callers : pc'[d] \in {"stamped", "sleeping"} =>
           acquiredAt'[member'[d]] <= lastUse'[member'[d]]
    BY <1>0, <2>2, <2>4, <2>6 DEF RateInv
  <2>10. \A d \in Callers : pc'[d] = "sleeping" =>
           lastAcquiredAt'[member'[d]] + sleepLeft'[d] >= RestInterval
    BY <1>0, <2>2, <2>6 DEF RateInv
  <2> QED
    BY <2>7, <2>8, <2>9, <2>10 DEF RateInv
<1>5. ASSUME NEW g \in Groups, Release(g) PROVE RateInv'
  <2>1. /\ g \in inUse
        /\ lastAcquiredAt' = [lastAcquiredAt EXCEPT ![g] = acquiredAt[g]]
        /\ inUse' = inUse \ {g}
        /\ UNCHANGED <<pc, member, acquiredAt, sleepLeft, lastUse, prevUse>>
    BY <1>5 DEF Release, ReleaseStamp
  <2>2. \A c \in Callers : pc[c] # "idle" => member[c] # g /\ member[c] \in Groups
    BY <1>0, <2>1, OwnGroup
  <2>3. \A h \in Groups : lastAcquiredAt'[h] = IF h = g THEN acquiredAt[g]
                                                         ELSE lastAcquiredAt[h]
    BY <1>0, <2>1 DEF TypeOK
  <2>4. \A h \in Groups \ inUse' : lastAcquiredAt'[h] <= prevUse'[h]
    BY <1>0, <2>1, <2>3 DEF RateInv
  <2>5. \A c \in Callers : pc'[c] = "sleeping" =>
           lastAcquiredAt'[member'[c]] + sleepLeft'[c] >= RestInterval
    BY <1>0, <2>1, <2>2, <2>3 DEF RateInv
  <2> QED
    BY <1>0, <2>1, <2>4, <2>5 DEF RateInv
<1>6. CASE Tick
  <2>1. \A g \in Groups : /\ lastAcquiredAt'[g] = Older(lastAcquiredAt[g])
                          /\ acquiredAt'[g] = Older(acquiredAt[g])
                          /\ lastUse'[g] = Older(lastUse[g])
                          /\ prevUse'[g] = Older(prevUse[g])
                          /\ lastAcquiredAt[g] \in Ages /\ acquiredAt[g] \in Ages
                          /\ lastUse[g] \in Ages /\ prevUse[g] \in Ages
    BY <1>0, <1>6 DEF Tick, Aged, TypeOK
  <2>2. /\ UNCHANGED <<pc, member, inUse>>
        /\ inUse \subseteq Groups
        /\ \A c \in Callers : pc[c] # "idle" => member[c] \in Groups
    BY <1>0, <1>6, OwnGroup DEF Tick, TypeOK
  <2>3. ASSUME NEW c \in Callers, pc[c] = "sleeping"
        PROVE  lastAcquiredAt'[member[c]] + sleepLeft'[c] >= RestInterval
    <3>1. /\ sleepLeft[c] \in 0..RestInterval
          /\ sleepLeft'[c] = IF sleepLeft[c] > 0 THEN sleepLeft[c] - 1 ELSE 0
      BY <1>0, <1>6 DEF Tick, TypeOK, Ages
    <3>2. lastAcquiredAt[member[c]] + sleepLeft[c] >= RestInterval
      BY <1>0, <2>3 DEF RateInv
    <3>3. /\ lastAcquiredAt[member[c]] \in 0..RestInterval
          /\ lastAcquiredAt'[member[c]] = Older(lastAcquiredAt[member[c]])
      BY <2>1, <2>2, <2>3 DEF Ages
    <3> QED
      BY <3>1, <3>2, <3>3 DEF Older
  <2>4. \A g \in Groups \ inUse : lastAcquiredAt'[g] <= prevUse'[g]
    BY <1>0, <2>1, OlderMonotonic DEF RateInv
  <2>5. \A g \in inUse : acquiredAt'[g] <= prevUse'[g]
    BY <1>0, <2>1, <2>2, OlderMonotonic DEF RateInv
  <2>6. \A c \in Callers : pc[c] \in {"stamped", "sleeping"} =>
           acquiredAt'[member[c]] <= lastUse'[member[c]]
    BY <1>0, <2>1, <2>2, OlderMonotonic DEF RateInv
  <2> QED
    BY <2>2, <2>3, <2>4, <2>5, <2>6 DEF RateInv
<1>7. CASE UNCHANGED vars
  BY <1>0, <1>7 DEF RateInv, vars
<1> QED
  BY <1>1, <1>2, <1>3, <1>4, <1>5, <1>6, <1>7 DEF Next

\* The invariant on which the rate promise rests.
THEOREM PoolInvariant == Spec => []PoolInv
<1>1. Init => PoolInv
  BY InitType, InitPlace, InitRate DEF PoolInv
<1>2. PoolInv /\ [Next]_vars => PoolInv'
  BY NextType, NextPlace, NextRate DEF PoolInv
<1> QED
  BY <1>1, <1>2, PTL DEF Spec

\* A step that puts a group in use is the return of an Acquire.
LEMMA OnlyReturnUses ==
  ASSUME PoolInv, [Next]_vars, NEW g \in Groups, g \in inUse' \ inUse
  PROVE  \E c \in Callers : Return(c) /\ member[c] = g
BY DEF Next, vars, Receive, Stamp, Measure, Return, Release, Tick

\* Any three uses of a group in a row take at least a rest interval.
THEOREM RateKept == Spec => TwoUsesApart
<1>1. PoolInv /\ [Next]_vars =>
        [\A g \in Groups : g \in inUse' \ inUse => prevUse[g] >= RestInterval]_vars
  BY OnlyReturnUses, ReturnApart
<1> QED
  BY <1>1, PoolInvariant, PTL DEF Spec, TwoUsesApart

\* Every step of the pool is a step of the interface or invisible in it.
LEMMA StepImplements == PoolInv /\ [Next]_vars => [Pool!Next]_(Pool!vars)
<1> SUFFICES ASSUME PoolInv, [Next]_vars PROVE [Pool!Next]_(Pool!vars)
  OBVIOUS
<1>1. ASSUME NEW c \in Callers, Return(c) PROVE Pool!Next
  <2>1. member[c] \in Groups /\ member[c] \notin inUse
    BY <1>1, OwnGroup DEF PoolInv, Return
  <2>2. Pool!Acquire(member[c])
    BY <1>1, <2>1, ReturnApart DEF Return, Pool!Acquire
  <2> QED
    BY <2>1, <2>2 DEF Pool!Next
<1>2. ASSUME NEW g \in Groups, Release(g) PROVE Pool!Next
  BY <1>2 DEF Release, Pool!Release, Pool!Next
<1>3. CASE Tick
  <2>1. DOMAIN lastUse = Groups /\ DOMAIN prevUse = Groups
    BY DEF PoolInv, TypeOK
  <2>2. Pool!Tick
    BY <1>3, <2>1 DEF Tick, Aged, Older, Pool!Tick, Pool!Older
  <2> QED
    BY <2>2 DEF Pool!Next
<1>4. CASE UNCHANGED <<inUse, lastUse, prevUse>>
  BY <1>4 DEF Pool!vars
<1> QED
  BY <1>1, <1>2, <1>3, <1>4 DEF Next, Receive, Stamp, Measure, vars

\* The pool implements the interface: exclusive use and the rate promise.
THEOREM PoolImplements == Spec => ImplementsPool
<1>1. Init => Pool!Init
  BY DEF Init, Pool!Init
<1>2. PoolInv /\ [Next]_vars => [Pool!Next]_(Pool!vars)
  BY StepImplements
<1> QED
  BY <1>1, <1>2, PoolInvariant, PTL DEF Spec, ImplementsPool, Pool!Spec
-----------------------------------------------------------------------------
(* ClientGroups: how the builder and the constructor form the groups. *)

\* Nothing was located yet, and after it: the locations in use, and the number
\* of clients of one that wait for a round.
NoneYet == location = <<>> /\ clientsByLocation = <<>> /\ members = <<>>
Used == {location[c] : c \in Clients}
InList(l) == IF l \in DOMAIN clientsByLocation THEN Len(clientsByLocation[l]) ELSE 0
Number(l) == Cardinality(At(l))

\* The lists hold clients of their location, each once.
ListsInv == /\ location \in [Clients -> Locations \union {"unknown"}]
            /\ DOMAIN clientsByLocation \subseteq Used
            /\ \A l \in DOMAIN clientsByLocation :
                  /\ clientsByLocation[l] \in Seq(At(l))
                  /\ IsInjective(clientsByLocation[l])

\* Each client is in one group or waits in its list.
PartsInv == /\ InGroups \union Waiting = Clients
            /\ InGroups \intersect Waiting = {}
            /\ \A i, j \in DOMAIN members : i # j => members[i] \intersect members[j] = {}

\* A group has one client of a location.
ApartInv == \A i \in DOMAIN members : \A c, d \in members[i] :
               c # d => location[c] # location[d]

\* Every round took one client of each location that had one, and the last of
\* the rounds was needed.
RoundsInv == /\ \A l \in Used : IF InList(l) = 0 THEN Number(l) <= Len(members)
                                ELSE Number(l) = Len(members) + InList(l)
             /\ (\A l \in Used : InList(l) = 0) => \E l \in Used : Number(l) = Len(members)

Located == ListsInv /\ PartsInv /\ ApartInv /\ RoundsInv

StageInv == /\ stage \in {"creating", "grouping", "counting", "built"} => Complete
            /\ stage \in {"checking", "creating"} => NoneYet
            /\ stage \in {"grouping", "counting", "built"} => Located
            /\ stage = "rejected" => NoneYet \/ Located
            /\ stage = "counting" => DOMAIN clientsByLocation = {}
            /\ stage = "built" => Enough

BuildInv == BuildTypeOK /\ StageInv

\* The elements of a list, by the names of two libraries.
LEMMA SetInBuilder == \A s : ToSet(s) = Range(s)
BY DEF ToSet, Range

\* A finite set of numbers can be listed in their order.
LEMMA Ordered ==
  ASSUME NEW n \in Nat, NEW S \in SUBSET (1..n), NEW s, s = InOrder(S)
  PROVE  /\ s \in Seq(S) /\ Len(s) = Cardinality(S)
         /\ IsInjective(s) /\ Range(s) = S
<1> DEFINE m == Cardinality(S)
           Upto(x) == {y \in S : y <= x}
           r == [x \in S |-> Cardinality(Upto(x))]
           IsList(f) == f \in [1..m -> S] /\ \A i, j \in 1..m : i < j => f[i] < f[j]
<1>0. \A x \in S : x \in Nat
  OBVIOUS
<1>1. /\ IsFiniteSet(S) /\ m \in Nat
      /\ IsFiniteSet(1..m) /\ Cardinality(1..m) = m
  <2>1. IsFiniteSet(1..n)
    BY FS_Interval
  <2>2. IsFiniteSet(S) /\ m \in Nat
    BY <2>1, FS_Subset, FS_CardinalityType
  <2>3. IsFiniteSet(1..m) /\ Cardinality(1..m) = m
    <3> HIDE DEF m
    <3> QED BY <2>2, FS_Interval
  <2> QED BY <2>2, <2>3
<1>2. ASSUME NEW x \in S
      PROVE  /\ IsFiniteSet(Upto(x)) /\ Cardinality(Upto(x)) \in 1..m
             /\ \A y \in S : y < x => Cardinality(Upto(y)) < Cardinality(Upto(x))
  <2>1. Upto(x) \in SUBSET S /\ x \in Upto(x)
    OBVIOUS
  <2>2. /\ IsFiniteSet(Upto(x)) /\ Cardinality(Upto(x)) \in Nat
        /\ Cardinality(Upto(x)) <= m
    BY <1>1, <2>1, FS_Subset, FS_CardinalityType
  <2>3. Cardinality(Upto(x)) # 0
    BY <2>1, <2>2, FS_EmptySet
  <2>4. ASSUME NEW y \in S, y < x PROVE Cardinality(Upto(y)) < Cardinality(Upto(x))
    <3>1. Upto(y) \in SUBSET Upto(x) /\ x \notin Upto(y)
      <4>1. \A z \in S : z <= y => z <= x
        BY <1>0, <2>4
      <4>2. ~(x <= y)
        BY <1>0, <2>4
      <4> QED BY <4>1, <4>2
    <3>2. /\ Cardinality(Upto(y)) <= Cardinality(Upto(x))
          /\ Cardinality(Upto(x)) = Cardinality(Upto(y)) => Upto(x) = Upto(y)
          /\ IsFiniteSet(Upto(y))
      BY <3>1, <2>2, FS_Subset
    <3>3. Cardinality(Upto(y)) \in Nat
      BY <3>2, FS_CardinalityType
    <3> HIDE DEF Upto
    <3> QED BY <2>1, <2>2, <3>1, <3>2, <3>3
  <2> HIDE DEF Upto, m
  <2> QED BY <1>1, <2>2, <2>3, <2>4
<1>3. r \in [S -> 1..m] /\ \A x, y \in S : y < x => r[y] < r[x]
  BY <1>2
<1> HIDE DEF r, Upto
<1>4. r \in Surjection(S, 1..m)
  <2>1. r \in Injection(S, 1..m)
    <3>1. \A x, y \in S : r[x] = r[y] => x = y
      BY <1>3
    <3> QED BY <1>3, <3>1 DEF Injection, IsInjective
  <2> HIDE DEF m
  <2> QED BY <2>1, <1>1, FS_Injection DEF m
<1>5. \E f : IsList(f)
  <2> DEFINE f == [i \in 1..m |-> CHOOSE x \in S : r[x] = i]
  <2>1. ASSUME NEW i \in 1..m PROVE f[i] \in S /\ r[f[i]] = i
    BY <1>4 DEF Surjection
  <2>2. f \in [1..m -> S]
    BY <2>1
  <2> HIDE DEF f
  <2>3. ASSUME NEW i \in 1..m, NEW j \in 1..m, i < j PROVE f[i] < f[j]
    <3>1. /\ f[i] \in Nat /\ f[j] \in Nat /\ f[i] \in S /\ f[j] \in S
          /\ r[f[i]] < r[f[j]]
      <4>1. f[i] \in S /\ f[j] \in S /\ r[f[i]] = i /\ r[f[j]] = j
        BY <2>1, <2>3
      <4> QED BY <4>1, <1>0, <2>3
    <3>2. f[i] # f[j] /\ ~(f[j] < f[i])
      BY <1>1, <1>3, <3>1, <2>1, <2>3
    <3> QED BY <3>1, <3>2
  <2> QED BY <2>2, <2>3
<1>6. IsList(s)
  <2>1. s = CHOOSE f \in [1..m -> S] : \A i, j \in DOMAIN f : i < j => f[i] < f[j]
    BY DEF InOrder
  <2>2. \E f \in [1..m -> S] : \A i, j \in DOMAIN f : i < j => f[i] < f[j]
    BY <1>5
  <2>3. s \in [1..m -> S] /\ \A i, j \in DOMAIN s : i < j => s[i] < s[j]
    <3> HIDE DEF m
    <3> QED BY <2>1, <2>2
  <2> QED BY <2>3
<1>7. s \in Injection(1..m, S)
  <2> HIDE DEF m
  <2>1. \A i, j \in 1..m : s[i] = s[j] => i = j
    <3> SUFFICES ASSUME NEW i \in 1..m, NEW j \in 1..m, s[i] = s[j], i # j PROVE FALSE
      OBVIOUS
    <3>1. s[i] \in Nat /\ s[j] \in Nat
      <4>1. s[i] \in S /\ s[j] \in S
        BY <1>6
      <4> QED BY <4>1, <1>0
    <3>2. i < j \/ j < i
      BY <1>1
    <3> QED BY <1>6, <3>1, <3>2
  <2> QED BY <1>6, <2>1 DEF Injection, IsInjective
<1>8. s \in Surjection(1..m, S)
  BY <1>1, <1>7, FS_Injection
<1>9. s \in Seq(S) /\ Len(s) = m
  <2> HIDE DEF m
  <2> QED BY <1>1, <1>6, SeqDef, LenProperties
<1>10. IsInjective(s) /\ Range(s) = S
  <2>1. DOMAIN s = 1..m /\ IsInjective(s)
    BY <1>6, <1>7 DEF Injection
  <2>2. \A x \in S : \E i \in 1..m : s[i] = x
    BY <1>8 DEF Surjection
  <2>3. \A i \in 1..m : s[i] \in S
    BY <1>6
  <2> HIDE DEF m
  <2> QED BY <2>1, <2>2, <2>3 DEF Range
<1> QED BY <1>9, <1>10

\* What follows of a client's location, for every client.
LEMMA AtProperties ==
  ASSUME proxies \in Nat, location \in [Clients -> Locations \union {"unknown"}], NEW l
  PROVE  /\ At(l) = {c \in Clients : location[c] = l}
         /\ IsFiniteSet(At(l)) /\ Number(l) \in Nat /\ Number(l) <= proxies
         /\ l \in Used => Number(l) > 0
<1>1. At(l) = {c \in Clients : location[c] = l}
  BY DEF At
<1>2. IsFiniteSet(Clients) /\ Cardinality(Clients) = proxies
  BY FS_Interval DEF Clients
<1>3. At(l) \in SUBSET Clients
  BY <1>1
<1>4. IsFiniteSet(At(l)) /\ Number(l) \in Nat /\ Number(l) <= proxies
  BY <1>2, <1>3, FS_Subset, FS_CardinalityType DEF Number
<1>5. ASSUME l \in Used PROVE Number(l) # 0
  <2>1. At(l) # {}
    BY <1>1, <1>5 DEF Used
  <2> QED BY <2>1, <1>4, FS_EmptySet DEF Number
<1> QED BY <1>1, <1>4, <1>5

LEMMA InitBuild ==
  ASSUME BuildInit PROVE BuildInv
<1>1. BuildTypeOK
  <2>1. proxies \in Nat
    BY ProxiesAssumption DEF BuildInit
  <2> QED BY <2>1, EmptySeq DEF BuildInit, BuildTypeOK, Rates
<1>2. StageInv
  BY DEF BuildInit, StageInv, NoneYet
<1> QED BY <1>1, <1>2 DEF BuildInv

\* The steps that only decide.
LEMMA DecideBuild ==
  ASSUME BuildInv,
         \/ Check \/ CreateClient \/ CreateFails \/ Grouped
         \/ Accept \/ Reject \/ UNCHANGED buildVars
  PROVE  BuildInv'
<1>1. UNCHANGED <<usable, proxies, targetRPS, singleProxyMaxRPS, location, clientsByLocation, members>>
  BY DEF Check, CreateClient, CreateFails, Grouped, Accept, Reject, buildVars, config
<1>2. created' \in 0..proxies
  BY ProxiesAssumption DEF BuildInv, BuildTypeOK, Check, CreateClient, CreateFails,
                           Grouped, Accept, Reject, buildVars
<1>3. \/ stage' = stage
      \/ stage = "checking" /\ stage' = "creating" /\ Complete
      \/ stage \in {"checking", "creating", "counting"} /\ stage' = "rejected"
      \/ stage = "grouping" /\ stage' = "counting" /\ DOMAIN clientsByLocation = {}
      \/ stage = "counting" /\ stage' = "built" /\ Enough
  <2>1. ASSUME Check
        PROVE  /\ stage = "checking"
               /\ \/ stage' = "creating" /\ Complete
                  \/ stage' = "rejected"
    BY <2>1 DEF Check
  <2>2. ASSUME CreateClient \/ CreateFails
        PROVE  stage = "creating" /\ stage' \in {stage, "rejected"}
    BY <2>2 DEF CreateClient, CreateFails
  <2>3. ASSUME Grouped
        PROVE  stage = "grouping" /\ stage' = "counting" /\ DOMAIN clientsByLocation = {}
    BY <2>3 DEF Grouped
  <2>4. ASSUME Accept \/ Reject
        PROVE  /\ stage = "counting"
               /\ \/ stage' = "built" /\ Enough
                  \/ stage' = "rejected"
    BY <2>4 DEF Accept, Reject
  <2>5. ASSUME UNCHANGED buildVars PROVE stage' = stage
    BY <2>5 DEF buildVars
  <2> QED BY <2>1, <2>2, <2>3, <2>4, <2>5
<1>4. BuildTypeOK /\ StageInv
  BY DEF BuildInv
<1>5. BuildTypeOK'
  <2>1. stage' \in {"checking", "creating", "grouping", "counting", "built", "rejected"}
    BY <1>3, <1>4 DEF BuildTypeOK
  <2> QED BY <1>1, <1>2, <1>4, <2>1 DEF BuildTypeOK, Clients
<1>6. /\ NoneYet' <=> NoneYet
      /\ Complete' <=> Complete
      /\ Enough' <=> Enough
  BY <1>1 DEF NoneYet, Complete, Enough, MinExpectedProxies
<1>7. Located' <=> Located
  <2>1. ListsInv' <=> ListsInv
    BY <1>1 DEF ListsInv, Used, At, Clients
  <2>2. PartsInv' <=> PartsInv
    BY <1>1 DEF PartsInv, InGroups, Waiting, Clients
  <2>3. ApartInv' <=> ApartInv
    BY <1>1 DEF ApartInv
  <2>4. RoundsInv' <=> RoundsInv
    BY <1>1 DEF RoundsInv, Used, InList, Number, At, Clients
  <2> QED BY <2>1, <2>2, <2>3, <2>4 DEF Located
<1>8. StageInv'
  <2>1. stage \in {"checking", "creating", "grouping", "counting", "built", "rejected"}
    BY <1>4 DEF BuildTypeOK
  <2> QED BY <1>1, <1>3, <1>4, <1>6, <1>7, <2>1 DEF StageInv
<1> QED BY <1>5, <1>8 DEF BuildInv

\* The lookup puts every client on the list of its location.
LEMMA LocateBuild ==
  ASSUME BuildInv, Locate
  PROVE  BuildInv'
<1>1. /\ BuildTypeOK /\ StageInv /\ stage = "creating" /\ stage' = "grouping"
      /\ NoneYet /\ Complete
      /\ UNCHANGED <<usable, proxies, targetRPS, singleProxyMaxRPS, created, members>>
      /\ location' \in [Clients -> Locations \union {"unknown"}]
      /\ clientsByLocation' = [l \in {location'[c] : c \in Clients} |->
                                 InOrder({c \in Clients : location'[c] = l})]
  BY DEF BuildInv, StageInv, Locate, config
<1>2. proxies \in Nat /\ proxies > 0 /\ Clients' = Clients
  BY <1>1, ProxiesAssumption DEF BuildTypeOK, Complete, Clients
<1>3. /\ Used' = {location'[c] : c \in Clients}
      /\ DOMAIN clientsByLocation' = Used'
  BY <1>1, <1>2 DEF Used
<1>4. ASSUME NEW l \in Used'
      PROVE  /\ clientsByLocation'[l] \in Seq(At(l)')
             /\ IsInjective(clientsByLocation'[l])
             /\ Range(clientsByLocation'[l]) = At(l)'
             /\ Len(clientsByLocation'[l]) = Number(l)'
             /\ Number(l)' > 0 /\ Number(l)' \in Nat
             /\ At(l)' = {c \in Clients : location'[c] = l}
  <2> DEFINE S == {c \in Clients : location'[c] = l}
  <2>1. At(l)' = S
    BY <1>1 DEF At
  <2>2. PICK s : s = InOrder(S)
    OBVIOUS
  <2>3. S \in SUBSET (1..proxies)
    BY DEF Clients
  <2>4. s \in Seq(S) /\ Len(s) = Cardinality(S) /\ IsInjective(s) /\ Range(s) = S
    <3> HIDE DEF S
    <3> QED BY <1>2, <2>2, <2>3, Ordered
  <2>5. clientsByLocation'[l] = s
    BY <1>1, <1>3, <2>2
  <2>6. Number(l)' = Cardinality(S)
    BY <2>1 DEF Number
  <2>7. Cardinality(S) \in Nat /\ Cardinality(S) # 0
    <3>1. IsFiniteSet(S)
      <4> HIDE DEF S
      <4>1. IsFiniteSet(1..proxies)
        BY <1>2, FS_Interval
      <4> QED BY <2>3, <4>1, FS_Subset
    <3>2. S # {}
      BY <1>3
    <3> HIDE DEF S
    <3> QED BY <3>1, <3>2, FS_CardinalityType, FS_EmptySet
  <2> HIDE DEF S
  <2>8. /\ Number(l)' \in Nat /\ Number(l)' > 0
        /\ Len(clientsByLocation'[l]) = Number(l)'
    BY <2>4, <2>5, <2>6, <2>7
  <2>9. /\ clientsByLocation'[l] \in Seq(At(l)')
        /\ IsInjective(clientsByLocation'[l])
        /\ Range(clientsByLocation'[l]) = At(l)'
    BY <2>1, <2>4, <2>5
  <2> QED BY <2>8, <2>9, <2>1 DEF S
<1>5. ListsInv'
  BY <1>1, <1>2, <1>3, <1>4 DEF ListsInv
<1>6. InGroups' = {} /\ Waiting' = Clients
  <2>1. members' = <<>>
    BY <1>1 DEF NoneYet
  <2>2. InGroups' = {}
    BY <2>1 DEF InGroups, ToSet
  <2>3. Waiting' = UNION {Range(clientsByLocation'[l]) : l \in Used'}
    BY <1>3, SetInBuilder DEF Waiting
  <2>4. Waiting' = UNION {{c \in Clients : location'[c] = l} : l \in Used'}
    BY <2>3, <1>4
  <2>5. Waiting' = Clients
    BY <2>4, <1>3
  <2> QED BY <2>2, <2>5
<1>7. PartsInv' /\ ApartInv'
  <2>1. members' = <<>>
    BY <1>1 DEF NoneYet
  <2> QED BY <2>1, <1>2, <1>6 DEF PartsInv, ApartInv
<1>8. RoundsInv'
  <2>1. members' = <<>> /\ Len(members') = 0
    BY <1>1 DEF NoneYet
  <2>2. ASSUME NEW l \in Used'
        PROVE InList(l)' = Number(l)' /\ Number(l)' \in Nat /\ Number(l)' > 0
    BY <1>3, <1>4 DEF InList
  <2>3. Used' # {}
    <3>1. 1 \in Clients
      BY <1>2 DEF Clients
    <3> QED BY <3>1, <1>3
  <2> QED BY <2>1, <2>2, <2>3 DEF RoundsInv
<1>9. BuildTypeOK'
  <2>1. location' \in [DOMAIN location' -> Locations \union {"unknown"}]
    BY <1>1
  <2>2. ASSUME NEW l \in DOMAIN clientsByLocation'
        PROVE  clientsByLocation'[l] \in Seq(Clients)
    <3>1. /\ clientsByLocation'[l] \in Seq(At(l)')
          /\ At(l)' \subseteq Clients
      BY <1>3, <1>4, <2>2
    <3> QED BY <3>1
  <2> QED BY <1>1, <1>2, <2>1, <2>2 DEF BuildTypeOK
<1>10. StageInv'
  <2>1. Complete'
    BY <1>1 DEF Complete
  <2> QED BY <1>1, <1>5, <1>7, <1>8, <2>1 DEF StageInv, Located
<1> QED BY <1>9, <1>10 DEF BuildInv

\* The last round finds nobody.
LEMMA EmptyRound ==
  ASSUME BuildInv, Round, Left = {}
  PROVE  BuildInv'
<1>1. /\ BuildTypeOK /\ Located /\ Complete /\ stage = "grouping" /\ stage' = stage
      /\ UNCHANGED <<usable, proxies, targetRPS, singleProxyMaxRPS, created, location>>
      /\ members' = members
      /\ clientsByLocation' = [l \in Left |-> RestOf(clientsByLocation[l])]
  <2>1. FirstOfEach = {}
    BY DEF FirstOfEach
  <2> QED BY <2>1 DEF BuildInv, StageInv, Round, config, AfterRound
<1>2. /\ DOMAIN clientsByLocation' = {}
      /\ \A l \in DOMAIN clientsByLocation : clientsByLocation[l] = <<>>
  BY <1>1 DEF Left
<1>3. Clients' = Clients /\ Used' = Used
  BY <1>1 DEF Used, Clients
<1>4. InGroups' = InGroups /\ Waiting = {} /\ Waiting' = {}
  <2>1. \A l \in DOMAIN clientsByLocation : ToSet(clientsByLocation[l]) = {}
    BY <1>2 DEF ToSet
  <2> QED BY <1>1, <1>2, <2>1 DEF InGroups, Waiting
<1>5. ASSUME NEW l PROVE InList(l) = 0 /\ InList(l)' = 0 /\ Number(l)' = Number(l)
  BY <1>1, <1>2 DEF InList, Number, At
<1>6. ListsInv'
  BY <1>1, <1>2, <1>3 DEF Located, ListsInv
<1>7. PartsInv' /\ ApartInv'
  BY <1>1, <1>3, <1>4 DEF Located, PartsInv, ApartInv
<1>8. RoundsInv'
  <2>1. RoundsInv /\ Len(members') = Len(members)
    BY <1>1 DEF Located
  <2> QED BY <2>1, <1>3, <1>5 DEF RoundsInv
<1>9. BuildTypeOK'
  BY <1>1, <1>2, <1>3 DEF BuildTypeOK
<1>10. StageInv'
  BY <1>1, <1>6, <1>7, <1>8 DEF StageInv, Located, Complete
<1> QED BY <1>9, <1>10 DEF BuildInv

\* What a round takes: the first client of each list, of as many locations.
LEMMA RoundTakes ==
  ASSUME BuildInv, Round, Left # {}, stage = "grouping"
  PROVE  /\ FirstOfEach # {} /\ FirstOfEach \subseteq Waiting
         /\ Waiting' = Waiting \ FirstOfEach
         /\ \A c, d \in FirstOfEach : c # d => location[c] # location[d]
         /\ DOMAIN clientsByLocation' = Left
         /\ Left \subseteq DOMAIN clientsByLocation
         /\ \A l \in Left :
               /\ Head(clientsByLocation[l]) \in At(l)
               /\ clientsByLocation'[l] \in Seq(At(l))
               /\ IsInjective(clientsByLocation'[l])
               /\ Len(clientsByLocation[l]) \in Nat \ {0}
               /\ Len(clientsByLocation'[l]) = Len(clientsByLocation[l]) - 1
<1>1. /\ ListsInv /\ UNCHANGED location
      /\ clientsByLocation' = [l \in Left |-> Tail(clientsByLocation[l])]
  BY DEF BuildInv, StageInv, Located, Round, RestOf
<1>2. /\ Left \subseteq DOMAIN clientsByLocation /\ DOMAIN clientsByLocation' = Left
      /\ \A l \in DOMAIN clientsByLocation \ Left : clientsByLocation[l] = <<>>
  BY <1>1 DEF Left
<1>3. ASSUME NEW l \in Left
      PROVE  /\ Head(clientsByLocation[l]) \in At(l)
             /\ Head(clientsByLocation[l]) \in Range(clientsByLocation[l])
             /\ Range(clientsByLocation[l]) \subseteq At(l)
             /\ clientsByLocation'[l] \in Seq(At(l))
             /\ IsInjective(clientsByLocation'[l])
             /\ Len(clientsByLocation[l]) \in Nat \ {0}
             /\ Len(clientsByLocation'[l]) = Len(clientsByLocation[l]) - 1
             /\ Range(clientsByLocation'[l]) =
                   Range(clientsByLocation[l]) \ {Head(clientsByLocation[l])}
  <2>1. PICK q : q = clientsByLocation[l]
    OBVIOUS
  <2>2. q \in Seq(At(l)) /\ q # <<>> /\ IsInjective(q) /\ clientsByLocation'[l] = Tail(q)
    BY <1>1, <1>2, <2>1 DEF ListsInv, Left
  <2>3. /\ Head(q) \in At(l) /\ Tail(q) \in Seq(At(l)) /\ Len(Tail(q)) = Len(q) - 1
        /\ Len(q) \in Nat \ {0}
    BY <2>2, ReceiveFirst, EmptySeq, LenProperties
  <2>4. /\ IsInjective(Tail(q)) /\ Head(q) \in Range(q)
        /\ Range(Tail(q)) = Range(q) \ {Head(q)}
    BY <2>2, ReceiveRange
  <2>5. Range(q) \subseteq At(l)
    BY <2>2, LenProperties DEF Range
  <2> QED BY <2>1, <2>2, <2>3, <2>4, <2>5
<1>4. FirstOfEach = {Head(clientsByLocation[l]) : l \in Left} /\ FirstOfEach # {}
  BY DEF FirstOfEach
<1>5. Waiting = UNION {Range(clientsByLocation[l]) : l \in Left}
  <2>1. \A l \in DOMAIN clientsByLocation \ Left : Range(clientsByLocation[l]) = {}
    BY <1>2 DEF Range
  <2>2. Waiting = UNION {Range(clientsByLocation[l]) : l \in DOMAIN clientsByLocation}
    BY SetInBuilder DEF Waiting
  <2> QED BY <1>2, <2>1, <2>2
<1>6. Waiting' = UNION {Range(clientsByLocation'[l]) : l \in Left}
  BY <1>2, SetInBuilder DEF Waiting
<1>7. \A l \in Left : \A c \in At(l) : location[c] = l
  BY DEF At
<1>8. FirstOfEach \subseteq Waiting
  BY <1>3, <1>4, <1>5
<1>9. \A c, d \in FirstOfEach : c # d => location[c] # location[d]
  BY <1>3, <1>4, <1>7
<1>10. Waiting' = Waiting \ FirstOfEach
  <2>1. ASSUME NEW c \in Waiting'
        PROVE  c \in Waiting /\ c \notin FirstOfEach
    <3>1. PICK l \in Left : c \in Range(clientsByLocation'[l])
      BY <1>6
    <3>2. c \in Range(clientsByLocation[l]) /\ c # Head(clientsByLocation[l])
      BY <1>3, <3>1
    <3>3. location[c] = l
      BY <1>3, <1>7, <3>2
    <3>4. ASSUME NEW k \in Left, c = Head(clientsByLocation[k]) PROVE FALSE
      BY <1>3, <1>7, <3>2, <3>3, <3>4
    <3> QED BY <1>4, <1>5, <3>2, <3>4
  <2>2. ASSUME NEW c \in Waiting, c \notin FirstOfEach
        PROVE  c \in Waiting'
    <3>1. PICK l \in Left : c \in Range(clientsByLocation[l])
      BY <1>5
    <3>2. c # Head(clientsByLocation[l])
      BY <1>4, <2>2
    <3> QED BY <1>3, <1>6, <3>1, <3>2
  <2> QED BY <2>1, <2>2
<1> QED BY <1>2, <1>3, <1>4, <1>8, <1>9, <1>10

\* A round that forms a group.
LEMMA RoundBuild ==
  ASSUME BuildInv, Round, Left # {}
  PROVE  BuildInv'
<1> DEFINE group == FirstOfEach
<1>1. /\ BuildTypeOK /\ Located /\ Complete /\ stage = "grouping" /\ stage' = stage
      /\ UNCHANGED <<usable, proxies, targetRPS, singleProxyMaxRPS, created, location>>
  BY DEF BuildInv, StageInv, Round, config
<1>2. /\ group # {} /\ group \subseteq Waiting
      /\ Waiting' = Waiting \ group
      /\ \A c, d \in group : c # d => location[c] # location[d]
      /\ DOMAIN clientsByLocation' = Left
      /\ Left \subseteq DOMAIN clientsByLocation
  BY <1>1, RoundTakes
<1>3. \A l \in Left :
               /\ clientsByLocation'[l] \in Seq(At(l))
               /\ IsInjective(clientsByLocation'[l])
               /\ Len(clientsByLocation[l]) \in Nat \ {0}
               /\ Len(clientsByLocation'[l]) = Len(clientsByLocation[l]) - 1
  BY <1>1, RoundTakes
<1>4. members' = Append(members, group)
  BY <1>2 DEF Round, AfterRound
<1> HIDE DEF group
<1>5. /\ ListsInv /\ PartsInv /\ ApartInv /\ RoundsInv
      /\ Clients' = Clients /\ Used' = Used /\ \A l : At(l)' = At(l)
  BY <1>1 DEF Located, Clients, Used, At
<1>6. group \in (SUBSET Clients) \ {{}} /\ group \subseteq Clients
  BY <1>2, <1>5 DEF PartsInv
<1>7. /\ members \in Seq((SUBSET Clients) \ {{}}) /\ Len(members) \in Nat
      /\ members' \in Seq((SUBSET Clients) \ {{}})
      /\ Len(members') = Len(members) + 1
      /\ DOMAIN members = 1..Len(members) /\ DOMAIN members' = 1..(Len(members) + 1)
      /\ \A i \in DOMAIN members : members'[i] = members[i]
      /\ members'[Len(members) + 1] = group
  <2>1. members \in Seq((SUBSET Clients) \ {{}})
    BY <1>1 DEF BuildTypeOK
  <2> QED BY <1>4, <1>6, <2>1, AppendProperties, LenProperties
<1>8. DOMAIN members' = DOMAIN members \union {Len(members) + 1}
  BY <1>7
<1>9. InGroups' = InGroups \union group
  <2>1. Range(members') = Range(members) \union {group}
    BY <1>7, <1>8 DEF Range
  <2> QED BY <2>1, SetInBuilder DEF InGroups
<1>10. ListsInv'
  BY <1>1, <1>2, <1>3, <1>5 DEF ListsInv
<1>11. PartsInv'
  <2>1. \A i \in DOMAIN members : members[i] \subseteq InGroups
    BY SetInBuilder DEF InGroups, Range
  <2>2. group \intersect InGroups = {}
    BY <1>2, <1>5 DEF PartsInv
  <2>3. \A i, j \in DOMAIN members' : i # j => members'[i] \intersect members'[j] = {}
    <3> SUFFICES ASSUME NEW i \in DOMAIN members', NEW j \in DOMAIN members', i # j
                 PROVE  members'[i] \intersect members'[j] = {}
      OBVIOUS
    <3>1. CASE i \in DOMAIN members /\ j \in DOMAIN members
      BY <1>5, <1>7, <3>1 DEF PartsInv
    <3>2. CASE i \in DOMAIN members /\ j = Len(members) + 1
      BY <1>7, <2>1, <2>2, <3>2
    <3>3. CASE i = Len(members) + 1 /\ j \in DOMAIN members
      BY <1>7, <2>1, <2>2, <3>3
    <3> QED BY <1>8, <3>1, <3>2, <3>3
  <2>4. /\ InGroups' \union Waiting' = Clients
        /\ InGroups' \intersect Waiting' = {}
    BY <1>2, <1>5, <1>9, <2>2 DEF PartsInv
  <2> QED BY <1>5, <2>3, <2>4 DEF PartsInv
<1>12. ApartInv'
  <2> SUFFICES ASSUME NEW i \in DOMAIN members', NEW c \in members'[i], NEW d \in members'[i],
                      c # d
               PROVE  location[c] # location[d]
    BY <1>1 DEF ApartInv
  <2>1. CASE i \in DOMAIN members
    BY <1>5, <1>7, <2>1 DEF ApartInv
  <2>2. CASE i = Len(members) + 1
    BY <1>2, <1>7, <2>2
  <2> QED BY <1>8, <2>1, <2>2
<1>13. RoundsInv'
  <2>1. ASSUME NEW l \in Used
        PROVE  /\ Number(l)' = Number(l) /\ Number(l) \in Nat
               /\ IF l \in Left
                  THEN /\ InList(l) \in Nat \ {0}
                       /\ InList(l)' = InList(l) - 1
                       /\ Number(l) = Len(members) + InList(l)
                  ELSE InList(l)' = 0 /\ Number(l) <= Len(members)
    <3>1. Number(l)' = Number(l)
      BY <1>5 DEF Number
    <3>2. Number(l) \in Nat
      <4>1. proxies \in Nat
        BY <1>1, ProxiesAssumption DEF BuildTypeOK
      <4> QED BY <4>1, <1>5, AtProperties DEF ListsInv
    <3>3. CASE l \in Left
      <4>1. InList(l) = Len(clientsByLocation[l]) /\ InList(l)' = Len(clientsByLocation'[l])
        BY <1>2, <3>3 DEF InList
      <4>2. InList(l) \in Nat \ {0} /\ InList(l)' = InList(l) - 1
        BY <1>3, <3>3, <4>1
      <4>3. Number(l) = Len(members) + InList(l)
        BY <1>5, <4>2 DEF RoundsInv
      <4> QED BY <3>1, <3>2, <3>3, <4>2, <4>3
    <3>4. CASE l \notin Left
      <4>1. l \in DOMAIN clientsByLocation => clientsByLocation[l] = <<>>
        BY <3>4 DEF Left
      <4>2. InList(l) = 0 /\ InList(l)' = 0
        BY <1>2, <3>4, <4>1 DEF InList
      <4> QED BY <1>5, <3>1, <3>2, <3>4, <4>2 DEF RoundsInv
    <3> QED BY <3>3, <3>4
  <2>2. ASSUME NEW l \in Used
        PROVE  IF InList(l)' = 0 THEN Number(l)' <= Len(members)'
                                 ELSE Number(l)' = Len(members)' + InList(l)'
    BY <1>7, <2>1
  <2>3. ASSUME \A l \in Used : InList(l)' = 0
        PROVE  \E l \in Used : Number(l)' = Len(members)'
    <3>1. PICK l : l \in Left
      OBVIOUS
    <3>2. l \in Used
      BY <1>2, <1>5, <3>1 DEF ListsInv
    <3>3. Number(l)' = Len(members)'
      BY <1>7, <2>1, <2>3, <3>1, <3>2
    <3> QED BY <3>2, <3>3
  <2> QED BY <1>5, <2>2, <2>3 DEF RoundsInv
<1>14. BuildTypeOK'
  <2>1. ASSUME NEW l \in DOMAIN clientsByLocation'
        PROVE  clientsByLocation'[l] \in Seq(Clients)
    <3>1. clientsByLocation'[l] \in Seq(At(l))
      BY <1>2, <1>3
    <3>2. At(l) \subseteq Clients
      BY <1>5 DEF At, ListsInv
    <3> QED BY <3>1, <3>2
  <2>2. members' \in Seq((SUBSET Clients') \ {{}})
    BY <1>5, <1>7
  <2> QED BY <1>1, <1>5, <2>1, <2>2 DEF BuildTypeOK
<1>15. StageInv'
  BY <1>1, <1>10, <1>11, <1>12, <1>13 DEF StageInv, Located, Complete
<1> QED BY <1>14, <1>15 DEF BuildInv

LEMMA NextBuild ==
  ASSUME BuildInv, [BuildNext]_buildVars
  PROVE  BuildInv'
BY DecideBuild, LocateBuild, EmptyRound, RoundBuild DEF BuildNext

\* For any number of proxies in any locations: every client is in exactly one
\* group or waits for a round, and the channel has room for the groups to come.
THEOREM GroupsOfClients == BuildSpec => []EachClientOnce
<1>1. BuildInv => EachClientOnce
  <2> SUFFICES ASSUME BuildInv PROVE EachClientOnce
    OBVIOUS
  <2>1. BuildTypeOK /\ (NoneYet \/ Located)
    BY DEF BuildInv, StageInv, BuildTypeOK
  <2>2. CASE NoneYet
    <3>1. InGroups = {} /\ Waiting = {} /\ Left = {} /\ DOMAIN location = {}
          /\ DOMAIN members = {}
      BY <2>2 DEF NoneYet, InGroups, Waiting, Left, ToSet
    <3> QED BY <2>1, <3>1 DEF EachClientOnce
  <2>3. CASE Located
    <3>1. /\ ListsInv /\ PartsInv /\ RoundsInv /\ DOMAIN location = Clients
      BY <2>3 DEF Located, ListsInv
    <3>2. ASSUME NEW l \in Left
          PROVE  Len(members) + Len(clientsByLocation[l]) <= proxies
      <4>1. proxies \in Nat
        BY <2>1, ProxiesAssumption DEF BuildTypeOK
      <4>2. l \in DOMAIN clientsByLocation /\ l \in Used /\ clientsByLocation[l] # <<>>
        BY <3>1 DEF Left, ListsInv
      <4>3. InList(l) = Len(clientsByLocation[l]) /\ InList(l) # 0
        BY <2>1, <4>2, EmptySeq, LenProperties DEF InList, BuildTypeOK
      <4>4. Number(l) = Len(members) + Len(clientsByLocation[l])
        BY <3>1, <4>2, <4>3 DEF RoundsInv
      <4>5. Number(l) <= proxies
        BY <3>1, <4>1, AtProperties DEF ListsInv
      <4> QED BY <4>4, <4>5
    <3> QED BY <2>1, <3>1, <3>2 DEF EachClientOnce, PartsInv
  <2> QED BY <2>1, <2>2, <2>3
<1> QED BY InitBuild, NextBuild, <1>1, PTL DEF BuildSpec

\* A group has one client of a location, and there are as many groups as the
\* fullest location has clients.
THEOREM GroupsAreSpread == BuildSpec => []SpreadOverLocations
<1>1. BuildInv => SpreadOverLocations
  <2> SUFFICES ASSUME BuildInv PROVE SpreadOverLocations
    OBVIOUS
  <2>1. BuildTypeOK /\ (NoneYet \/ Located)
    BY DEF BuildInv, StageInv, BuildTypeOK
  <2>2. ApartInv
    BY <2>1 DEF NoneYet, Located, ApartInv
  <2>3. ASSUME stage = "counting"
        PROVE  Len(members) = Max({Cardinality(At(l)) : l \in Used})
    <3> DEFINE N == {Cardinality(At(l)) : l \in Used}
               m == Max(N)
    <3>1. Located /\ RoundsInv /\ ListsInv /\ DOMAIN clientsByLocation = {}
      BY <2>3 DEF BuildInv, StageInv, Located
    <3>2. \A l \in Used : InList(l) = 0
      BY <3>1 DEF InList
    <3>3. proxies \in Nat /\ Len(members) \in Nat
      BY <2>1, LenProperties, ProxiesAssumption DEF BuildTypeOK
    <3>4. N = {Number(l) : l \in Used}
      BY DEF Number
    <3>5. \A l \in Used : Number(l) \in Nat /\ Number(l) <= Len(members)
      BY <3>1, <3>2, <3>3, AtProperties DEF ListsInv, RoundsInv
    <3>6. Len(members) \in N
      BY <3>1, <3>2, <3>4 DEF RoundsInv
    <3>7. \A n \in N : n \in Nat /\ n <= Len(members)
      BY <3>4, <3>5
    <3> HIDE DEF N
    <3>8. m \in N /\ \A n \in N : m >= n
      <4>1. \E x \in N : \A y \in N : x >= y
        BY <3>3, <3>6, <3>7
      <4> QED BY <4>1 DEF Max
    <3> HIDE DEF m
    <3>9. m = Len(members)
      BY <3>3, <3>6, <3>7, <3>8
    <3> QED BY <3>9 DEF m, N
  <2> QED BY <2>2, <2>3 DEF ApartInv, SpreadOverLocations, Used
<1> QED BY InitBuild, NextBuild, <1>1, PTL DEF BuildSpec

\* A number of groups that is not below the quotient rounded up.
LEMMA RoundedUp ==
  ASSUME NEW t \in Nat, NEW s \in Nat \ {0}, NEW n \in Nat, n >= (t + s - 1) \div s
  PROVE  n * s >= t
<1> DEFINE q == (t + s - 1) \div s
           r == (t + s - 1) % s
<1>1. q \in Nat /\ r \in Nat /\ r < s /\ t + s - 1 = s * q + r
  <2> DEFINE k == t + s - 1
  <2>1. k \in Nat
    OBVIOUS
  <2> HIDE DEF k
  <2>2. k \div s \in Nat /\ k % s \in 0..(s - 1) /\ k = s * (k \div s) + (k % s)
    BY <2>1
  <2> QED BY <2>2 DEF k
<1> HIDE DEF q, r
<1>2. n >= q
  BY DEF q
<1>3. s * q >= t
  BY <1>1
<1>4. n * s = s * q + (n - q) * s
  BY <1>1
<1>5. (n - q) * s >= 0
  BY <1>1, <1>2
<1> QED BY <1>1, <1>3, <1>4, <1>5

\* A pool the builder accepts keeps the target rate, whatever the two rates and
\* the number of groups.
THEOREM AcceptedPools == BuildSpec => []AcceptedKeepsTarget
<1>1. BuildInv => AcceptedKeepsTarget
  <2> SUFFICES ASSUME BuildInv, stage = "built"
               PROVE  targetRPS > 0 /\ Len(members) * singleProxyMaxRPS >= targetRPS
    BY DEF AcceptedKeepsTarget
  <2>1. BuildTypeOK /\ Complete /\ Enough
    BY DEF BuildInv, StageInv
  <2>2. targetRPS \in Nat /\ singleProxyMaxRPS \in Nat \ {0} /\ targetRPS > 0
    BY <2>1, RateAssumption DEF BuildTypeOK, Complete, Rates
  <2>3. Len(members) \in Nat
    BY <2>1, LenProperties DEF BuildTypeOK
  <2>4. Len(members) >= (targetRPS + singleProxyMaxRPS - 1) \div singleProxyMaxRPS
    BY <2>1 DEF Enough, MinExpectedProxies
  <2> QED BY <2>2, <2>3, <2>4, RoundedUp
<1> QED BY InitBuild, NextBuild, <1>1, PTL DEF BuildSpec

\* The constructor hands the pool what it counts on: its channel holds distinct
\* groups, and no more of them than there are clients (CapacityAssumption, for
\* the groups of the channel and the capacity make was given).
FitForPool == /\ IsInjective(members)
              /\ IsFiniteSet(Range(members))
              /\ Cardinality(Range(members)) <= proxies

THEOREM GroupsFitThePool == BuildSpec => []FitForPool
<1>1. BuildInv => FitForPool
  <2> SUFFICES ASSUME BuildInv PROVE FitForPool
    OBVIOUS
  <2>1. /\ BuildTypeOK /\ (NoneYet \/ Located)
        /\ proxies \in Nat /\ members \in Seq((SUBSET Clients) \ {{}})
    BY ProxiesAssumption DEF BuildInv, StageInv, BuildTypeOK
  <2>2. /\ Len(members) \in Nat /\ DOMAIN members = 1..Len(members)
        /\ \A i \in DOMAIN members : members[i] # {}
    BY <2>1, LenProperties
  <2>3. IsInjective(members)
    <3>1. \A i, j \in DOMAIN members : i # j => members[i] \intersect members[j] = {}
      BY <2>1 DEF NoneYet, Located, PartsInv
    <3> QED BY <2>2, <3>1 DEF IsInjective
  <2>4. Len(members) <= proxies
    <3>1. CASE NoneYet
      BY <2>1, <3>1 DEF NoneYet
    <3>2. CASE Located
      <4>1. /\ ListsInv /\ RoundsInv
            /\ \A l \in Used : Number(l) \in Nat /\ Number(l) <= proxies
        BY <2>1, <3>2, AtProperties DEF Located, ListsInv
      <4>2. \A l \in Used : InList(l) \in Nat
        BY <4>1, LenProperties DEF InList, ListsInv
      <4>3. PICK l \in Used : Number(l) = Len(members) \/ Number(l) = Len(members) + InList(l)
        BY <4>1 DEF RoundsInv
      <4> QED BY <2>1, <2>2, <4>1, <4>2, <4>3
    <3> QED BY <2>1, <3>1, <3>2
  <2>5. /\ IsFiniteSet(Range(members))
        /\ Cardinality(Range(members)) <= Len(members)
        /\ Cardinality(Range(members)) \in Nat
    <3>1. members \in Surjection(1..Len(members), Range(members))
      <4>1. members \in [1..Len(members) -> Range(members)]
        BY <2>1, <2>2 DEF Range
      <4> QED BY <2>2, <4>1 DEF Surjection, Range
    <3>2. IsFiniteSet(1..Len(members)) /\ Cardinality(1..Len(members)) = Len(members)
      BY <2>2, FS_Interval
    <3> QED BY <3>1, <3>2, FS_Surjection, FS_CardinalityType
  <2> QED BY <2>1, <2>2, <2>3, <2>4, <2>5 DEF FitForPool
<1> QED BY InitBuild, NextBuild, <1>1, PTL DEF BuildSpec
=============================================================================
