--------------------------- MODULE SidePartsProofs ---------------------------
(***************************************************************************)
(* Proofs about the side parts, each for all values of its constants: the  *)
(* metrics, the sharded map, the websocket sucker and the broadcast.  A    *)
(* part that does not run stays in its initial state, so that the          *)
(* invariant of each holds in every behaviour.                             *)
(***************************************************************************)
EXTENDS SideParts, QueueLemmas, FiniteSetTheorems

-----------------------------------------------------------------------------
(* PrometheusService: the crash and the counts. *)

\* The metrics stored and used are the ones that are served.
ServedInv ==
    /\ \A n \in Names : /\ registered[n] # None => registered[n] \in Goroutines \X {n}
                        /\ table[n] \in {None, registered[n]}
                        /\ registered[n] = None =>
                              done[n] = 0 /\ \A g \in Goroutines : value[<<g, n>>] = 0
    /\ \A g \in Goroutines : pc[g] \in {"store", "storing", "use"} =>
                                vec[g] = registered[name[g]] /\ vec[g] # None

\* Without an overlap the flag of a map says who writes to it, and a metric is
\* missing from its map only while it is being stored.
FlagsInv == \A m \in Maps : writing[m] =>
               \E g \in Goroutines : pc[g] = "storing" /\ P!MapUsed(g) = m
WritersInv == ~overlapped => \A g \in Goroutines : pc[g] = "storing" => writing[P!MapUsed(g)]
CreatorsInv == ~overlapped => \A g \in Goroutines :
                  pc[g] = "create" => registered[name[g]] = None
StoredInv == ~overlapped => \A n \in Names :
                registered[n] # None =>
                   \/ table[n] = registered[n]
                   \/ \E g \in Goroutines : pc[g] \in {"store", "storing"} /\ name[g] = n
AloneInv == (P!Overlap => overlapped) /\ FlagsInv /\ WritersInv /\ CreatorsInv /\ StoredInv

MetricsInv == /\ P!TypeOK /\ ServedInv /\ AloneInv
              /\ P!CrashTakesTwo /\ P!NothingUncounted

LEMMA InitMetrics == P!Init => MetricsInv
<1> SUFFICES ASSUME P!Init PROVE MetricsInv
  OBVIOUS
<1>0. (CHOOSE n \in Names : TRUE) \in Names
  BY MetricsAssumption DEF P!ConstantsFit
<1>1. P!TypeOK
  <2>1. writing \in [Maps -> BOOLEAN] /\ crashed \in BOOLEAN /\ overlapped \in BOOLEAN
    BY Zenon DEF P!Init
  <2> QED
    BY <1>0, <2>1, MetricsAssumption DEF P!Init, P!TypeOK, P!ConstantsFit
<1>2. ServedInv
  BY DEF P!Init, ServedInv, P!Vecs
<1>3. AloneInv
  BY DEF P!Init, AloneInv, FlagsInv, WritersInv, CreatorsInv, StoredInv, P!Overlap
<1>4. P!CrashTakesTwo /\ P!NothingUncounted
  BY DEF P!Init, P!CrashTakesTwo, P!NothingUncounted
<1> QED
  BY <1>1, <1>2, <1>3, <1>4 DEF MetricsInv
\* A crash takes two, and changes nothing else.
LEMMA CrashKeeps ==
  ASSUME MetricsInv, ~crashed, NEW g \in Goroutines,
         P!ReadSeen(g) \/ P!DuplicatePanics(g) \/ P!WriteSeen(g) \/ P!FlagLost(g),
         overlapped' = (overlapped \/ P!Overlap')
  PROVE  MetricsInv'
<1>0. P!TypeOK /\ ServedInv /\ AloneInv
  BY DEF MetricsInv
<1>1. /\ crashed' = TRUE
      /\ UNCHANGED <<pc, name, vec, calls, table, writing, registered, value, done>>
  BY DEF P!ReadSeen, P!DuplicatePanics, P!WriteSeen, P!FlagLost, P!Crash
<1>2. P!Overlap' = P!Overlap
  BY <1>1 DEF P!Overlap, P!MapUsed
<1>3. overlapped
  <2>1. CASE P!ReadSeen(g) \/ P!WriteSeen(g)
    <3>1. pc[g] \in {"lookup", "store"} /\ writing[P!MapUsed(g)]
      BY <2>1 DEF P!ReadSeen, P!WriteSeen
    <3>2. P!MapUsed(g) \in Maps
      BY <1>0, MetricsAssumption DEF P!TypeOK, P!MapUsed, P!ConstantsFit
    <3>3. PICK h \in Goroutines : pc[h] = "storing" /\ P!MapUsed(h) = P!MapUsed(g)
      BY <1>0, <3>1, <3>2 DEF AloneInv, FlagsInv
    <3>4. P!Overlap
      BY <3>1, <3>3 DEF P!Overlap
    <3> QED
      BY <1>0, <3>4 DEF AloneInv
  <2>2. CASE P!DuplicatePanics(g)
    BY <1>0, <2>2 DEF AloneInv, CreatorsInv, P!DuplicatePanics, P!Unregistered
  <2>3. CASE P!FlagLost(g)
    BY <1>0, <2>3 DEF AloneInv, WritersInv, P!FlagLost
  <2> QED
    BY <2>1, <2>2, <2>3
<1>4. overlapped' = TRUE /\ overlapped = TRUE
  BY <1>0, <1>3 DEF P!TypeOK
<1>5. P!TypeOK'
  BY <1>0, <1>1, <1>4 DEF P!TypeOK
<1>6. ServedInv'
  BY <1>0, <1>1 DEF ServedInv
<1>7. AloneInv'
  BY <1>0, <1>1, <1>4 DEF AloneInv, FlagsInv, WritersInv, CreatorsInv, StoredInv, P!MapUsed
<1> QED
  BY <1>1, <1>4, <1>5, <1>6, <1>7 DEF MetricsInv, P!CrashTakesTwo, P!NothingUncounted

\* A step without a crash.
LEMMA CallKeeps ==
  ASSUME MetricsInv, ~crashed, NEW g \in Goroutines, NEW n \in Names, P!Call(g, n),
         overlapped' = (overlapped \/ P!Overlap')
  PROVE  MetricsInv'
<1>0. P!TypeOK /\ ServedInv /\ AloneInv /\ P!NothingUncounted
  BY DEF MetricsInv
<1>1. /\ pc[g] = "idle" /\ pc' = [pc EXCEPT ![g] = "lookup"]
      /\ name' = [name EXCEPT ![g] = n] /\ calls' = [calls EXCEPT ![g] = @ + 1]
      /\ calls[g] < MaxCalls
      /\ UNCHANGED <<vec, table, writing, registered, value, crashed, done>>
  BY DEF P!Call, P!Goes
<1>2. P!TypeOK'
  <2>1. calls' \in [Goroutines -> 0..MaxCalls]
    BY <1>0, <1>1, MetricsAssumption DEF P!TypeOK, P!ConstantsFit
  <2>2. overlapped' \in BOOLEAN
    BY <1>0
  <2> QED
    BY <1>0, <1>1, <2>1, <2>2 DEF P!TypeOK
<1>3. ServedInv'
  BY <1>0, <1>1 DEF ServedInv, P!TypeOK
<1>4. \A h \in Goroutines : pc'[h] # "lookup" => h # g /\ name'[h] = name[h] /\ pc'[h] = pc[h]
  BY <1>0, <1>1 DEF P!TypeOK
<1>5. \A h \in Goroutines : pc[h] # "idle" => name'[h] = name[h] /\ pc'[h] = pc[h]
  BY <1>0, <1>1 DEF P!TypeOK
<1>6. AloneInv'
  <2>1. ASSUME NEW m \in Maps, writing'[m]
        PROVE  \E h \in Goroutines : pc'[h] = "storing" /\ P!MapUsed(h)' = m
    BY <1>0, <1>1, <1>5, <2>1 DEF AloneInv, FlagsInv, P!MapUsed
  <2>2. ASSUME ~overlapped', NEW h \in Goroutines, pc'[h] = "storing"
        PROVE  writing[P!MapUsed(h)] /\ P!MapUsed(h)' = P!MapUsed(h)
    <3>1. pc[h] = "storing" /\ name'[h] = name[h] /\ ~overlapped
      BY <1>4, <2>2
    <3>2. writing[P!MapUsed(h)]
      BY <1>0, <3>1 DEF AloneInv, WritersInv
    <3> QED
      BY <3>1, <3>2 DEF P!MapUsed
  <2>3. ASSUME ~overlapped', NEW h \in Goroutines, pc'[h] = "create"
        PROVE  registered'[name'[h]] = None
    BY <1>0, <1>1, <1>4, <2>3 DEF AloneInv, CreatorsInv
  <2>4. ASSUME ~overlapped', NEW k \in Names, registered'[k] # None
        PROVE  \/ table'[k] = registered'[k]
               \/ \E h \in Goroutines : pc'[h] \in {"store", "storing"} /\ name'[h] = k
    <3>1. \/ table[k] = registered[k]
          \/ \E h \in Goroutines : pc[h] \in {"store", "storing"} /\ name[h] = k
      BY <1>0, <1>1, <2>4 DEF AloneInv, StoredInv
    <3>2. ASSUME NEW h \in Goroutines, pc[h] \in {"store", "storing"}, name[h] = k
          PROVE  pc'[h] \in {"store", "storing"} /\ name'[h] = k
      BY <1>5, <3>2
    <3> QED
      BY <1>1, <3>1, <3>2
  <2> QED
    BY <1>1, <2>1, <2>2, <2>3, <2>4
       DEF AloneInv, FlagsInv, WritersInv, CreatorsInv, StoredInv
<1> QED
  BY <1>0, <1>1, <1>2, <1>3, <1>6 DEF MetricsInv, P!CrashTakesTwo, P!NothingUncounted

LEMMA LookupKeeps ==
  ASSUME MetricsInv, ~crashed, NEW g \in Goroutines, P!Lookup(g),
         overlapped' = (overlapped \/ P!Overlap')
  PROVE  MetricsInv'
<1>0. P!TypeOK /\ ServedInv /\ AloneInv /\ P!NothingUncounted
  BY DEF MetricsInv
<1>1. /\ pc[g] = "lookup"
      /\ pc' = [pc EXCEPT ![g] = IF table[name[g]] = None THEN "create" ELSE "use"]
      /\ vec' = [vec EXCEPT ![g] = table[name[g]]]
      /\ name[g] \in Names
      /\ UNCHANGED <<name, calls, table, writing, registered, value, crashed, done>>
  BY <1>0 DEF P!Lookup, P!Goes, P!TypeOK
<1>2. P!TypeOK'
  <2>1. overlapped' \in BOOLEAN
    BY <1>0
  <2> QED
    BY <1>0, <1>1, <2>1 DEF P!TypeOK
<1>3. ServedInv'
  BY <1>0, <1>1 DEF ServedInv, P!TypeOK
<1>4. \A h \in Goroutines : h # g => pc'[h] = pc[h]
  BY <1>0, <1>1 DEF P!TypeOK
<1>5. pc'[g] = IF table[name[g]] = None THEN "create" ELSE "use"
  BY <1>0, <1>1 DEF P!TypeOK
<1>6. AloneInv'
  <2>1. ASSUME NEW m \in Maps, writing'[m]
        PROVE  \E h \in Goroutines : pc'[h] = "storing" /\ P!MapUsed(h)' = m
    BY <1>0, <1>1, <1>4, <2>1 DEF AloneInv, FlagsInv, P!MapUsed
  <2>2. ASSUME ~overlapped', NEW h \in Goroutines, pc'[h] = "storing"
        PROVE  writing[P!MapUsed(h)] /\ P!MapUsed(h)' = P!MapUsed(h)
    <3>1. pc[h] = "storing" /\ ~overlapped
      BY <1>4, <1>5, <2>2
    <3>2. writing[P!MapUsed(h)]
      BY <1>0, <3>1 DEF AloneInv, WritersInv
    <3> QED
      BY <1>1, <3>2 DEF P!MapUsed
  <2>3. ASSUME ~overlapped', NEW h \in Goroutines, pc'[h] = "create"
        PROVE  registered'[name'[h]] = None
    <3>1. CASE h # g
      BY <1>0, <1>1, <1>4, <2>3, <3>1 DEF AloneInv, CreatorsInv
    <3>2. CASE h = g
      <4>1. table[name[g]] = None
        BY <1>5, <2>3, <3>2
      <4>2. ASSUME NEW k \in Goroutines, pc[k] \in {"store", "storing"}, name[k] = name[g]
            PROVE  FALSE
        <5>1. P!Overlap
          BY <1>1, <4>2 DEF P!Overlap, P!MapUsed
        <5> QED
          BY <1>0, <2>3, <5>1 DEF AloneInv
      <4> QED
        BY <1>0, <1>1, <2>3, <3>2, <4>1, <4>2 DEF AloneInv, StoredInv
    <3> QED
      BY <3>1, <3>2
  <2>4. ASSUME ~overlapped', NEW n \in Names, registered'[n] # None
        PROVE  \/ table'[n] = registered'[n]
               \/ \E h \in Goroutines : pc'[h] \in {"store", "storing"} /\ name'[h] = n
    BY <1>0, <1>1, <1>4, <2>4 DEF AloneInv, StoredInv
  <2> QED
    BY <1>1, <2>1, <2>2, <2>3, <2>4
       DEF AloneInv, FlagsInv, WritersInv, CreatorsInv, StoredInv
<1> QED
  BY <1>0, <1>1, <1>2, <1>3, <1>6 DEF MetricsInv, P!CrashTakesTwo, P!NothingUncounted
LEMMA CreateKeeps ==
  ASSUME MetricsInv, ~crashed, NEW g \in Goroutines, P!Create(g),
         overlapped' = (overlapped \/ P!Overlap')
  PROVE  MetricsInv'
<1>0. P!TypeOK /\ ServedInv /\ AloneInv /\ P!NothingUncounted
  BY DEF MetricsInv
<1>1. PICK n \in Names :
      /\ pc[g] = "create" /\ name[g] = n /\ registered[n] = None
      /\ pc' = [pc EXCEPT ![g] = "store"]
      /\ vec' = [vec EXCEPT ![g] = <<g, n>>]
      /\ registered' = [registered EXCEPT ![n] = <<g, n>>]
      /\ UNCHANGED <<name, calls, table, writing, value, crashed, done>>
  BY <1>0 DEF P!Create, P!Unregistered, P!Goes, P!TypeOK
<1>2. <<g, n>> \in Goroutines \X Names /\ <<g, n>> # None
  BY MetricsAssumption DEF P!ConstantsFit
<1>3. /\ \A h \in Goroutines : h # g => pc'[h] = pc[h] /\ vec'[h] = vec[h]
      /\ pc'[g] = "store" /\ vec'[g] = <<g, n>>
      /\ registered'[n] = <<g, n>>
      /\ \A m \in Names : m # n => registered'[m] = registered[m]
  BY <1>0, <1>1 DEF P!TypeOK
<1>4. P!TypeOK'
  <2>1. overlapped' \in BOOLEAN
    BY <1>0
  <2> QED
    BY <1>0, <1>1, <1>2, <1>3, <2>1 DEF P!TypeOK, P!Vecs
<1>5. ServedInv'
  <2>1. ASSUME NEW m \in Names
        PROVE  /\ registered'[m] # None => registered'[m] \in Goroutines \X {m}
               /\ table'[m] \in {None, registered'[m]}
               /\ registered'[m] = None =>
                     done'[m] = 0 /\ \A h \in Goroutines : value'[<<h, m>>] = 0
    BY <1>0, <1>1, <1>2, <1>3 DEF ServedInv
  <2>2. ASSUME NEW h \in Goroutines, pc'[h] \in {"store", "storing", "use"}
        PROVE  vec'[h] = registered'[name'[h]] /\ vec'[h] # None
    <3>1. CASE h = g
      BY <1>1, <1>2, <1>3, <3>1
    <3>2. CASE h # g
      <4>1. vec[h] = registered[name[h]] /\ vec[h] # None /\ name[h] \in Names
        BY <1>0, <1>3, <2>2, <3>2 DEF ServedInv, P!TypeOK
      <4> QED
        BY <1>1, <1>3, <3>2, <4>1
    <3> QED
      BY <3>1, <3>2
  <2> QED
    BY <2>1, <2>2 DEF ServedInv
<1>6. AloneInv'
  <2>1. FlagsInv'
    BY <1>0, <1>1, <1>3 DEF AloneInv, FlagsInv, P!MapUsed
  <2>2. ASSUME ~overlapped', NEW h \in Goroutines, pc'[h] = "storing"
        PROVE  writing[P!MapUsed(h)] /\ P!MapUsed(h)' = P!MapUsed(h)
    <3>1. pc[h] = "storing" /\ ~overlapped
      BY <1>3, <2>2
    <3>2. writing[P!MapUsed(h)]
      BY <1>0, <3>1 DEF AloneInv, WritersInv
    <3> QED
      BY <1>1, <3>2 DEF P!MapUsed
  <2>3. ASSUME ~overlapped', NEW h \in Goroutines, pc'[h] = "create"
        PROVE  registered'[name'[h]] = None
    <3>1. h # g /\ pc[h] = "create"
      BY <1>3, <2>3
    <3>2. CASE name[h] = n
      <4>1. P!Overlap'
        BY <1>1, <1>3, <2>3, <3>1, <3>2 DEF P!Overlap, P!MapUsed
      <4> QED
        BY <2>3, <4>1
    <3>3. CASE name[h] # n
      BY <1>0, <1>1, <1>3, <2>3, <3>1, <3>3 DEF AloneInv, CreatorsInv, P!TypeOK
    <3> QED
      BY <3>2, <3>3
  <2>4. ASSUME ~overlapped', NEW m \in Names, registered'[m] # None
        PROVE  \/ table'[m] = registered'[m]
               \/ \E h \in Goroutines : pc'[h] \in {"store", "storing"} /\ name'[h] = m
    <3>1. CASE m = n
      BY <1>1, <1>3, <3>1
    <3>2. CASE m # n
      BY <1>0, <1>1, <1>3, <2>4, <3>2 DEF AloneInv, StoredInv
    <3> QED
      BY <3>1, <3>2
  <2>5. WritersInv' /\ CreatorsInv' /\ StoredInv'
    BY <1>1, <2>2, <2>3, <2>4 DEF WritersInv, CreatorsInv, StoredInv
  <2> QED
    BY <2>1, <2>5 DEF AloneInv
<1>7. P!NothingUncounted'
  <2>1. done[n] = 0 /\ value[<<g, n>>] = 0
    BY <1>0, <1>1 DEF ServedInv
  <2> QED
    BY <1>0, <1>1, <1>2, <1>3, <2>1 DEF P!NothingUncounted
<1> QED
  BY <1>0, <1>1, <1>4, <1>5, <1>6, <1>7 DEF MetricsInv, P!CrashTakesTwo

LEMMA StoreBeginsKeeps ==
  ASSUME MetricsInv, ~crashed, NEW g \in Goroutines, P!StoreBegins(g),
         overlapped' = (overlapped \/ P!Overlap')
  PROVE  MetricsInv'
<1>0. P!TypeOK /\ ServedInv /\ AloneInv /\ P!NothingUncounted
  BY DEF MetricsInv
<1>1. PICK m \in Maps :
      /\ P!MapUsed(g) = m
      /\ pc[g] = "store" /\ pc' = [pc EXCEPT ![g] = "storing"]
      /\ writing' = [writing EXCEPT ![m] = TRUE]
      /\ UNCHANGED <<name, vec, calls, table, registered, value, crashed, done>>
  BY <1>0, MetricsAssumption DEF P!StoreBegins, P!Goes, P!TypeOK, P!MapUsed, P!ConstantsFit
<1>2. /\ \A h \in Goroutines : h # g => pc'[h] = pc[h]
      /\ pc'[g] = "storing"
      /\ \A h \in Goroutines : P!MapUsed(h)' = P!MapUsed(h)
  BY <1>0, <1>1 DEF P!TypeOK, P!MapUsed
<1>3. writing'[m] /\ \A k \in Maps : k # m => writing'[k] = writing[k]
  BY <1>0, <1>1, Zenon DEF P!TypeOK
<1>4. P!TypeOK'
  <2>1. writing' \in [Maps -> BOOLEAN] /\ overlapped' \in BOOLEAN
    BY <1>0, <1>1, Zenon DEF P!TypeOK
  <2> QED
    BY <1>0, <1>1, <2>1 DEF P!TypeOK
<1>5. ServedInv'
  BY <1>0, <1>1 DEF ServedInv, P!TypeOK
<1>6. AloneInv'
  <2>1. FlagsInv'
    <3> SUFFICES ASSUME NEW k \in Maps, writing'[k]
                 PROVE  \E h \in Goroutines : pc'[h] = "storing" /\ P!MapUsed(h)' = k
      BY DEF FlagsInv
    <3>1. CASE k = m
      BY <1>1, <1>2, <3>1
    <3>2. CASE k # m
      <4>1. writing[k]
        BY <1>3, <3>2
      <4> QED
        BY <1>0, <1>1, <1>2, <4>1 DEF AloneInv, FlagsInv
    <3> QED
      BY <3>1, <3>2
  <2>2. WritersInv'
    <3> SUFFICES ASSUME ~overlapped', NEW h \in Goroutines, pc'[h] = "storing"
                 PROVE  writing'[P!MapUsed(h)']
      BY DEF WritersInv
    <3>1. CASE P!MapUsed(h) = m
      BY <1>2, <1>3, <3>1
    <3>2. CASE P!MapUsed(h) # m
      <4>1. pc[h] = "storing" /\ ~overlapped
        BY <1>1, <1>2, <3>2
      <4>2. writing[P!MapUsed(h)]
        BY <1>0, <4>1 DEF AloneInv, WritersInv
      <4>3. P!MapUsed(h) \in Maps
        BY <1>0, MetricsAssumption DEF P!TypeOK, P!MapUsed, P!ConstantsFit
      <4> QED
        BY <1>2, <1>3, <3>2, <4>2, <4>3
    <3> QED
      BY <3>1, <3>2
  <2>3. CreatorsInv'
    BY <1>0, <1>1, <1>2 DEF AloneInv, CreatorsInv
  <2>4. StoredInv'
    <3> SUFFICES ASSUME ~overlapped', NEW k \in Names, registered'[k] # None
                 PROVE  \/ table'[k] = registered'[k]
                        \/ \E h \in Goroutines : pc'[h] \in {"store", "storing"}
                                                 /\ name'[h] = k
      BY DEF StoredInv
    <3>1. \/ table[k] = registered[k]
          \/ \E h \in Goroutines : pc[h] \in {"store", "storing"} /\ name[h] = k
      BY <1>0, <1>1 DEF AloneInv, StoredInv
    <3> QED
      BY <1>1, <1>2, <3>1
  <2> QED
    BY <2>1, <2>2, <2>3, <2>4 DEF AloneInv
<1> QED
  BY <1>0, <1>1, <1>4, <1>5, <1>6 DEF MetricsInv, P!CrashTakesTwo, P!NothingUncounted

LEMMA StoreEndsKeeps ==
  ASSUME MetricsInv, ~crashed, NEW g \in Goroutines, P!StoreEnds(g),
         overlapped' = (overlapped \/ P!Overlap')
  PROVE  MetricsInv'
<1>0. P!TypeOK /\ ServedInv /\ AloneInv /\ P!NothingUncounted
  BY DEF MetricsInv
<1>1. PICK n \in Names, m \in Maps :
      /\ name[g] = n /\ P!MapUsed(g) = m
      /\ pc[g] = "storing" /\ pc' = [pc EXCEPT ![g] = "use"]
      /\ table' = [table EXCEPT ![n] = vec[g]]
      /\ writing' = [writing EXCEPT ![m] = FALSE]
      /\ UNCHANGED <<name, vec, calls, registered, value, crashed, done>>
  BY <1>0, MetricsAssumption
     DEF P!StoreEnds, P!Stored, P!Goes, P!TypeOK, P!MapUsed, P!ConstantsFit
<1>2. /\ \A h \in Goroutines : h # g => pc'[h] = pc[h]
      /\ pc'[g] = "use"
      /\ \A h \in Goroutines : P!MapUsed(h)' = P!MapUsed(h)
      /\ table'[n] = vec[g] /\ \A k \in Names : k # n => table'[k] = table[k]
      /\ vec[g] = registered[n] /\ vec[g] # None
  BY <1>0, <1>1 DEF P!TypeOK, P!MapUsed, ServedInv
<1>3. ~writing'[m] /\ \A k \in Maps : k # m => writing'[k] = writing[k]
  BY <1>0, <1>1, Zenon DEF P!TypeOK
<1>4. P!TypeOK'
  <2>1. writing' \in [Maps -> BOOLEAN] /\ overlapped' \in BOOLEAN
    BY <1>0, <1>1, Zenon DEF P!TypeOK
  <2> QED
    BY <1>0, <1>1, <2>1 DEF P!TypeOK
<1>5. ServedInv'
  BY <1>0, <1>1, <1>2 DEF ServedInv, P!TypeOK
<1>6. AloneInv'
  <2>1. FlagsInv'
    <3> SUFFICES ASSUME NEW k \in Maps, writing'[k]
                 PROVE  \E h \in Goroutines : pc'[h] = "storing" /\ P!MapUsed(h)' = k
      BY DEF FlagsInv
    <3>1. k # m /\ writing[k]
      BY <1>3
    <3>2. PICK h \in Goroutines : pc[h] = "storing" /\ P!MapUsed(h) = k
      BY <1>0, <3>1 DEF AloneInv, FlagsInv
    <3> QED
      BY <1>1, <1>2, <3>1, <3>2
  <2>2. WritersInv'
    <3> SUFFICES ASSUME ~overlapped', NEW h \in Goroutines, pc'[h] = "storing"
                 PROVE  writing'[P!MapUsed(h)']
      BY DEF WritersInv
    <3>1. h # g /\ pc[h] = "storing" /\ ~overlapped
      BY <1>2
    <3>2. CASE P!MapUsed(h) = m
      <4>1. P!Overlap
        BY <1>1, <3>1, <3>2 DEF P!Overlap
      <4> QED
        BY <1>0, <3>1, <4>1 DEF AloneInv
    <3>3. CASE P!MapUsed(h) # m
      <4>1. writing[P!MapUsed(h)]
        BY <1>0, <3>1 DEF AloneInv, WritersInv
      <4>2. P!MapUsed(h) \in Maps
        BY <1>0, MetricsAssumption DEF P!TypeOK, P!MapUsed, P!ConstantsFit
      <4> QED
        BY <1>2, <1>3, <3>3, <4>1, <4>2
    <3> QED
      BY <3>2, <3>3
  <2>3. CreatorsInv'
    BY <1>0, <1>1, <1>2 DEF AloneInv, CreatorsInv
  <2>4. StoredInv'
    <3> SUFFICES ASSUME ~overlapped', NEW k \in Names, registered'[k] # None
                 PROVE  \/ table'[k] = registered'[k]
                        \/ \E h \in Goroutines : pc'[h] \in {"store", "storing"}
                                                 /\ name'[h] = k
      BY DEF StoredInv
    <3>1. CASE k = n
      BY <1>1, <1>2, <3>1
    <3>2. CASE k # n
      BY <1>0, <1>1, <1>2, <3>2 DEF AloneInv, StoredInv
    <3> QED
      BY <3>1, <3>2
  <2> QED
    BY <2>1, <2>2, <2>3, <2>4 DEF AloneInv
<1> QED
  BY <1>0, <1>1, <1>4, <1>5, <1>6 DEF MetricsInv, P!CrashTakesTwo, P!NothingUncounted

LEMMA UseKeeps ==
  ASSUME MetricsInv, ~crashed, NEW g \in Goroutines, P!Use(g),
         overlapped' = (overlapped \/ P!Overlap')
  PROVE  MetricsInv'
<1>0. P!TypeOK /\ ServedInv /\ AloneInv /\ P!NothingUncounted
  BY DEF MetricsInv
<1>1. PICK n \in Names :
      /\ name[g] = n /\ vec[g] = registered[n] /\ vec[g] # None
      /\ pc[g] = "use" /\ pc' = [pc EXCEPT ![g] = "idle"]
      /\ value' = [value EXCEPT ![vec[g]] = @ + 1]
      /\ done' = [done EXCEPT ![n] = @ + 1]
      /\ UNCHANGED <<name, vec, calls, table, writing, registered, crashed>>
  BY <1>0 DEF P!Use, P!Goes, P!TypeOK, ServedInv
<1>2. PICK v \in P!Vecs : v = vec[g] /\ v \in Goroutines \X {n}
  BY <1>0, <1>1 DEF ServedInv, P!Vecs
<1>3. /\ \A h \in Goroutines : h # g => pc'[h] = pc[h]
      /\ pc'[g] = "idle"
      /\ value'[v] = value[v] + 1 /\ \A w \in P!Vecs : w # v => value'[w] = value[w]
      /\ done'[n] = done[n] + 1 /\ \A k \in Names : k # n => done'[k] = done[k]
  BY <1>0, <1>1, <1>2 DEF P!TypeOK
<1>4. P!TypeOK'
  <2>1. value' \in [P!Vecs -> Nat] /\ done' \in [Names -> Nat]
    BY <1>0, <1>1, <1>2 DEF P!TypeOK
  <2>2. overlapped' \in BOOLEAN
    BY <1>0
  <2> QED
    BY <1>0, <1>1, <1>3, <2>1, <2>2 DEF P!TypeOK
<1>5. ServedInv'
  <2>1. ASSUME NEW k \in Names, registered[k] = None
        PROVE  k # n /\ \A h \in Goroutines : <<h, k>> \in P!Vecs /\ <<h, k>> # v
    BY <1>1, <1>2, <2>1 DEF P!Vecs
  <2> QED
    BY <1>0, <1>1, <1>3, <2>1 DEF ServedInv
<1>6. AloneInv'
  <2>1. \A h \in Goroutines : P!MapUsed(h)' = P!MapUsed(h)
    BY <1>1 DEF P!MapUsed
  <2>2. FlagsInv'
    BY <1>0, <1>1, <1>3, <2>1 DEF AloneInv, FlagsInv
  <2>3. WritersInv'
    <3> SUFFICES ASSUME ~overlapped', NEW h \in Goroutines, pc'[h] = "storing"
                 PROVE  writing'[P!MapUsed(h)']
      BY DEF WritersInv
    <3>1. pc[h] = "storing" /\ ~overlapped
      BY <1>3
    <3>2. writing[P!MapUsed(h)]
      BY <1>0, <3>1 DEF AloneInv, WritersInv
    <3> QED
      BY <1>1, <2>1, <3>2
  <2>4. CreatorsInv' /\ StoredInv'
    BY <1>0, <1>1, <1>3 DEF AloneInv, CreatorsInv, StoredInv
  <2> QED
    BY <2>2, <2>3, <2>4 DEF AloneInv
<1>7. P!NothingUncounted'
  <2>1. ASSUME NEW k \in Names
        PROVE  IF registered'[k] = None THEN done'[k] = 0
                                        ELSE value'[registered'[k]] = done'[k]
    <3>1. CASE k = n
      BY <1>0, <1>1, <1>2, <1>3, <3>1 DEF P!NothingUncounted
    <3>2. CASE k # n
      <4>1. registered[k] # None => registered[k] \in P!Vecs /\ registered[k] # v
        BY <1>0, <1>2, <3>2 DEF ServedInv, P!Vecs
      <4> QED
        BY <1>0, <1>1, <1>3, <3>2, <4>1 DEF P!NothingUncounted
    <3> QED
      BY <3>1, <3>2
  <2> QED
    BY <1>1, <2>1 DEF P!NothingUncounted
<1> QED
  BY <1>0, <1>1, <1>4, <1>5, <1>6, <1>7 DEF MetricsInv, P!CrashTakesTwo
LEMMA NextMetrics == MetricsInv /\ [P!Next]_(P!vars) => MetricsInv'
<1> SUFFICES ASSUME MetricsInv, [P!Next]_(P!vars) PROVE MetricsInv'
  OBVIOUS
<1>1. CASE P!Next
  <2>1. ~crashed /\ overlapped' = (overlapped \/ P!Overlap')
    BY <1>1 DEF P!Next
  <2>2. PICK g \in Goroutines :
           \/ \E n \in Names : P!Call(g, n)
           \/ P!Lookup(g) \/ P!Create(g) \/ P!StoreBegins(g) \/ P!StoreEnds(g) \/ P!Use(g)
           \/ P!ReadSeen(g) \/ P!DuplicatePanics(g) \/ P!WriteSeen(g) \/ P!FlagLost(g)
    BY <1>1 DEF P!Next
  <2>3. CASE \E n \in Names : P!Call(g, n)
    BY <2>1, <2>3, CallKeeps
  <2>4. CASE P!Lookup(g)
    BY <2>1, <2>4, LookupKeeps
  <2>5. CASE P!Create(g)
    BY <2>1, <2>5, CreateKeeps
  <2>6. CASE P!StoreBegins(g)
    BY <2>1, <2>6, StoreBeginsKeeps
  <2>7. CASE P!StoreEnds(g)
    BY <2>1, <2>7, StoreEndsKeeps
  <2>8. CASE P!Use(g)
    BY <2>1, <2>8, UseKeeps
  <2>9. CASE P!ReadSeen(g) \/ P!DuplicatePanics(g) \/ P!WriteSeen(g) \/ P!FlagLost(g)
    BY <2>1, <2>9, CrashKeeps
  <2> QED
    BY <2>2, <2>3, <2>4, <2>5, <2>6, <2>7, <2>8, <2>9
<1>2. CASE UNCHANGED P!vars
  <2>1. UNCHANGED <<pc, name, vec, calls, table, writing, registered, value, crashed, done,
                    overlapped>>
    BY <1>2 DEF P!vars
  <2>2. P!TypeOK' /\ ServedInv' /\ P!CrashTakesTwo' /\ P!NothingUncounted'
    BY <2>1 DEF MetricsInv, P!TypeOK, ServedInv, P!CrashTakesTwo, P!NothingUncounted
  <2>3. AloneInv'
    BY <2>1, Zenon DEF MetricsInv, AloneInv, FlagsInv, WritersInv, CreatorsInv, StoredInv,
                       P!Overlap, P!MapUsed
  <2> QED
    BY <2>2, <2>3 DEF MetricsInv
<1> QED
  BY <1>1, <1>2

\* The process is ended by the metrics only if one is created while another
\* goroutine is in a call on the same map, and until then the metric served under a
\* name has counted every finished call, for any goroutines, names and maps.
THEOREM MetricsAreSafe == Spec => []MetricsSafe
<1>1. Init => MetricsInv
  BY InitMetrics DEF Init
<1>2. MetricsInv /\ [Next]_vars => MetricsInv'
  <2> SUFFICES ASSUME MetricsInv, [Next]_vars PROVE [P!Next]_(P!vars)
    BY NextMetrics
  <2> QED
    BY DEF Next, BroadcastRuns, SuckerRuns, MetricsRun, MapRuns, vars, metricsVars, P!vars
<1>3. MetricsInv => MetricsSafe
  BY DEF MetricsInv, MetricsSafe
<1> QED
  BY <1>1, <1>2, <1>3, PTL DEF Spec
-----------------------------------------------------------------------------
(* ShardedMap: Size and Clear, one shard after the other. *)

\* Those of the keys whose shard the loop has passed.
Passed(keys, i) == {k \in keys : ShardOf[k] < i}

\* The operators of FiniteSets, under the name the instance gives them.
LEMMA FiniteInMap == \A S : M!IsFiniteSet(S) = IsFiniteSet(S) /\ M!Cardinality(S) = Cardinality(S)
<1>1. \A S : M!IsFiniteSet(S) = IsFiniteSet(S)
  BY DEF M!IsFiniteSet, IsFiniteSet
<1>2. ASSUME NEW S PROVE M!Cardinality(S) = Cardinality(S)
  BY Zenon DEF M!Cardinality, Cardinality
<1> QED
  BY <1>1, <1>2

LEMMA PassedGrows ==
  ASSUME NEW S \in SUBSET Keys, NEW T, S \subseteq T, T \subseteq Keys, NEW i \in Nat
  PROVE  /\ IsFiniteSet(Passed(S, i)) /\ Cardinality(Passed(S, i)) \in Nat
         /\ Cardinality(Passed(S, i)) <= Cardinality(Passed(T, i))
         /\ Cardinality(Passed(S, i)) <= Cardinality(S)
         /\ Cardinality(S) <= Cardinality(Keys)
<1>1. IsFiniteSet(Keys)
  BY MapAssumption, FiniteInMap DEF M!ConstantsFit
<1>2. Passed(S, i) \subseteq Passed(T, i) /\ Passed(T, i) \subseteq Keys /\ Passed(S, i) \subseteq S
  BY DEF Passed
<1>3. IsFiniteSet(T) /\ IsFiniteSet(S) /\ IsFiniteSet(Passed(T, i)) /\ IsFiniteSet(Passed(S, i))
  BY <1>1, <1>2, FS_Subset
<1> QED
  BY <1>1, <1>2, <1>3, FS_Subset, FS_CardinalityType

\* Those in the shard it is at.
Here(keys, i) == {k \in keys : ShardOf[k] = i}

\* One shard more.
LEMMA PassedNext ==
  ASSUME NEW S \in SUBSET Keys, NEW i \in Nat
  PROVE  /\ IsFiniteSet(Here(S, i)) /\ Cardinality(Here(S, i)) \in Nat
         /\ Cardinality(Passed(S, i + 1)) = Cardinality(Passed(S, i)) + Cardinality(Here(S, i))
<1>1. IsFiniteSet(Keys) /\ \A k \in Keys : ShardOf[k] \in Nat
  BY MapAssumption, FiniteInMap DEF M!ConstantsFit
<1>2. /\ Passed(S, i + 1) = Passed(S, i) \union Here(S, i)
      /\ Passed(S, i) \intersect Here(S, i) = {}
      /\ Here(S, i) \subseteq Keys /\ Passed(S, i) \subseteq Keys
  BY <1>1 DEF Passed, Here
<1>3. IsFiniteSet(Here(S, i)) /\ IsFiniteSet(Passed(S, i))
  BY <1>1, <1>2, FS_Subset
<1>4. Cardinality(Here(S, i)) \in Nat /\ Cardinality(Passed(S, i)) \in Nat
  BY <1>3, FS_CardinalityType
<1>5. Cardinality(Passed(S, i) \union Here(S, i))
        = Cardinality(Passed(S, i)) + Cardinality(Here(S, i))
          - Cardinality(Passed(S, i) \intersect Here(S, i))
  BY <1>3, FS_Union
<1>6. Cardinality(Passed(S, i) \intersect Here(S, i)) = 0
  BY <1>2, FS_EmptySet
<1>7. Cardinality(Passed(S, i + 1)) = Cardinality(Passed(S, i) \union Here(S, i))
  BY <1>2
<1> QED
  BY <1>3, <1>4, <1>5, <1>6, <1>7

LoopInv ==
    /\ \A u \in Users :
         /\ op[u] \in {"size", "clear"} => always[u] \subseteq present /\ present \subseteq ever[u]
         /\ op[u] \notin {"size", "clear"} => always[u] = {}
         /\ op[u] # "size" => total[u] = 0

\* What Size has counted is right for the shards it has passed.
CountInv == \A u \in Users : op[u] = "size" =>
    /\ Cardinality(Passed(always[u], at[u])) <= total[u]
    /\ total[u] <= Cardinality(Passed(ever[u], at[u]))

ClearInv == \A u \in Users : op[u] = "clear" => Passed(always[u], at[u]) = {}

\* The histories are functions.
HistoryInv == always \in [Users -> SUBSET Keys] /\ ever \in [Users -> SUBSET Keys]

MapInv == M!TypeOK /\ HistoryInv /\ LoopInv /\ CountInv /\ ClearInv
\* The types, with the operators of FiniteSets.
LEMMA MapTypes ==
  ASSUME MapInv
  PROVE  /\ present \subseteq Keys
         /\ op \in [Users -> {"none", "size", "clear", "locking", "inside", "failed",
                              "unlocking"}]
         /\ at \in [Users -> 1..(ShardsCount + 1)]
         /\ total \in [Users -> 0..Cardinality(Keys)]
         /\ mapCalls \in [Users -> 0..MaxCalls]
         /\ owner \in [1..ShardsCount -> Users \union {None}]
         /\ \A u \in Users : always[u] \subseteq ever[u] /\ ever[u] \subseteq Keys
         /\ always \in [Users -> SUBSET Keys] /\ ever \in [Users -> SUBSET Keys]
         /\ Cardinality(Keys) \in Nat /\ ShardsCount \in Nat \ {0} /\ MaxCalls \in Nat
         /\ \A k \in Keys : ShardOf[k] \in 1..ShardsCount
<1>1. /\ IsFiniteSet(Keys) /\ ShardsCount \in Nat \ {0} /\ MaxCalls \in Nat
      /\ ShardOf \in [Keys -> 1..ShardsCount]
  BY MapAssumption, FiniteInMap DEF M!ConstantsFit
<1>2. Cardinality(Keys) \in Nat
  BY <1>1, FS_CardinalityType
<1>3. M!TypeOK /\ M!Cardinality(Keys) = Cardinality(Keys)
  BY FiniteInMap DEF MapInv
<1> QED
  BY <1>1, <1>2, <1>3 DEF M!TypeOK, M!Shards, MapInv, HistoryInv

\* How the counts of a user stand after a change of the map.
LEMMA CountsStand ==
  ASSUME NEW u \in Users, MapInv, op[u] = "size",
         NEW A \in SUBSET always[u], NEW E, ever[u] \subseteq E, E \subseteq Keys
  PROVE  /\ Cardinality(Passed(A, at[u])) <= total[u]
         /\ total[u] <= Cardinality(Passed(E, at[u]))
<1>1. /\ always[u] \in SUBSET Keys /\ ever[u] \in SUBSET Keys /\ A \in SUBSET Keys
      /\ at[u] \in Nat /\ total[u] \in Nat
  BY MapTypes
<1>2. /\ Cardinality(Passed(A, at[u])) <= Cardinality(Passed(always[u], at[u]))
      /\ Cardinality(Passed(ever[u], at[u])) <= Cardinality(Passed(E, at[u]))
      /\ Cardinality(Passed(A, at[u])) \in Nat /\ Cardinality(Passed(always[u], at[u])) \in Nat
      /\ Cardinality(Passed(ever[u], at[u])) \in Nat /\ Cardinality(Passed(E, at[u])) \in Nat
  BY <1>1, PassedGrows
<1> QED
  BY <1>1, <1>2 DEF MapInv, CountInv

\* The map changes under the lock of a shard.
LEMMA BecomesKeeps ==
  ASSUME MapInv, NEW keys \in SUBSET Keys, M!Becomes(keys),
         UNCHANGED <<op, at, total, owner>>, mapCalls' \in [Users -> 0..MaxCalls]
  PROVE  MapInv'
<1>0. HistoryInv /\ LoopInv /\ CountInv /\ ClearInv /\ M!TypeOK
  BY DEF MapInv
<1>1. /\ present' = keys
      /\ always' = [u \in Users |-> always[u] \intersect keys]
      /\ ever' = [u \in Users |-> IF op[u] \in {"size", "clear"} THEN ever[u] \union keys
                                                                 ELSE {}]
  BY DEF M!Becomes, M!Loops
<1>2. M!TypeOK'
  <2>1. \A u \in Users : always'[u] \subseteq ever'[u] /\ ever'[u] \subseteq Keys
    BY <1>0, <1>1, MapTypes DEF LoopInv
  <2> QED
    BY <1>0, <1>1, <2>1 DEF M!TypeOK
<1>3. LoopInv' /\ HistoryInv'
  BY <1>0, <1>1, MapTypes DEF LoopInv, HistoryInv
<1>4. CountInv'
  <2> SUFFICES ASSUME NEW u \in Users, op[u] = "size"
               PROVE  /\ Cardinality(Passed(always'[u], at[u])) <= total[u]
                      /\ total[u] <= Cardinality(Passed(ever'[u], at[u]))
    BY DEF CountInv
  <2>1. always'[u] \in SUBSET always[u] /\ ever[u] \subseteq ever'[u] /\ ever'[u] \subseteq Keys
    BY <1>1, MapTypes
  <2> QED
    BY <2>1, CountsStand
<1>5. ClearInv'
  BY <1>0, <1>1 DEF ClearInv, Passed
<1> QED
  BY <1>2, <1>3, <1>4, <1>5 DEF MapInv

\* A user goes on, outside the loops of Size and Clear.
LEMMA OutsideKeeps ==
  ASSUME MapInv, NEW u \in Users, op[u] \notin {"size", "clear"},
         NEW place \in {"none", "locking", "inside", "failed", "unlocking"},
         NEW shard \in 1..(ShardsCount + 1), M!Goes(u, place, shard),
         owner' \in [1..ShardsCount -> Users \union {None}],
         UNCHANGED <<present, total, mapCalls, always, ever>>
  PROVE  MapInv'
<1>0. HistoryInv /\ LoopInv /\ CountInv /\ ClearInv /\ M!TypeOK
  BY DEF MapInv
<1>1. /\ op' = [op EXCEPT ![u] = place] /\ at' = [at EXCEPT ![u] = shard]
      /\ op'[u] = place /\ \A v \in Users : v # u => op'[v] = op[v] /\ at'[v] = at[v]
  BY MapTypes DEF M!Goes
<1>2. M!TypeOK'
  <2>1. /\ op' \in [Users -> {"none", "size", "clear", "locking", "inside", "failed",
                              "unlocking"}]
        /\ at' \in [Users -> 1..(ShardsCount + 1)]
    BY <1>1, MapTypes
  <2> QED
    BY <1>0, <2>1 DEF M!TypeOK, M!Shards
<1>3. HistoryInv' /\ LoopInv' /\ CountInv' /\ ClearInv'
  BY <1>0, <1>1 DEF HistoryInv, LoopInv, CountInv, ClearInv
<1> QED
  BY <1>2, <1>3 DEF MapInv

\* A call that loops over the shards begins.
LEMMA BeginKeeps ==
  ASSUME MapInv, NEW u \in Users, NEW place \in {"size", "clear", "locking"},
         M!Begin(u, place)
  PROVE  MapInv'
<1> DEFINE known == IF place = "locking" THEN {} ELSE present
<1>0. HistoryInv /\ LoopInv /\ CountInv /\ ClearInv /\ M!TypeOK
  BY DEF MapInv
<1>1. /\ op[u] = "none" /\ mapCalls[u] < MaxCalls
      /\ mapCalls' = [mapCalls EXCEPT ![u] = @ + 1]
      /\ op' = [op EXCEPT ![u] = place] /\ at' = [at EXCEPT ![u] = 1]
      /\ always' = [always EXCEPT ![u] = known] /\ ever' = [ever EXCEPT ![u] = known]
      /\ UNCHANGED <<present, owner, total>>
  BY DEF M!Begin, M!Goes
<1>2. known \in SUBSET Keys /\ 1 \in 1..(ShardsCount + 1)
      /\ place \in {"none", "size", "clear", "locking", "inside", "failed", "unlocking"}
  BY MapTypes
<1>3. /\ op'[u] = place /\ at'[u] = 1 /\ always'[u] = known /\ ever'[u] = known
      /\ \A v \in Users : v # u => /\ op'[v] = op[v] /\ at'[v] = at[v]
                                   /\ always'[v] = always[v] /\ ever'[v] = ever[v]
  BY <1>1, MapTypes
<1> HIDE DEF known
<1>4. M!TypeOK' /\ HistoryInv'
  <2>1. /\ op' \in [Users -> {"none", "size", "clear", "locking", "inside", "failed",
                              "unlocking"}]
        /\ at' \in [Users -> 1..(ShardsCount + 1)]
        /\ mapCalls' \in [Users -> 0..MaxCalls]
        /\ always' \in [Users -> SUBSET Keys] /\ ever' \in [Users -> SUBSET Keys]
    BY <1>1, <1>2, MapTypes
  <2>2. \A v \in Users : always'[v] \subseteq ever'[v] /\ ever'[v] \subseteq Keys
    BY <1>2, <1>3, MapTypes
  <2> QED
    BY <1>0, <1>1, <2>1, <2>2 DEF M!TypeOK, M!Shards, HistoryInv
<1>5. LoopInv'
  BY <1>0, <1>1, <1>3 DEF LoopInv, known
<1>6. CountInv'
  <2>1. total[u] = 0
    BY <1>0, <1>1 DEF LoopInv
  <2>2. Passed(known, 1) = {}
    BY <1>2, MapTypes DEF Passed
  <2>3. Cardinality(Passed(known, 1)) = 0
    BY <2>2, FS_EmptySet
  <2>4. /\ Cardinality(Passed(always'[u], at'[u])) <= total[u]
        /\ total[u] <= Cardinality(Passed(ever'[u], at'[u]))
    BY <1>3, <2>1, <2>3
  <2> QED
    BY <1>0, <1>1, <1>3, <2>4 DEF CountInv
<1>7. ClearInv'
  <2>1. Passed(known, 1) = {}
    BY <1>2, MapTypes DEF Passed
  <2> QED
    BY <1>0, <1>3, <2>1 DEF ClearInv
<1> QED
  BY <1>4, <1>5, <1>6, <1>7 DEF MapInv
\* Size counts the shard it has come to.
LEMMA SizeKeeps ==
  ASSUME MapInv, NEW u \in Users, M!SizeOfNext(u)
  PROVE  MapInv'
<1> DEFINE i == at[u]
           n == Cardinality(Here(present, i))
<1>0. HistoryInv /\ LoopInv /\ CountInv /\ ClearInv /\ M!TypeOK
  BY DEF MapInv
<1>1. /\ op[u] = "size" /\ i <= ShardsCount
      /\ op' = [op EXCEPT ![u] = "size"] /\ at' = [at EXCEPT ![u] = i + 1]
      /\ UNCHANGED <<present, owner, mapCalls, always, ever>>
  BY DEF M!SizeOfNext, M!Goes, M!LastShard
<1>2. total' = [total EXCEPT ![u] = total[u] + n]
  <2>1. M!Cardinality(M!In(at[u])) = n
    BY FiniteInMap DEF M!In, Here
  <2> QED
    BY <2>1 DEF M!SizeOfNext
<1>3. /\ i \in 1..ShardsCount /\ i \in Nat /\ total[u] \in Nat /\ present \in SUBSET Keys
      /\ always[u] \in SUBSET present /\ present \subseteq ever[u] /\ ever[u] \in SUBSET Keys
      /\ always[u] \in SUBSET Keys
  BY <1>0, <1>1, MapTypes DEF LoopInv
<1>4. n \in Nat
  BY <1>3, PassedNext
<1>5. op' = op
  BY <1>1, MapTypes
<1>6. /\ at'[u] = i + 1 /\ total'[u] = total[u] + n
      /\ \A v \in Users : v # u => at'[v] = at[v] /\ total'[v] = total[v]
  BY <1>1, <1>2, MapTypes
<1>7. CountInv'
  <2> DEFINE a == Cardinality(Here(always[u], i))
             e == Cardinality(Here(ever[u], i))
             pa == Cardinality(Passed(always[u], i))
             pe == Cardinality(Passed(ever[u], i))
  <2>1. /\ Here(always[u], i) \subseteq Here(present, i)
        /\ Here(present, i) \subseteq Here(ever[u], i)
    BY <1>3 DEF Here
  <2>2. /\ IsFiniteSet(Here(ever[u], i)) /\ IsFiniteSet(Here(present, i))
        /\ a \in Nat /\ e \in Nat
        /\ Cardinality(Passed(always[u], i + 1)) = pa + a
        /\ Cardinality(Passed(ever[u], i + 1)) = pe + e
    BY <1>3, PassedNext
  <2>3. a <= n /\ n <= e
    BY <2>1, <2>2, FS_Subset
  <2>4. pa \in Nat /\ pe \in Nat
    BY <1>3, PassedGrows
  <2>5. pa <= total[u] /\ total[u] <= pe
    BY <1>0, <1>1 DEF CountInv
  <2> HIDE DEF a, e, pa, pe, n
  <2>6. /\ Cardinality(Passed(always[u], i + 1)) <= total[u] + n
        /\ total[u] + n <= Cardinality(Passed(ever[u], i + 1))
    BY <1>3, <1>4, <2>2, <2>3, <2>4, <2>5
  <2>7. /\ Cardinality(Passed(always'[u], at'[u])) <= total'[u]
        /\ total'[u] <= Cardinality(Passed(ever'[u], at'[u]))
    BY <1>1, <1>6, <2>6
  <2> QED
    BY <1>0, <1>1, <1>5, <1>6, <2>7 DEF CountInv
<1>8. M!TypeOK'
  <2>1. total'[u] \in Nat /\ total'[u] <= Cardinality(Keys)
    <3>1. total'[u] \in Nat
      BY <1>3, <1>4, <1>6
    <3>2. /\ Cardinality(Passed(ever[u], i + 1)) <= Cardinality(ever[u])
          /\ Cardinality(ever[u]) <= Cardinality(Keys)
          /\ Cardinality(Passed(ever[u], i + 1)) \in Nat
      <4>1. i + 1 \in Nat /\ ever[u] \subseteq ever[u] /\ ever[u] \subseteq Keys
        BY <1>3
      <4> QED
        BY <1>3, <4>1, PassedGrows
    <3>3. total'[u] <= Cardinality(Passed(ever[u], i + 1))
      BY <1>1, <1>5, <1>6, <1>7 DEF CountInv
    <3>4. Cardinality(ever[u]) \in Nat /\ Cardinality(Keys) \in Nat
      <4>1. IsFiniteSet(Keys)
        BY MapAssumption, FiniteInMap DEF M!ConstantsFit
      <4>2. IsFiniteSet(ever[u])
        BY <1>3, <4>1, FS_Subset
      <4> QED
        BY <4>1, <4>2, FS_CardinalityType
    <3> QED
      BY <3>1, <3>2, <3>3, <3>4
  <2>2. total' \in [Users -> 0..Cardinality(Keys)]
    BY <1>2, <1>6, <2>1, MapTypes
  <2>3. total' \in [Users -> 0..M!Cardinality(Keys)]
    BY <2>2, FiniteInMap
  <2>4. at' \in [Users -> 1..(ShardsCount + 1)]
    BY <1>1, <1>3, MapTypes
  <2> QED
    BY <1>0, <1>1, <1>5, <2>3, <2>4 DEF M!TypeOK, M!Shards
<1>9. HistoryInv' /\ LoopInv' /\ ClearInv'
  BY <1>0, <1>1, <1>5, <1>6 DEF HistoryInv, LoopInv, ClearInv
<1> QED
  BY <1>7, <1>8, <1>9 DEF MapInv

\* Clear empties the shard it has come to.
LEMMA ClearKeeps ==
  ASSUME MapInv, NEW u \in Users, M!ClearNext(u)
  PROVE  MapInv'
<1> DEFINE i == at[u]
           keys == present \ Here(present, i)
<1>0. HistoryInv /\ LoopInv /\ CountInv /\ ClearInv /\ M!TypeOK
  BY DEF MapInv
<1>1. /\ op[u] = "clear" /\ i <= ShardsCount
      /\ op' = [op EXCEPT ![u] = "clear"] /\ at' = [at EXCEPT ![u] = i + 1]
      /\ present' = keys
      /\ always' = [v \in Users |-> always[v] \intersect keys]
      /\ ever' = [v \in Users |-> IF op[v] \in {"size", "clear"} THEN ever[v] \union keys
                                                                 ELSE {}]
      /\ UNCHANGED <<owner, total, mapCalls>>
  BY DEF M!ClearNext, M!Goes, M!LastShard, M!Becomes, M!Loops, M!In, Here
<1>2. i \in 1..ShardsCount /\ i \in Nat /\ keys \in SUBSET Keys
  BY <1>1, MapTypes
<1>3. op' = op /\ at'[u] = i + 1 /\ \A v \in Users : v # u => at'[v] = at[v]
  BY <1>1, MapTypes
<1>4. M!TypeOK'
  <2>1. \A v \in Users : always'[v] \subseteq ever'[v] /\ ever'[v] \subseteq Keys
    BY <1>0, <1>1, <1>2, MapTypes DEF LoopInv
  <2>2. at' \in [Users -> 1..(ShardsCount + 1)]
    BY <1>1, <1>2, MapTypes
  <2> QED
    BY <1>0, <1>1, <1>2, <1>3, <2>1, <2>2 DEF M!TypeOK, M!Shards
<1>5. HistoryInv'
  BY <1>0, <1>1, <1>2, MapTypes DEF HistoryInv
<1>6. LoopInv'
  BY <1>0, <1>1, <1>3 DEF LoopInv
<1>7. CountInv'
  <2> SUFFICES ASSUME NEW v \in Users, op[v] = "size"
               PROVE  /\ Cardinality(Passed(always'[v], at[v])) <= total[v]
                      /\ total[v] <= Cardinality(Passed(ever'[v], at[v]))
    BY <1>1, <1>3 DEF CountInv
  <2>1. always'[v] \in SUBSET always[v] /\ ever[v] \subseteq ever'[v] /\ ever'[v] \subseteq Keys
    BY <1>1, <1>2, MapTypes
  <2> QED
    BY <2>1, CountsStand
<1>8. ClearInv'
  <2>1. Passed(always'[u], i + 1) = {}
    <3>1. SUFFICES ASSUME NEW k \in Passed(always'[u], i + 1) PROVE FALSE
      OBVIOUS
    <3>2. k \in always[u] /\ k \in keys /\ ShardOf[k] < i + 1 /\ k \in Keys
      BY <1>1, <1>2 DEF Passed
    <3>3. ShardOf[k] < i \/ ShardOf[k] = i
      BY <1>2, <3>2, MapTypes
    <3> QED
      BY <1>0, <1>1, <3>2, <3>3 DEF ClearInv, Passed, Here
  <2>2. \A v \in Users : v # u /\ op[v] = "clear" => Passed(always'[v], at[v]) = {}
    BY <1>0, <1>1 DEF ClearInv, Passed
  <2> QED
    BY <1>3, <2>1, <2>2 DEF ClearInv
<1> QED
  BY <1>4, <1>5, <1>6, <1>7, <1>8 DEF MapInv

\* Size or Clear returns.
LEMMA ReturnKeeps ==
  ASSUME MapInv, NEW u \in Users, M!Return(u)
  PROVE  MapInv'
<1>0. HistoryInv /\ LoopInv /\ CountInv /\ ClearInv /\ M!TypeOK
  BY DEF MapInv
<1>1. /\ op' = [op EXCEPT ![u] = "none"] /\ at' = [at EXCEPT ![u] = 1]
      /\ total' = [total EXCEPT ![u] = 0]
      /\ always' = [always EXCEPT ![u] = {}] /\ ever' = [ever EXCEPT ![u] = {}]
      /\ UNCHANGED <<present, owner, mapCalls>>
  BY DEF M!Return, M!Goes
<1>2. /\ op'[u] = "none" /\ total'[u] = 0 /\ always'[u] = {} /\ ever'[u] = {}
      /\ \A v \in Users : v # u => /\ op'[v] = op[v] /\ at'[v] = at[v] /\ total'[v] = total[v]
                                   /\ always'[v] = always[v] /\ ever'[v] = ever[v]
  BY <1>1, MapTypes
<1>3. M!TypeOK' /\ HistoryInv'
  <2>1. /\ op' \in [Users -> {"none", "size", "clear", "locking", "inside", "failed",
                              "unlocking"}]
        /\ at' \in [Users -> 1..(ShardsCount + 1)]
        /\ total' \in [Users -> 0..Cardinality(Keys)]
        /\ always' \in [Users -> SUBSET Keys] /\ ever' \in [Users -> SUBSET Keys]
    BY <1>1, MapTypes
  <2>2. total' \in [Users -> 0..M!Cardinality(Keys)]
    BY <2>1, FiniteInMap
  <2>3. \A v \in Users : always'[v] \subseteq ever'[v] /\ ever'[v] \subseteq Keys
    BY <1>2, MapTypes
  <2> QED
    BY <1>0, <1>1, <2>1, <2>2, <2>3 DEF M!TypeOK, M!Shards, HistoryInv
<1>4. LoopInv' /\ ClearInv' /\ CountInv'
  BY <1>0, <1>1, <1>2 DEF LoopInv, ClearInv, CountInv
<1> QED
  BY <1>3, <1>4 DEF MapInv

\* Each step of the map keeps its invariant.
LEMMA MapNextKeeps == ASSUME MapInv, M!Next PROVE MapInv'
<1> PICK u \in Users :
         \/ \E k \in Keys : M!Set(u, k) \/ M!Delete(u, k) \/ M!CallbackDeletes(u, k)
         \/ \E place \in {"size", "clear", "locking"} : M!Begin(u, place)
         \/ M!CallbackFails(u)
         \/ M!Proceeds(u)
  BY DEF M!Next
<1>0. 1 \in 1..(ShardsCount + 1)
  BY MapTypes
<1>1. ASSUME NEW k \in Keys, M!Set(u, k) \/ M!Delete(u, k) PROVE MapInv'
  <2>1. PICK keys \in {present \union {k}, present \ {k}} : M!Becomes(keys)
    BY <1>1 DEF M!Set, M!Delete
  <2>2. keys \in SUBSET Keys
    BY MapTypes
  <2>3. mapCalls' \in [Users -> 0..MaxCalls]
    <3>1. mapCalls[u] < MaxCalls /\ mapCalls' = [mapCalls EXCEPT ![u] = mapCalls[u] + 1]
      BY <1>1 DEF M!Set, M!Delete
    <3>2. mapCalls \in [Users -> 0..MaxCalls] /\ MaxCalls \in Nat
      BY MapTypes
    <3> QED
      BY <3>1, <3>2
  <2>4. UNCHANGED <<op, at, total, owner>>
    BY <1>1 DEF M!Set, M!Delete
  <2> QED
    BY <2>1, <2>2, <2>3, <2>4, BecomesKeeps
<1>2. ASSUME NEW k \in Keys, M!CallbackDeletes(u, k) PROVE MapInv'
  <2>1. M!Becomes(present \ {k}) /\ present \ {k} \in SUBSET Keys /\ UNCHANGED <<op, at, total, owner>>
        /\ mapCalls' \in [Users -> 0..MaxCalls]
    BY <1>2, MapTypes DEF M!CallbackDeletes
  <2> QED
    BY <2>1, BecomesKeeps
<1>3. CASE \E place \in {"size", "clear", "locking"} : M!Begin(u, place)
  BY <1>3, BeginKeeps
<1>4. CASE M!CallbackFails(u)
  BY <1>0, <1>4, MapTypes, OutsideKeeps DEF M!CallbackFails
<1>5. CASE M!Proceeds(u)
  <2>1. CASE M!SizeOfNext(u)
    BY <2>1, SizeKeeps
  <2>2. CASE M!ClearNext(u)
    BY <2>2, ClearKeeps
  <2>3. CASE M!Return(u)
    BY <2>3, ReturnKeeps
  <2>4. CASE M!LockNext(u)
    <3>1. /\ op[u] = "locking" /\ at[u] \in 1..ShardsCount /\ at[u] + 1 \in 1..(ShardsCount + 1)
          /\ M!Goes(u, "locking", at[u] + 1)
          /\ UNCHANGED <<present, total, mapCalls, always, ever>>
      BY <2>4, MapTypes DEF M!LockNext
    <3>2. owner' \in [1..ShardsCount -> Users \union {None}]
      BY <2>4, MapTypes DEF M!LockNext, M!LockOrder
    <3> QED
      BY <3>1, <3>2, OutsideKeeps
  <2>5. CASE M!Enter(u)
    BY <1>0, <2>5, MapTypes, OutsideKeeps DEF M!Enter
  <2>6. CASE M!Leave(u)
    BY <1>0, <2>6, MapTypes, OutsideKeeps DEF M!Leave
  <2>7. CASE M!UnlockNext(u)
    <3>1. /\ op[u] = "unlocking"
          /\ UNCHANGED <<present, total, mapCalls, always, ever>>
      BY <2>7 DEF M!UnlockNext
    <3>2. owner' \in [1..ShardsCount -> Users \union {None}]
      BY <2>7, MapTypes DEF M!UnlockNext
    <3>3. CASE at[u] < ShardsCount
      <4>1. M!Goes(u, "unlocking", at[u] + 1) /\ at[u] + 1 \in 1..(ShardsCount + 1)
        BY <2>7, <3>3, MapTypes DEF M!UnlockNext
      <4> QED
        BY <3>1, <3>2, <4>1, OutsideKeeps
    <3>4. CASE ~(at[u] < ShardsCount)
      <4>1. M!Goes(u, "none", 1)
        BY <2>7, <3>4 DEF M!UnlockNext
      <4> QED
        BY <1>0, <3>1, <3>2, <4>1, OutsideKeeps
    <3> QED
      BY <3>3, <3>4
  <2> QED
    BY <1>5, <2>1, <2>2, <2>3, <2>4, <2>5, <2>6, <2>7 DEF M!Proceeds
<1> QED
  BY <1>1, <1>2, <1>3, <1>4, <1>5
\* At the end all shards are passed.
LEMMA AllPassed ==
  ASSUME NEW S \in SUBSET Keys, NEW i \in Nat, i > ShardsCount
  PROVE  Passed(S, i) = S
<1>1. \A k \in Keys : ShardOf[k] < i
  BY MapAssumption DEF M!ConstantsFit
<1> QED
  BY <1>1 DEF Passed

\* What Size returns lies between the keys that were there during all of the call
\* and those there at some time, and Clear leaves none of the former: the loops go
\* over the shards one by one while others set and delete keys.
THEOREM MapIsSafe == Spec => []MapSafe
<1>1. Init => MapInv
  <2> SUFFICES ASSUME M!Init PROVE MapInv
    BY DEF Init
  <2>1. /\ ShardsCount \in Nat \ {0} /\ MaxCalls \in Nat /\ IsFiniteSet(Keys)
        /\ M!Cardinality(Keys) \in Nat
    BY MapAssumption, FiniteInMap, FS_CardinalityType DEF M!ConstantsFit
  <2> QED
    BY <2>1 DEF M!Init, M!Shards, M!TypeOK, MapInv, HistoryInv, LoopInv, CountInv, ClearInv
<1>2. MapInv /\ [Next]_vars => MapInv'
  <2> SUFFICES ASSUME MapInv, [Next]_vars PROVE MapInv'
    OBVIOUS
  <2>1. M!Next \/ UNCHANGED mapVars
    BY DEF Next, BroadcastRuns, SuckerRuns, MetricsRun, MapRuns, vars
  <2>2. CASE UNCHANGED mapVars
    BY <2>2 DEF mapVars, MapInv, M!TypeOK, HistoryInv, LoopInv, CountInv, ClearInv
  <2> QED
    BY <2>1, <2>2, MapNextKeeps
<1>3. MapInv => MapSafe
  <2> SUFFICES ASSUME MapInv PROVE M!SizeIsBetween /\ M!ClearedIsGone
    BY DEF MapInv, MapSafe
  <2>1. ASSUME NEW u \in Users, at[u] > ShardsCount
        PROVE  Passed(always[u], at[u]) = always[u] /\ Passed(ever[u], at[u]) = ever[u]
    BY <2>1, MapTypes, AllPassed
  <2>2. M!ClearedIsGone
    BY <2>1 DEF MapInv, ClearInv, M!ClearedIsGone, M!LastShard
  <2>3. ASSUME NEW u \in Users, op[u] = "size", at[u] > ShardsCount
        PROVE  total[u] \in M!Cardinality(always[u])..M!Cardinality(ever[u])
    <3>1. /\ always[u] \in SUBSET Keys /\ ever[u] \in SUBSET Keys /\ at[u] \in Nat
          /\ total[u] \in Nat
      BY MapTypes
    <3>2. /\ Cardinality(always[u]) <= total[u] /\ total[u] <= Cardinality(ever[u])
      BY <2>1, <2>3 DEF MapInv, CountInv
    <3>3. Cardinality(always[u]) \in Nat /\ Cardinality(ever[u]) \in Nat
      BY <2>1, <2>3, <3>1, PassedGrows
    <3> QED
      BY <3>1, <3>2, <3>3, FiniteInMap
  <2> QED
    BY <2>2, <2>3 DEF M!SizeIsBetween, M!LastShard
<1> QED
  BY <1>1, <1>2, <1>3, PTL DEF Spec
-----------------------------------------------------------------------------
(* WebsocketSucker: streams one after the other, the lock, and the messages. *)

\* What the users have been given, per stream.
Hands == [s \in W!Streams |-> W!Handed(s)]

\* One stream runs at a time, the latest; the earlier ones are closed.
StreamsInv ==
    /\ streaming <=> started # 0 /\ loop[started] # "closed"
    /\ \A s \in W!Streams : s < started => loop[s] = "closed"
    /\ \A s \in W!Streams : s <= started => loop[s] # "off"
    /\ \A s \in W!Streams : s > started =>
          loop[s] = "off" /\ reader[s] = "none" /\ newsChan[s] = <<>> /\ received[s] = <<>>

\* A loop that has no reader is about to spawn one, or sends; a message is in hand
\* where a reader hands it over or a loop sends it; one reader has the lock.
HoldInv ==
    /\ \A s \in W!Streams : loop[s] \in {"spawning", "sending"} => reader[s] = "none"
    /\ \A s \in W!Streams : message[s] # 0 <=> reader[s] = "handing" \/ loop[s] = "sending"
    /\ \A s, t \in W!Streams : W!ReaderHolds(s) /\ W!ReaderHolds(t) => s = t

\* The loops send what is news, and nothing else is handed on.
NewsInv ==
    /\ \A s \in W!Streams : loop[s] = "sending" => message[s] \in News
    /\ Hands \in [W!Streams -> Seq(News)]

\* The messages are in the order of the server: first what was handed on, then
\* what a loop sends, what a reader has, and what is on the connection.
OrderInv ==
    /\ \A s, t \in W!Streams : \A i \in DOMAIN Hands[s], j \in DOMAIN Hands[t] :
          (s < t \/ (s = t /\ i < j)) => Hands[s][i] < Hands[t][j]
    /\ \A s, t \in W!Streams : \A i \in DOMAIN Hands[s] :
          message[t] # 0 => Hands[s][i] < message[t]
    /\ \A s, t \in W!Streams :
          loop[s] = "sending" /\ reader[t] = "handing" => message[s] < message[t]

InboxInv ==
    /\ \A i, j \in DOMAIN inbox : i < j => inbox[i] < inbox[j]
    /\ \A i \in DOMAIN inbox, s \in W!Streams : message[s] < inbox[i]
    /\ \A i \in DOMAIN inbox, s \in W!Streams : \A j \in DOMAIN Hands[s] : Hands[s][j] < inbox[i]

LostInv ==
    /\ \A i \in DOMAIN inbox : inbox[i] \notin lost
    /\ \A s \in W!Streams : message[s] \notin lost
    /\ \A s \in W!Streams : \A i \in DOMAIN Hands[s] : Hands[s][i] \notin lost

\* No news is anywhere else.
KeptInv == \A m \in News : m <= produced =>
    \/ \E s \in W!Streams : \E i \in DOMAIN Hands[s] : Hands[s][i] = m
    \/ \E s \in W!Streams : message[s] = m
    \/ m \in lost
    \/ \E i \in DOMAIN inbox : inbox[i] = m

SuckerInv == /\ W!TypeOK /\ StreamsInv /\ HoldInv /\ NewsInv /\ OrderInv /\ InboxInv
             /\ LostInv /\ KeptInv
\* What the sucker's variables are.
LEMMA SuckerTypes ==
  ASSUME SuckerInv
  PROVE  /\ MaxStreams \in Nat /\ started \in 0..MaxStreams
         /\ loop \in [W!Streams -> {"off", "spawning", "select", "sending", "waiting", "closed"}]
         /\ reader \in [W!Streams -> {"none", "locking", "reading", "reconnecting", "handing"}]
         /\ message \in [W!Streams -> 0..produced]
         /\ newsChan \in [W!Streams -> Seq(1..produced)]
         /\ received \in [W!Streams -> Seq(1..produced)]
         /\ inbox \in Seq(1..produced) /\ lost \subseteq 1..produced
         /\ produced \in Nat /\ News \subseteq 1..MaxMessages /\ MaxMessages \in Nat
         /\ \A s \in W!Streams : s \in Nat \ {0}
BY SuckerAssumption DEF W!ConstantsFit, SuckerInv, W!TypeOK, W!Streams

\* What is not a step of the messages leaves their invariants.
LEMMA MessagesStay ==
  ASSUME NewsInv, OrderInv, InboxInv, LostInv, KeptInv,
         UNCHANGED <<message, newsChan, received, inbox, produced, lost>>,
         \A s \in W!Streams : loop'[s] = "sending" <=> loop[s] = "sending",
         \A s \in W!Streams : reader'[s] = "handing" <=> reader[s] = "handing"
  PROVE  NewsInv' /\ OrderInv' /\ InboxInv' /\ LostInv' /\ KeptInv'
<1>1. Hands' = Hands
  BY DEF Hands, W!Handed
<1> QED
  BY <1>1 DEF NewsInv, OrderInv, InboxInv, LostInv, KeptInv

\* A stream begins: the earlier ones are closed.
LEMMA StreamNewsKeeps == ASSUME SuckerInv, W!StreamNews PROVE SuckerInv'
<1>1. started + 1 \in W!Streams /\ started \in Nat
  BY SuckerTypes DEF W!StreamNews, W!Streams
<1>2. /\ started' = started + 1 /\ streaming' = TRUE
      /\ loop'[started + 1] = "spawning"
      /\ \A s \in W!Streams : s # started + 1 => loop'[s] = loop[s]
      /\ UNCHANGED <<reader, message, newsChan, received>>
  BY <1>1, SuckerTypes DEF W!StreamNews
<1>3. \A s \in W!Streams : s <= started => loop[s] = "closed"
  BY SuckerTypes DEF SuckerInv, W!StreamNews, StreamsInv
<1>4. /\ loop[started + 1] = "off" /\ reader[started + 1] = "none"
      /\ newsChan[started + 1] = <<>> /\ received[started + 1] = <<>>
  BY <1>1 DEF SuckerInv, StreamsInv
<1>5. W!TypeOK'
  BY <1>1, SuckerTypes DEF SuckerInv, W!TypeOK, W!StreamNews
<1>6. StreamsInv'
  <2>1. /\ streaming' <=> started' # 0 /\ loop'[started'] # "closed"
    BY <1>1, <1>2
  <2>2. \A s \in W!Streams : (s < started' => s # started + 1 /\ s <= started)
                          /\ (s <= started' => s = started + 1 \/ s <= started)
                          /\ (s > started' => s # started + 1 /\ s > started)
    BY <1>1, <1>2, SuckerTypes
  <2>3. \A s \in W!Streams : s < started' => loop'[s] = "closed"
    BY <1>2, <1>3, <2>2
  <2>4. \A s \in W!Streams : s <= started' => loop'[s] # "off"
    BY <1>2, <1>3, <2>2
  <2>5. \A s \in W!Streams : s > started' =>
          loop'[s] = "off" /\ reader'[s] = "none" /\ newsChan'[s] = <<>> /\ received'[s] = <<>>
    BY <1>2, <2>2 DEF SuckerInv, StreamsInv
  <2> QED
    BY <2>1, <2>3, <2>4, <2>5 DEF StreamsInv
<1>7. HoldInv'
  BY <1>1, <1>2, <1>4 DEF SuckerInv, HoldInv, W!ReaderHolds
<1>8. /\ \A s \in W!Streams : loop'[s] = "sending" <=> loop[s] = "sending"
      /\ \A s \in W!Streams : reader'[s] = "handing" <=> reader[s] = "handing"
  BY <1>2, <1>4
<1> QED
  BY <1>5, <1>6, <1>7, <1>8, MessagesStay DEF SuckerInv, W!StreamNews

\* The loop's steps that leave the messages alone.
LEMMA LoopKeeps ==
  ASSUME SuckerInv, NEW s \in W!Streams, W!SpawnReader(s) \/ W!LoopEnds(s) \/ W!StreamEnds(s)
  PROVE  SuckerInv'
<1>1. PICK to \in {"select", "waiting", "closed"} :
         /\ loop' = [loop EXCEPT ![s] = to]
         /\ to = "closed" <=> W!StreamEnds(s)
  BY SuckerTypes DEF W!SpawnReader, W!LoopEnds, W!StreamEnds
<1>2. /\ loop[s] \in {"spawning", "select", "waiting"}
      /\ UNCHANGED <<started, message, newsChan, received, inbox, produced, lost>>
      /\ to = "closed" => ~streaming'
      /\ to # "closed" => streaming' = streaming
  BY <1>1 DEF W!SpawnReader, W!LoopEnds, W!StreamEnds
<1>3. loop'[s] = to /\ \A t \in W!Streams : t # s => loop'[t] = loop[t]
  BY <1>1, SuckerTypes
<1>4. /\ \A t \in W!Streams : t # s => reader'[t] = reader[t]
      /\ reader[s] = "handing" <=> reader'[s] = "handing"
      /\ reader'[s] \in {reader[s], "locking"}
  BY SuckerTypes DEF W!SpawnReader, W!LoopEnds, W!StreamEnds, SuckerInv, HoldInv
<1>5. W!TypeOK'
  BY DEF SuckerInv, W!TypeOK, W!SpawnReader, W!LoopEnds, W!StreamEnds
<1>6. StreamsInv'
  <2>1. s = started
    <3>1. ~(s < started) /\ ~(s > started)
      BY <1>2 DEF SuckerInv, StreamsInv
    <3> QED
      BY <3>1, SuckerTypes
  <2>2. streaming
    BY <1>2, <2>1, SuckerTypes DEF SuckerInv, StreamsInv
  <2> QED
    BY <1>2, <1>3, <1>4, <2>1, <2>2, SuckerTypes DEF SuckerInv, StreamsInv
<1>7. HoldInv'
  BY <1>2, <1>3, <1>4 DEF SuckerInv, HoldInv, W!ReaderHolds
<1>8. /\ \A t \in W!Streams : loop'[t] = "sending" <=> loop[t] = "sending"
      /\ \A t \in W!Streams : reader'[t] = "handing" <=> reader[t] = "handing"
  BY <1>2, <1>3, <1>4
<1> QED
  BY <1>2, <1>5, <1>6, <1>7, <1>8, MessagesStay DEF SuckerInv

\* A reader gets the lock, or fails to read.
LEMMA ReaderKeeps ==
  ASSUME SuckerInv, NEW s \in W!Streams, W!ReaderLocks(s) \/ W!ReadFails(s)
  PROVE  SuckerInv'
<1>1. /\ reader[s] \in {"locking", "reading"} /\ reader'[s] \in {"reading", "reconnecting"}
      /\ \A t \in W!Streams : t # s => reader'[t] = reader[t]
      /\ reader[s] = "locking" => \A t \in W!Streams : ~W!ReaderHolds(t)
      /\ UNCHANGED <<started, streaming, loop, message, newsChan, received, inbox, produced, lost>>
  BY SuckerTypes DEF W!ReaderLocks, W!ReadFails, W!Unlocked
<1>2. W!TypeOK'
  BY DEF SuckerInv, W!TypeOK, W!ReaderLocks, W!ReadFails
<1>3. s <= started
  BY <1>1, SuckerTypes DEF SuckerInv, StreamsInv
<1>4. StreamsInv'
  BY <1>1, <1>3, SuckerTypes DEF SuckerInv, StreamsInv
<1>5. HoldInv'
  <2>1. loop[s] \notin {"spawning", "sending"}
    BY <1>1 DEF SuckerInv, HoldInv
  <2>2. \A t, v \in W!Streams : W!ReaderHolds(t)' /\ W!ReaderHolds(v)' => t = v
    BY <1>1 DEF SuckerInv, HoldInv, W!ReaderHolds
  <2> QED
    BY <1>1, <2>1, <2>2 DEF SuckerInv, HoldInv
<1>6. /\ \A t \in W!Streams : loop'[t] = "sending" <=> loop[t] = "sending"
      /\ \A t \in W!Streams : reader'[t] = "handing" <=> reader[t] = "handing"
  BY <1>1
<1> QED
  BY <1>1, <1>2, <1>4, <1>5, <1>6, MessagesStay DEF SuckerInv

\* The pinger, the user who cancels, and a connection that breaks.
LEMMA OthersKeep ==
  ASSUME SuckerInv,
         \/ W!ConnectionBreaks
         \/ \E s \in W!Streams :
               \/ W!Cancel(s) \/ W!Ticks(s) \/ W!PingerLocks(s) \/ W!Pings(s) \/ W!PingFails(s)
               \/ W!PingerEnds(s)
  PROVE  SuckerInv'
<1>1. UNCHANGED <<streaming, started, loop, reader, message, newsChan, inbox, produced, received,
                  lost>>
  BY DEF W!ConnectionBreaks, W!streamVars, W!Cancel, W!Ticks, W!PingerLocks, W!Pings, W!PingFails,
         W!PingerEnds, W!PingerMoves
<1>2. /\ conn' \in {"up", "down"} /\ ctxDone' \in [W!Streams -> BOOLEAN]
      /\ pinger' \in [W!Streams -> {"off", "select", "locking", "pinging", "reconnecting", "done"}]
  BY DEF W!ConnectionBreaks, W!streamVars, W!Cancel, W!Ticks, W!PingerLocks, W!Pings, W!PingFails,
         W!PingerEnds, W!PingerMoves, SuckerInv, W!TypeOK
<1>3. W!TypeOK'
  BY <1>1, <1>2 DEF SuckerInv, W!TypeOK
<1>4. StreamsInv' /\ HoldInv'
  BY <1>1 DEF SuckerInv, StreamsInv, HoldInv, W!ReaderHolds
<1> QED
  BY <1>1, <1>3, <1>4, MessagesStay DEF SuckerInv
\* What the users have been given is news, at most the latest message.
LEMMA HandsTypes ==
  ASSUME SuckerInv
  PROVE  /\ Hands \in [W!Streams -> Seq(News)]
         /\ \A s \in W!Streams : \A i \in DOMAIN Hands[s] :
               Hands[s][i] \in News /\ Hands[s][i] \in 1..produced
         /\ \A s \in W!Streams : Hands[s] = received[s] \o newsChan[s]
         /\ \A s \in W!Streams : received[s] \o newsChan[s] \in Seq(1..produced)
<1>1. \A s \in W!Streams : Hands[s] = received[s] \o newsChan[s]
  BY DEF Hands, W!Handed
<1>2. Hands \in [W!Streams -> Seq(News)]
  BY DEF SuckerInv, NewsInv
<1>3. ASSUME NEW s \in W!Streams PROVE received[s] \o newsChan[s] \in Seq(1..produced)
  BY SuckerTypes, ConcatProperties
<1>4. ASSUME NEW s \in W!Streams, NEW i \in DOMAIN Hands[s]
      PROVE  Hands[s][i] \in News /\ Hands[s][i] \in 1..produced
  <2>1. Hands[s] \in Seq(News) /\ Hands[s] \in Seq(1..produced)
    BY <1>1, <1>2, <1>3
  <2>2. i \in 1..Len(Hands[s])
    BY <2>1, LenProperties
  <2>3. Hands[s][i] \in News
    BY <2>1, <2>2, ElementOfSeq
  <2>4. Hands[s][i] \in 1..produced
    BY <2>1, <2>2, ElementOfSeq
  <2> QED
    BY <2>3, <2>4
<1> QED
  BY <1>1, <1>2, <1>3, <1>4

\* The user takes a message: nothing moves in what was handed on.
LEMMA TakeNewsKeeps ==
  ASSUME SuckerInv, NEW s \in W!Streams, W!TakeNews(s)
  PROVE  SuckerInv'
<1>1. /\ newsChan[s] # <<>>
      /\ received' = [received EXCEPT ![s] = Append(received[s], Head(newsChan[s]))]
      /\ newsChan' = [newsChan EXCEPT ![s] = Tail(newsChan[s])]
      /\ UNCHANGED <<streaming, started, ctxDone, loop, reader, pinger, message, conn, inbox,
                     produced, lost>>
  BY DEF W!TakeNews
<1>2. received[s] \in Seq(1..produced) /\ newsChan[s] \in Seq(1..produced)
  BY SuckerTypes
<1>3. /\ Append(received[s], Head(newsChan[s])) \o Tail(newsChan[s]) = received[s] \o newsChan[s]
      /\ Head(newsChan[s]) \in 1..produced /\ Tail(newsChan[s]) \in Seq(1..produced)
      /\ Len(Tail(newsChan[s])) = Len(newsChan[s]) - 1
  BY <1>1, <1>2, ReceiveFirst
<1>4. Append(received[s], Head(newsChan[s])) \in Seq(1..produced)
  BY <1>2, <1>3, AppendProperties
<1>5. /\ received'[s] = Append(received[s], Head(newsChan[s])) /\ newsChan'[s] = Tail(newsChan[s])
      /\ \A t \in W!Streams : t # s => received'[t] = received[t] /\ newsChan'[t] = newsChan[t]
  BY <1>1, SuckerTypes
<1>6. Hands' = Hands
  <2>1. \A t \in W!Streams : received'[t] \o newsChan'[t] = received[t] \o newsChan[t]
    BY <1>3, <1>5
  <2> QED
    BY <2>1 DEF Hands, W!Handed
<1>7. W!TypeOK'
  <2>1. received' \in [W!Streams -> Seq(1..produced)] /\ newsChan' \in [W!Streams -> Seq(1..produced)]
    BY <1>1, <1>3, <1>4, SuckerTypes
  <2>2. \A t \in W!Streams : Len(newsChan'[t]) <= NewsChanSize
    <3>1. \A t \in W!Streams : Len(newsChan[t]) <= NewsChanSize
      BY DEF SuckerInv, W!TypeOK
    <3>2. Len(newsChan[s]) \in Nat /\ NewsChanSize \in Nat
      BY <1>2, LenProperties, SuckerAssumption DEF W!ConstantsFit
    <3>3. Len(newsChan[s]) - 1 <= NewsChanSize
      BY <3>1, <3>2
    <3> QED
      BY <1>3, <1>5, <3>1, <3>3
  <2> QED
    BY <1>1, <2>1, <2>2 DEF SuckerInv, W!TypeOK
<1>8. StreamsInv'
  <2>1. s <= started
    BY <1>1, SuckerTypes DEF SuckerInv, StreamsInv
  <2> QED
    BY <1>1, <1>5, <2>1, SuckerTypes DEF SuckerInv, StreamsInv
<1>9. HoldInv'
  BY <1>1 DEF SuckerInv, HoldInv, W!ReaderHolds
<1>10. NewsInv' /\ OrderInv' /\ InboxInv' /\ LostInv' /\ KeptInv'
  BY <1>1, <1>6 DEF SuckerInv, NewsInv, OrderInv, InboxInv, LostInv, KeptInv
<1> QED
  BY <1>7, <1>8, <1>9, <1>10 DEF SuckerInv

\* A new connection: what was on the old one is lost.
LEMMA ConnectsKeeps ==
  ASSUME SuckerInv, NEW s \in W!Streams, W!ReaderConnects(s) \/ W!PingerConnects(s)
  PROVE  SuckerInv'
<1>0. \A t \in W!Streams : \/ reader'[t] = reader[t]
                           \/ reader[t] = "reconnecting" /\ reader'[t] = "reading"
  <2>1. CASE W!ReaderConnects(s)
    <3>1. reader[s] = "reconnecting" /\ reader' = [reader EXCEPT ![s] = "reading"]
      BY <2>1 DEF W!ReaderConnects
    <3> QED
      BY <3>1, SuckerTypes
  <2>2. CASE W!PingerConnects(s)
    BY <2>2 DEF W!PingerConnects
  <2> QED
    BY <2>1, <2>2
<1>1. /\ conn' = "up" /\ inbox' = <<>> /\ lost' = lost \union {inbox[i] : i \in DOMAIN inbox}
      /\ UNCHANGED <<streaming, started, ctxDone, loop, message, newsChan, produced, received>>
  BY DEF W!ReaderConnects, W!PingerConnects, W!NewConnection, W!ToSet
<1>2. /\ reader' \in [W!Streams -> {"none", "locking", "reading", "reconnecting", "handing"}]
      /\ pinger' \in [W!Streams -> {"off", "select", "locking", "pinging", "reconnecting", "done"}]
  BY SuckerTypes DEF W!ReaderConnects, W!PingerConnects, SuckerInv, W!TypeOK
<1>3. \A i \in DOMAIN inbox : inbox[i] \in 1..produced
  BY SuckerTypes, LenProperties, ElementOfSeq
<1>4. W!TypeOK'
  <2>1. lost' \subseteq 1..produced
    BY <1>1, <1>3, SuckerTypes
  <2>2. inbox' \in Seq(1..produced)
    BY <1>1, EmptySeq
  <2> QED
    BY <1>1, <1>2, <2>1, <2>2 DEF SuckerInv, W!TypeOK
<1>5. StreamsInv' /\ HoldInv'
  <2>1. StreamsInv'
    BY <1>0, <1>1 DEF SuckerInv, StreamsInv
  <2>2. HoldInv'
    BY <1>0, <1>1 DEF SuckerInv, HoldInv, W!ReaderHolds
  <2> QED
    BY <2>1, <2>2
<1>6. Hands' = Hands
  BY <1>1 DEF Hands, W!Handed
<1>7. DOMAIN inbox' = {}
  BY <1>1
<1>8. NewsInv' /\ OrderInv' /\ InboxInv'
  <2>1. NewsInv' /\ OrderInv'
    BY <1>0, <1>1, <1>6 DEF SuckerInv, NewsInv, OrderInv
  <2>2. InboxInv'
    BY <1>7 DEF InboxInv
  <2> QED
    BY <2>1, <2>2
<1>9. LostInv'
  <2>1. \A i \in DOMAIN inbox, t \in W!Streams : message[t] # inbox[i]
    BY <1>3, SuckerTypes DEF SuckerInv, InboxInv
  <2>2. \A i \in DOMAIN inbox, t \in W!Streams : \A j \in DOMAIN Hands[t] : Hands[t][j] # inbox[i]
    BY <1>3, HandsTypes DEF SuckerInv, InboxInv
  <2> QED
    BY <1>1, <1>6, <1>7, <2>1, <2>2 DEF SuckerInv, LostInv
<1>10. KeptInv'
  BY <1>1, <1>6 DEF SuckerInv, KeptInv
<1> QED
  BY <1>4, <1>5, <1>8, <1>9, <1>10 DEF SuckerInv
\* Like SuckerInv, of the numbers on the connection.
LEMMA InboxTypes ==
  ASSUME SuckerInv
  PROVE  /\ Len(inbox) \in Nat /\ DOMAIN inbox = 1..Len(inbox)
         /\ \A i \in DOMAIN inbox : inbox[i] \in 1..produced
BY SuckerTypes, LenProperties, ElementOfSeq

\* The reader reads the first message on the connection.
LEMMA ReadsKeeps ==
  ASSUME SuckerInv, NEW s \in W!Streams, W!Reads(s)
  PROVE  SuckerInv'
<1> DEFINE m == inbox[1]
<1>1. /\ reader[s] = "reading" /\ inbox # <<>>
      /\ message' = [message EXCEPT ![s] = Head(inbox)] /\ inbox' = Tail(inbox)
      /\ reader' = [reader EXCEPT ![s] = "handing"]
      /\ UNCHANGED <<streaming, started, ctxDone, loop, pinger, newsChan, conn, produced,
                     received, lost>>
  BY DEF W!Reads
<1>2. /\ Len(inbox) \in Nat \ {0} /\ 1 \in DOMAIN inbox
      /\ m \in 1..produced /\ message' = [message EXCEPT ![s] = m]
  BY <1>1, InboxTypes, SuckerTypes, EmptySeq
<1>3. /\ inbox' \in Seq(1..produced)
      /\ DOMAIN inbox' = 1..(Len(inbox) - 1)
      /\ \A i \in DOMAIN inbox' : inbox'[i] = inbox[i + 1]
      /\ \A i \in DOMAIN inbox' : i + 1 \in DOMAIN inbox /\ 1 < i + 1
      /\ \A i \in DOMAIN inbox : i = 1 \/ (i - 1 \in DOMAIN inbox' /\ (i - 1) + 1 = i)
  <2>1. /\ Tail(inbox) \in Seq(1..produced)
        /\ Len(Tail(inbox)) = Len(inbox) - 1
        /\ \A i \in 1..(Len(inbox) - 1) : Tail(inbox)[i] = inbox[i + 1]
    BY <1>1, SuckerTypes, HeadTailProperties
  <2>2. DOMAIN inbox' = 1..(Len(inbox) - 1)
    BY <1>1, <2>1, LenProperties
  <2> QED
    BY <1>1, <1>2, <2>1, <2>2, InboxTypes
<1>4. /\ message'[s] = m /\ reader'[s] = "handing"
      /\ \A t \in W!Streams : t # s => message'[t] = message[t] /\ reader'[t] = reader[t]
  BY <1>1, <1>2, SuckerTypes
<1>5. /\ \A t \in W!Streams : t # s => reader[t] # "handing"
      /\ message[s] = 0 /\ loop[s] \notin {"spawning", "sending"}
  BY <1>1, SuckerTypes DEF SuckerInv, HoldInv, W!ReaderHolds
<1>6. \A i \in DOMAIN inbox' : m < inbox'[i]
  BY <1>2, <1>3 DEF SuckerInv, InboxInv
<1>7. /\ \A t \in W!Streams : message[t] < m
      /\ \A t \in W!Streams : \A i \in DOMAIN Hands[t] : Hands[t][i] < m
      /\ m \notin lost
  BY <1>2 DEF SuckerInv, InboxInv, LostInv
<1>8. Hands' = Hands
  BY <1>1 DEF Hands, W!Handed
<1> HIDE DEF m
<1>9. W!TypeOK'
  <2>1. message' \in [W!Streams -> 0..produced]
    BY <1>2, SuckerTypes
  <2>2. reader' \in [W!Streams -> {"none", "locking", "reading", "reconnecting", "handing"}]
    BY <1>1, SuckerTypes
  <2> QED
    BY <1>1, <1>3, <2>1, <2>2 DEF SuckerInv, W!TypeOK
<1>10. StreamsInv'
  <2>1. ~(s > started)
    BY <1>1 DEF SuckerInv, StreamsInv
  <2> QED
    BY <1>1, <1>4, <2>1 DEF SuckerInv, StreamsInv
<1>11. HoldInv'
  <2>1. \A t \in W!Streams : loop'[t] \in {"spawning", "sending"} => reader'[t] = "none"
    BY <1>1, <1>4, <1>5 DEF SuckerInv, HoldInv
  <2>2. \A t \in W!Streams : message'[t] # 0 <=> reader'[t] = "handing" \/ loop'[t] = "sending"
    BY <1>1, <1>2, <1>4 DEF SuckerInv, HoldInv
  <2>3. \A t, v \in W!Streams : W!ReaderHolds(t)' /\ W!ReaderHolds(v)' => t = v
    BY <1>1, <1>4 DEF SuckerInv, HoldInv, W!ReaderHolds
  <2> QED
    BY <2>1, <2>2, <2>3 DEF HoldInv
<1>12. NewsInv'
  BY <1>1, <1>4, <1>5, <1>8 DEF SuckerInv, NewsInv
<1>13. OrderInv'
  <2>1. \A t, v \in W!Streams : \A i \in DOMAIN Hands[t] :
          message'[v] # 0 => Hands[t][i] < message'[v]
    BY <1>4, <1>7 DEF SuckerInv, OrderInv
  <2>2. \A t, v \in W!Streams :
          loop[t] = "sending" /\ reader'[v] = "handing" => message'[t] < message'[v]
    BY <1>4, <1>5, <1>7
  <2> QED
    BY <1>1, <1>8, <2>1, <2>2 DEF SuckerInv, OrderInv
<1>14. InboxInv'
  <2>1. \A i, j \in DOMAIN inbox' : i < j => inbox'[i] < inbox'[j]
    <3> SUFFICES ASSUME NEW i \in DOMAIN inbox', NEW j \in DOMAIN inbox', i < j
                 PROVE  inbox'[i] < inbox'[j]
      OBVIOUS
    <3>1. i + 1 \in DOMAIN inbox /\ j + 1 \in DOMAIN inbox /\ i + 1 < j + 1
      BY <1>3
    <3> QED
      BY <1>3, <3>1 DEF SuckerInv, InboxInv
  <2>2. \A i \in DOMAIN inbox', t \in W!Streams : message'[t] < inbox'[i]
    BY <1>3, <1>4, <1>6 DEF SuckerInv, InboxInv
  <2>3. \A i \in DOMAIN inbox', t \in W!Streams : \A j \in DOMAIN Hands[t] : Hands[t][j] < inbox'[i]
    BY <1>3 DEF SuckerInv, InboxInv
  <2> QED
    BY <1>8, <2>1, <2>2, <2>3 DEF InboxInv
<1>15. LostInv'
  <2>1. \A i \in DOMAIN inbox' : inbox'[i] \notin lost
    BY <1>3 DEF SuckerInv, LostInv
  <2>2. \A t \in W!Streams : message'[t] \notin lost
    BY <1>4, <1>7 DEF SuckerInv, LostInv
  <2> QED
    BY <1>1, <1>8, <2>1, <2>2 DEF SuckerInv, LostInv
<1>16. KeptInv'
  <2> SUFFICES ASSUME NEW n \in News, n <= produced
               PROVE  \/ \E t \in W!Streams : \E i \in DOMAIN Hands[t] : Hands[t][i] = n
                      \/ \E t \in W!Streams : message'[t] = n
                      \/ n \in lost
                      \/ \E i \in DOMAIN inbox' : inbox'[i] = n
    BY <1>1, <1>8 DEF KeptInv
  <2>1. \/ \E t \in W!Streams : \E i \in DOMAIN Hands[t] : Hands[t][i] = n
        \/ \E t \in W!Streams : message[t] = n
        \/ n \in lost
        \/ \E i \in DOMAIN inbox : inbox[i] = n
    BY DEF SuckerInv, KeptInv
  <2>2. n # 0
    BY SuckerTypes
  <2>3. ASSUME NEW t \in W!Streams, message[t] = n PROVE message'[t] = n
    BY <1>4, <1>5, <2>2, <2>3
  <2>4. ASSUME NEW i \in DOMAIN inbox, inbox[i] = n
        PROVE  message'[s] = n \/ \E j \in DOMAIN inbox' : inbox'[j] = n
    BY <1>3, <1>4, <2>4 DEF m
  <2> QED
    BY <2>1, <2>3, <2>4
<1> QED
  BY <1>9, <1>10, <1>11, <1>12, <1>13, <1>14, <1>15, <1>16 DEF SuckerInv
\* The loop takes the message from its reader, and drops it unless it is news.
LEMMA HandOverKeeps ==
  ASSUME SuckerInv, NEW s \in W!Streams, W!HandOver(s)
  PROVE  SuckerInv'
<1>1. /\ reader[s] = "handing" /\ loop[s] = "select"
      /\ reader' = [reader EXCEPT ![s] = "none"]
      /\ UNCHANGED <<streaming, started, ctxDone, pinger, newsChan, conn, inbox, produced,
                     received, lost>>
  BY DEF W!HandOver
<1>2. /\ \A t \in W!Streams : t # s => reader'[t] = reader[t] /\ loop'[t] = loop[t]
                                       /\ message'[t] = message[t]
      /\ reader'[s] = "none"
      /\ \/ loop'[s] = "sending" /\ message'[s] = message[s] /\ message[s] \in News
         \/ loop'[s] = "spawning" /\ message'[s] = 0 /\ message[s] \notin News
  BY <1>1, SuckerTypes DEF W!HandOver, W!IsNews
<1>3. /\ loop' \in [W!Streams -> {"off", "spawning", "select", "sending", "waiting", "closed"}]
      /\ message' \in [W!Streams -> 0..produced]
  <2>1. CASE message[s] \in News
    <3>1. loop' = [loop EXCEPT ![s] = "sending"] /\ UNCHANGED message
      BY <2>1 DEF W!HandOver, W!IsNews
    <3> QED
      BY <1>1, <3>1, SuckerTypes
  <2>2. CASE message[s] \notin News
    <3>1. loop' = [loop EXCEPT ![s] = "spawning"] /\ message' = [message EXCEPT ![s] = 0]
      BY <2>2 DEF W!HandOver, W!IsNews
    <3> QED
      BY <1>1, <3>1, SuckerTypes
  <2> QED
    BY <2>1, <2>2
<1>4. reader' \in [W!Streams -> {"none", "locking", "reading", "reconnecting", "handing"}]
  BY <1>1, SuckerTypes
<1>5. W!TypeOK'
  BY <1>1, <1>3, <1>4 DEF SuckerInv, W!TypeOK
<1>6. Hands' = Hands
  BY <1>1 DEF Hands, W!Handed
<1>7. s = started
  <2>1. ~(s < started) /\ ~(s > started)
    BY <1>1 DEF SuckerInv, StreamsInv
  <2> QED
    BY <2>1, SuckerTypes
<1>8. StreamsInv'
  <2>1. streaming
    BY <1>1, <1>7, SuckerTypes DEF SuckerInv, StreamsInv
  <2> QED
    BY <1>1, <1>2, <1>7, <2>1, SuckerTypes DEF SuckerInv, StreamsInv
<1>9. message[s] # 0 /\ \A t \in W!Streams : t # s => reader[t] # "handing"
  BY <1>1 DEF SuckerInv, HoldInv, W!ReaderHolds
<1>10. HoldInv'
  <2>1. \A t, v \in W!Streams : W!ReaderHolds(t)' /\ W!ReaderHolds(v)' => t = v
    BY <1>2 DEF SuckerInv, HoldInv, W!ReaderHolds
  <2>2. \A t \in W!Streams : loop'[t] \in {"spawning", "sending"} => reader'[t] = "none"
    BY <1>2 DEF SuckerInv, HoldInv
  <2>3. \A t \in W!Streams : message'[t] # 0 <=> reader'[t] = "handing" \/ loop'[t] = "sending"
    BY <1>2, <1>9 DEF SuckerInv, HoldInv
  <2> QED
    BY <2>1, <2>2, <2>3 DEF HoldInv
<1>11. NewsInv'
  BY <1>2, <1>6 DEF SuckerInv, NewsInv
<1>12. \A t \in W!Streams : message'[t] = message[t] \/ message'[t] = 0
  BY <1>2
<1>13. OrderInv'
  BY <1>2, <1>6, <1>9, <1>12 DEF SuckerInv, OrderInv
<1>14. \A i \in DOMAIN inbox : inbox[i] > 0
  BY InboxTypes, SuckerTypes
<1>15. InboxInv'
  BY <1>1, <1>6, <1>12, <1>14 DEF SuckerInv, InboxInv
<1>16. LostInv'
  <2>1. 0 \notin lost
    BY SuckerTypes
  <2> QED
    BY <1>1, <1>6, <1>12, <2>1 DEF SuckerInv, LostInv
<1>17. KeptInv'
  <2>1. ASSUME NEW t \in W!Streams, message[t] \in News PROVE message'[t] = message[t]
    BY <1>2, <2>1
  <2> QED
    BY <1>1, <1>6, <2>1 DEF SuckerInv, KeptInv
<1> QED
  BY <1>5, <1>8, <1>10, <1>11, <1>13, <1>15, <1>16, <1>17 DEF SuckerInv

\* The loop sends the news it has to the user.
LEMMA SendNewsKeeps ==
  ASSUME SuckerInv, NEW s \in W!Streams, W!SendNews(s)
  PROVE  SuckerInv'
<1> DEFINE m == message[s]
           h == Hands[s]
<1>1. /\ loop[s] = "sending" /\ Len(newsChan[s]) < NewsChanSize
      /\ newsChan' = [newsChan EXCEPT ![s] = Append(newsChan[s], m)]
      /\ message' = [message EXCEPT ![s] = 0]
      /\ loop' = [loop EXCEPT ![s] = "spawning"]
      /\ UNCHANGED <<streaming, started, ctxDone, reader, pinger, conn, inbox, produced,
                     received, lost>>
  BY DEF W!SendNews
<1>2. /\ newsChan'[s] = Append(newsChan[s], m) /\ message'[s] = 0 /\ loop'[s] = "spawning"
      /\ \A t \in W!Streams : t # s => newsChan'[t] = newsChan[t] /\ message'[t] = message[t]
                                       /\ loop'[t] = loop[t]
  BY <1>1, SuckerTypes
<1>3. m \in 1..produced /\ m \in News /\ m # 0
  BY <1>1, SuckerTypes DEF SuckerInv, HoldInv, NewsInv
<1>4. received[s] \in Seq(1..produced) /\ newsChan[s] \in Seq(1..produced)
  BY SuckerTypes
<1>5. /\ Append(newsChan[s], m) \in Seq(1..produced)
      /\ Len(Append(newsChan[s], m)) = Len(newsChan[s]) + 1
  BY <1>3, <1>4, AppendProperties
<1>6. W!TypeOK'
  <2>1. /\ newsChan' \in [W!Streams -> Seq(1..produced)]
        /\ message' \in [W!Streams -> 0..produced]
        /\ loop' \in [W!Streams -> {"off", "spawning", "select", "sending", "waiting", "closed"}]
    BY <1>1, <1>5, SuckerTypes
  <2>2. \A t \in W!Streams : Len(newsChan'[t]) <= NewsChanSize
    <3>1. \A t \in W!Streams : Len(newsChan[t]) <= NewsChanSize
      BY DEF SuckerInv, W!TypeOK
    <3>2. Len(newsChan[s]) \in Nat /\ NewsChanSize \in Nat
      BY <1>4, LenProperties, SuckerAssumption DEF W!ConstantsFit
    <3>3. Len(newsChan[s]) + 1 <= NewsChanSize
      BY <1>1, <3>2
    <3> QED
      BY <1>2, <1>5, <3>1, <3>3
  <2> QED
    BY <1>1, <2>1, <2>2 DEF SuckerInv, W!TypeOK
<1>7. s = started
  <2>1. ~(s < started) /\ ~(s > started)
    BY <1>1 DEF SuckerInv, StreamsInv
  <2> QED
    BY <2>1, SuckerTypes
<1>8. StreamsInv'
  <2>1. streaming
    BY <1>1, <1>7, SuckerTypes DEF SuckerInv, StreamsInv
  <2> QED
    BY <1>1, <1>2, <1>7, <2>1, SuckerTypes DEF SuckerInv, StreamsInv
<1>9. reader[s] = "none"
  BY <1>1 DEF SuckerInv, HoldInv
<1>10. HoldInv'
  BY <1>1, <1>2, <1>9 DEF SuckerInv, HoldInv, W!ReaderHolds
<1>11. /\ Hands'[s] = Append(h, m)
       /\ \A t \in W!Streams : t # s => Hands'[t] = Hands[t]
       /\ DOMAIN Hands' = W!Streams
  <2>1. received[s] \o Append(newsChan[s], m) = Append(received[s] \o newsChan[s], m)
    <3> DEFINE Numbers == 1..produced
    <3>1. received[s] \in Seq(Numbers) /\ newsChan[s] \in Seq(Numbers) /\ m \in Numbers
      BY <1>3, <1>4
    <3> HIDE DEF m, Numbers
    <3>2. \A p, q \in Seq(Numbers) : \A x \in Numbers : p \o Append(q, x) = Append(p \o q, x)
      BY SendLast
    <3> QED
      BY <3>1, <3>2
  <2>2. h = received[s] \o newsChan[s]
    BY DEF Hands, W!Handed
  <2>3. Hands' = [t \in W!Streams |-> received[t] \o newsChan'[t]]
    BY <1>1 DEF Hands, W!Handed
  <2>4. Hands'[s] = Append(h, m)
    BY <1>2, <2>1, <2>2, <2>3
  <2>5. \A t \in W!Streams : t # s => Hands'[t] = Hands[t]
    BY <1>2, <2>3, HandsTypes
  <2> QED
    BY <2>3, <2>4, <2>5
<1>12. /\ h \in Seq(News) /\ Len(h) \in Nat /\ DOMAIN h = 1..Len(h)
  BY HandsTypes, LenProperties
<1>13. /\ Append(h, m) \in Seq(News)
       /\ DOMAIN Append(h, m) = 1..(Len(h) + 1)
       /\ \A i \in 1..Len(h) : Append(h, m)[i] = h[i]
       /\ Append(h, m)[Len(h) + 1] = m
  BY <1>3, <1>12, AppendProperties, LenProperties
<1>14. /\ \A i \in DOMAIN Append(h, m) : i \in DOMAIN h \/ i = Len(h) + 1
       /\ \A i \in DOMAIN h : i \in DOMAIN Append(h, m) /\ i < Len(h) + 1
       /\ Len(h) + 1 \in DOMAIN Append(h, m)
  BY <1>12, <1>13
\* What is handed on after the step was so before, or is this message, the last.
<1>15. ASSUME NEW t \in W!Streams, NEW i \in DOMAIN Hands'[t]
       PROVE  \/ i \in DOMAIN Hands[t] /\ Hands'[t][i] = Hands[t][i]
              \/ t = s /\ i = Len(h) + 1 /\ Hands'[t][i] = m
  BY <1>11, <1>12, <1>13, <1>14
<1>16. \A t \in W!Streams : \A i \in DOMAIN Hands[t] : i \in DOMAIN Hands'[t] /\ Hands'[t][i] = Hands[t][i]
  BY <1>11, <1>12, <1>13, <1>14
<1>17. Len(h) + 1 \in DOMAIN Hands'[s] /\ Hands'[s][Len(h) + 1] = m
  BY <1>11, <1>13, <1>14
<1>18. \A t \in W!Streams : \A i \in DOMAIN Hands[t] : Hands[t][i] < m
  BY <1>3 DEF SuckerInv, OrderInv
<1> HIDE DEF m, h
<1>19. NewsInv'
  <2>1. Hands' \in [W!Streams -> Seq(News)]
    <3>1. \A t \in W!Streams : Hands'[t] \in Seq(News)
      BY <1>11, <1>13, HandsTypes
    <3>2. Hands' = [t \in W!Streams |-> Hands'[t]]
      BY DEF Hands
    <3> QED
      BY <3>1, <3>2
  <2> QED
    BY <1>2, <2>1 DEF SuckerInv, NewsInv
<1>20. OrderInv'
  <2>1. \A t, v \in W!Streams : \A i \in DOMAIN Hands'[t], j \in DOMAIN Hands'[v] :
          (t < v \/ (t = v /\ i < j)) => Hands'[t][i] < Hands'[v][j]
    <3> SUFFICES ASSUME NEW t \in W!Streams, NEW v \in W!Streams, NEW i \in DOMAIN Hands'[t],
                        NEW j \in DOMAIN Hands'[v], t < v \/ (t = v /\ i < j)
                 PROVE  Hands'[t][i] < Hands'[v][j]
      OBVIOUS
    <3>1. CASE i \in DOMAIN Hands[t] /\ Hands'[t][i] = Hands[t][i]
      <4>1. CASE j \in DOMAIN Hands[v] /\ Hands'[v][j] = Hands[v][j]
        BY <3>1, <4>1 DEF SuckerInv, OrderInv
      <4>2. CASE v = s /\ j = Len(h) + 1 /\ Hands'[v][j] = m
        BY <1>18, <3>1, <4>2
      <4> QED
        BY <1>15, <4>1, <4>2
    <3>2. CASE t = s /\ i = Len(h) + 1 /\ Hands'[t][i] = m
      <4>1. CASE v = s
        <5>1. j <= Len(h) + 1
          BY <1>11, <1>12, <1>13, <4>1
        <5>2. i < j /\ i = Len(h) + 1 /\ j \in Nat
          BY <1>7, <1>11, <1>12, <1>13, <3>2, <4>1, SuckerTypes
        <5> QED
          BY <1>12, <5>1, <5>2
      <4>2. CASE v # s
        <5>1. v > started /\ Hands'[v] = Hands[v]
          BY <1>7, <1>11, <3>2, <4>2, SuckerTypes
        <5>2. Hands[v] = <<>> \o <<>>
          BY <5>1, HandsTypes DEF SuckerInv, StreamsInv
        <5> QED
          BY <5>1, <5>2
      <4> QED
        BY <4>1, <4>2
    <3> QED
      BY <1>15, <3>1, <3>2
  <2>2. \A t, v \in W!Streams : \A i \in DOMAIN Hands'[t] :
          message'[v] # 0 => Hands'[t][i] < message'[v]
    <3> SUFFICES ASSUME NEW t \in W!Streams, NEW v \in W!Streams, NEW i \in DOMAIN Hands'[t],
                        message'[v] # 0
                 PROVE  Hands'[t][i] < message'[v]
      OBVIOUS
    <3>1. v # s /\ message'[v] = message[v]
      BY <1>2
    <3>2. CASE i \in DOMAIN Hands[t] /\ Hands'[t][i] = Hands[t][i]
      BY <3>1, <3>2 DEF SuckerInv, OrderInv
    <3>3. CASE Hands'[t][i] = m
      <4>1. reader[v] = "handing"
        <5>1. loop[v] # "sending"
          <6>1. v < started \/ v > started
            BY <1>7, <3>1, SuckerTypes
          <6> QED
            BY <6>1 DEF SuckerInv, StreamsInv
        <5> QED
          BY <3>1, <5>1 DEF SuckerInv, HoldInv
      <4> QED
        BY <1>1, <3>1, <3>3, <4>1 DEF SuckerInv, OrderInv, m
    <3> QED
      BY <1>15, <3>2, <3>3
  <2>3. \A t, v \in W!Streams :
          loop'[t] = "sending" /\ reader[v] = "handing" => message'[t] < message'[v]
    BY <1>2, <1>9 DEF SuckerInv, OrderInv
  <2> QED
    BY <1>1, <2>1, <2>2, <2>3 DEF OrderInv
<1>21. InboxInv'
  <2>1. \A i \in DOMAIN inbox : inbox[i] > 0 /\ m < inbox[i]
    BY InboxTypes, SuckerTypes DEF SuckerInv, InboxInv, m
  <2>2. \A i \in DOMAIN inbox, t \in W!Streams : message'[t] < inbox[i]
    BY <1>2, <2>1, InboxTypes DEF SuckerInv, InboxInv
  <2>3. \A i \in DOMAIN inbox, t \in W!Streams : \A j \in DOMAIN Hands'[t] : Hands'[t][j] < inbox[i]
    BY <1>15, <2>1 DEF SuckerInv, InboxInv
  <2> QED
    BY <1>1, <2>2, <2>3 DEF SuckerInv, InboxInv
<1>22. LostInv'
  <2>1. 0 \notin lost /\ m \notin lost
    BY SuckerTypes DEF SuckerInv, LostInv, m
  <2>2. \A t \in W!Streams : message'[t] \notin lost
    BY <1>2, <2>1 DEF SuckerInv, LostInv
  <2>3. \A t \in W!Streams : \A j \in DOMAIN Hands'[t] : Hands'[t][j] \notin lost
    BY <1>15, <2>1 DEF SuckerInv, LostInv
  <2> QED
    BY <1>1, <2>2, <2>3 DEF SuckerInv, LostInv
<1>23. KeptInv'
  <2>1. \A t \in W!Streams : t # s => message'[t] = message[t]
    BY <1>2
  <2>2. message[s] = m
    BY DEF m
  <2> QED
    BY <1>1, <1>16, <1>17, <2>1, <2>2 DEF SuckerInv, KeptInv
<1> QED
  BY <1>6, <1>8, <1>10, <1>19, <1>20, <1>21, <1>22, <1>23 DEF SuckerInv
\* The server sends: on the connection, or to nobody.
LEMMA ServerSendsKeeps == ASSUME SuckerInv, W!ServerSends PROVE SuckerInv'
<1> DEFINE m == produced + 1
           More == 1..m
<1>1. /\ produced' = m
      /\ UNCHANGED <<streaming, started, ctxDone, loop, reader, pinger, message, newsChan, conn,
                     received>>
      /\ \/ inbox' = Append(inbox, m) /\ lost' = lost
         \/ inbox' = inbox /\ lost' = lost \union {m}
  BY DEF W!ServerSends, W!streamVars
<1>2. /\ produced \in Nat /\ m \in Nat /\ produced < m /\ m # 0 /\ m <= MaxMessages
      /\ m \in More /\ 1..produced \subseteq More /\ 0..produced \subseteq 0..m
  BY SuckerTypes DEF W!ServerSends
<1>3. /\ Append(inbox, m) \in Seq(More) /\ inbox \in Seq(More)
      /\ DOMAIN Append(inbox, m) = 1..(Len(inbox) + 1)
      /\ \A i \in 1..Len(inbox) : Append(inbox, m)[i] = inbox[i]
      /\ Append(inbox, m)[Len(inbox) + 1] = m
  <2>1. inbox \in Seq(More)
    <3> HIDE DEF More
    <3> QED
      BY <1>2, SuckerTypes, SeqMonotonic
  <2> HIDE DEF More, m
  <2> QED
    BY <1>2, <2>1, AppendProperties, LenProperties
<1>4. W!TypeOK'
  <2>1. \A t \in W!Streams : newsChan[t] \in Seq(More) /\ received[t] \in Seq(More)
    <3> HIDE DEF More
    <3> QED
      BY <1>2, SuckerTypes, SeqMonotonic
  <2>2. newsChan \in [W!Streams -> Seq(More)] /\ received \in [W!Streams -> Seq(More)]
    BY <2>1, SuckerTypes
  <2>3. message \in [W!Streams -> 0..m]
    BY <1>2, SuckerTypes
  <2>4. lost' \subseteq More /\ inbox' \in Seq(More)
    BY <1>1, <1>2, <1>3, SuckerTypes
  <2>5. produced' \in 0..MaxMessages
    BY <1>1, <1>2
  <2> QED
    BY <1>1, <2>2, <2>3, <2>4, <2>5 DEF SuckerInv, W!TypeOK
<1>5. Hands' = Hands
  BY <1>1 DEF Hands, W!Handed
<1>6. /\ StreamsInv' /\ NewsInv' /\ OrderInv'
      /\ HoldInv'
  <2>1. StreamsInv' /\ HoldInv'
    BY <1>1 DEF SuckerInv, StreamsInv, HoldInv, W!ReaderHolds
  <2>2. NewsInv' /\ OrderInv'
    BY <1>1, <1>5 DEF SuckerInv, NewsInv, OrderInv
  <2> QED
    BY <2>1, <2>2
<1>7. /\ \A i \in DOMAIN inbox : inbox[i] < m /\ inbox[i] # m
      /\ \A t \in W!Streams : message[t] < m /\ message[t] # m
      /\ \A t \in W!Streams : \A i \in DOMAIN Hands[t] : Hands[t][i] < m /\ Hands[t][i] # m
      /\ m \notin lost
  BY <1>2, InboxTypes, HandsTypes, SuckerTypes
<1>8. CASE inbox' = Append(inbox, m) /\ lost' = lost
  <2>1. ASSUME NEW i \in DOMAIN inbox'
        PROVE  \/ i \in DOMAIN inbox /\ inbox'[i] = inbox[i]
               \/ i = Len(inbox) + 1 /\ inbox'[i] = m
    BY <1>3, <1>8, InboxTypes
  <2>2. /\ \A i \in DOMAIN inbox : i \in DOMAIN inbox' /\ inbox'[i] = inbox[i] /\ i < Len(inbox) + 1
        /\ Len(inbox) + 1 \in DOMAIN inbox' /\ inbox'[Len(inbox) + 1] = m
    BY <1>3, <1>8, InboxTypes
  <2>3. \A i, j \in DOMAIN inbox' : i < j => inbox'[i] < inbox'[j]
    <3> SUFFICES ASSUME NEW i \in DOMAIN inbox', NEW j \in DOMAIN inbox', i < j
                 PROVE  inbox'[i] < inbox'[j]
      OBVIOUS
    <3>1. i \in DOMAIN inbox
      <4>1. i \in 1..(Len(inbox) + 1) /\ j \in 1..(Len(inbox) + 1)
        BY <1>3, <1>8
      <4> QED
        BY <4>1, InboxTypes
    <3>2. CASE j \in DOMAIN inbox /\ inbox'[j] = inbox[j]
      BY <2>2, <3>1, <3>2 DEF SuckerInv, InboxInv
    <3>3. CASE inbox'[j] = m
      BY <1>7, <2>2, <3>1, <3>3
    <3> QED
      BY <2>1, <3>2, <3>3
  <2> HIDE DEF m, More
  <2>4. InboxInv'
    BY <1>1, <1>5, <1>7, <2>1, <2>3 DEF SuckerInv, InboxInv
  <2>5. LostInv'
    BY <1>1, <1>5, <1>7, <1>8, <2>1 DEF SuckerInv, LostInv
  <2>6. KeptInv'
    <3>1. \A n \in News : n <= produced' => n <= produced \/ n = m
      BY <1>1, <1>2, SuckerTypes DEF m
    <3> QED
      BY <1>1, <1>5, <1>8, <2>2, <3>1 DEF SuckerInv, KeptInv
  <2> QED
    BY <1>4, <1>6, <2>4, <2>5, <2>6 DEF SuckerInv
<1>9. CASE inbox' = inbox /\ lost' = lost \union {m}
  <2> HIDE DEF m, More
  <2>1. InboxInv' /\ LostInv'
    BY <1>1, <1>5, <1>7, <1>9 DEF SuckerInv, InboxInv, LostInv
  <2>2. KeptInv'
    <3>1. \A n \in News : n <= produced' => n <= produced \/ n = m
      BY <1>1, <1>2, SuckerTypes DEF m
    <3> QED
      BY <1>1, <1>5, <1>9, <3>1 DEF SuckerInv, KeptInv
  <2> QED
    BY <1>4, <1>6, <2>1, <2>2 DEF SuckerInv
<1> QED
  BY <1>1, <1>8, <1>9

\* Each step of the sucker keeps its invariant.
LEMMA SuckerNextKeeps == ASSUME SuckerInv, [W!Next]_(W!vars) PROVE SuckerInv'
<1>1. CASE UNCHANGED W!vars
  <2>1. UNCHANGED <<streaming, started, ctxDone, loop, reader, pinger, message, newsChan, conn,
                    inbox, produced, received, lost>>
    BY <1>1 DEF W!vars, W!streamVars
  <2>2. W!TypeOK' /\ StreamsInv' /\ HoldInv'
    BY <2>1 DEF SuckerInv, W!TypeOK, StreamsInv, HoldInv, W!ReaderHolds
  <2> QED
    BY <2>1, <2>2, MessagesStay DEF SuckerInv
<1>2. CASE W!StreamNews
  BY <1>2, StreamNewsKeeps
<1>3. CASE W!ServerSends
  BY <1>3, ServerSendsKeeps
<1>4. CASE W!ConnectionBreaks
  BY <1>4, OthersKeep
<1>5. ASSUME NEW s \in W!Streams, W!LoopRuns(s) PROVE SuckerInv'
  BY <1>5, LoopKeeps, HandOverKeeps, SendNewsKeeps DEF W!LoopRuns
<1>6. ASSUME NEW s \in W!Streams, W!ReaderRuns(s) PROVE SuckerInv'
  BY <1>6, ReaderKeeps, ReadsKeeps, ConnectsKeeps DEF W!ReaderRuns
<1>7. ASSUME NEW s \in W!Streams, W!PingerRuns(s) \/ W!Ticks(s) \/ W!Cancel(s) PROVE SuckerInv'
  BY <1>7, OthersKeep, ConnectsKeeps DEF W!PingerRuns
<1>8. ASSUME NEW s \in W!Streams, W!TakeNews(s) PROVE SuckerInv'
  BY <1>8, TakeNewsKeeps
<1> QED
  BY <1>1, <1>2, <1>3, <1>4, <1>5, <1>6, <1>7, <1>8 DEF W!Next

\* What the invariant says of a message that reached the client.
LEMMA InOneHand == SuckerInv => W!NewsInOneHand
<1> SUFFICES ASSUME SuckerInv PROVE W!NewsInOneHand
  OBVIOUS
<1>1. \A s \in W!Streams : W!Handed(s) = Hands[s]
  BY DEF Hands
<1>2. /\ \A x : x \in W!AllHanded <=> \E s \in W!Streams : \E i \in DOMAIN Hands[s] : Hands[s][i] = x
      /\ \A x : x \in W!InHand <=> x # 0 /\ \E s \in W!Streams : message[s] = x
      /\ \A x : x \in W!ToSet(inbox) <=> \E i \in DOMAIN inbox : inbox[i] = x
  BY <1>1 DEF W!AllHanded, W!InHand, W!ToSet
<1>3. (News \intersect 1..produced)
        = News \intersect (W!AllHanded \union W!InHand \union lost \union W!ToSet(inbox))
  <2>1. ASSUME NEW m \in News, m \in 1..produced
        PROVE  m \in W!AllHanded \union W!InHand \union lost \union W!ToSet(inbox)
    BY <1>2, <2>1 DEF SuckerInv, KeptInv
  <2>2. W!AllHanded \subseteq 1..produced
    BY <1>2, HandsTypes
  <2>3. W!InHand \subseteq 1..produced
    BY <1>2, SuckerTypes
  <2>4. lost \subseteq 1..produced /\ W!ToSet(inbox) \subseteq 1..produced
    BY <1>2, SuckerTypes, InboxTypes
  <2> QED
    BY <2>1, <2>2, <2>3, <2>4
<1>4. W!AllHanded \subseteq News
  BY <1>2, HandsTypes
<1>5. W!AllHanded \intersect (W!InHand \union lost) = {}
  <2>1. ASSUME NEW x \in W!AllHanded PROVE x \notin W!InHand
    <3>1. PICK s \in W!Streams : \E i \in DOMAIN Hands[s] : Hands[s][i] = x
      BY <1>2
    <3>2. \A t \in W!Streams : message[t] # 0 => x < message[t]
      BY <3>1 DEF SuckerInv, OrderInv
    <3>3. x \in 1..produced
      BY <3>1, HandsTypes
    <3> QED
      BY <1>2, <3>2, <3>3
  <2>2. ASSUME NEW x \in W!AllHanded PROVE x \notin lost
    BY <1>2 DEF SuckerInv, LostInv
  <2> QED
    BY <2>1, <2>2
<1>6. \A s, t \in W!Streams : \A i \in DOMAIN W!Handed(s), j \in DOMAIN W!Handed(t) :
        (s < t \/ (s = t /\ i < j)) => W!Handed(s)[i] < W!Handed(t)[j]
  BY <1>1 DEF SuckerInv, OrderInv
<1> QED
  BY <1>3, <1>4, <1>5, <1>6 DEF W!NewsInOneHand

LEMMA InitSucker == W!Init => SuckerInv
<1> SUFFICES ASSUME W!Init PROVE SuckerInv
  OBVIOUS
<1>1. W!TypeOK
  <2>1. MaxStreams \in Nat /\ MaxMessages \in Nat /\ NewsChanSize \in Nat
    BY SuckerAssumption DEF W!ConstantsFit
  <2>2. inbox \in Seq(1..produced) /\ produced = 0
    BY EmptySeq DEF W!Init
  <2>3. /\ newsChan \in [W!Streams -> Seq(1..produced)] /\ received \in [W!Streams -> Seq(1..produced)]
        /\ \A s \in W!Streams : Len(newsChan[s]) <= NewsChanSize
    BY <2>1, EmptySeq DEF W!Init
  <2>4. message \in [W!Streams -> 0..produced]
    BY DEF W!Init
  <2>5. ctxDone \in [W!Streams -> BOOLEAN] /\ streaming \in BOOLEAN
    BY DEF W!Init
  <2>6. started \in 0..MaxStreams /\ produced \in 0..MaxMessages /\ lost \subseteq 1..produced
    BY <2>1 DEF W!Init
  <2>7. /\ loop \in [W!Streams -> {"off", "spawning", "select", "sending", "waiting", "closed"}]
        /\ reader \in [W!Streams -> {"none", "locking", "reading", "reconnecting", "handing"}]
        /\ pinger \in [W!Streams -> {"off", "select", "locking", "pinging", "reconnecting", "done"}]
        /\ conn \in {"up", "down"}
    BY DEF W!Init
  <2> QED
    BY <2>2, <2>3, <2>4, <2>5, <2>6, <2>7 DEF W!TypeOK
<1>2. StreamsInv /\ HoldInv
  BY SuckerAssumption DEF W!ConstantsFit, W!Init, W!Streams, StreamsInv, HoldInv, W!ReaderHolds
<1>3. \A s \in W!Streams : Hands[s] = <<>>
  <2>1. <<>> \o <<>> = <<>>
    BY EmptySeq, ConcatEmptySeq
  <2> QED
    BY <2>1 DEF Hands, W!Handed, W!Init
<1>4. Hands = [s \in W!Streams |-> <<>>]
  BY <1>3 DEF Hands
<1>5. Hands \in [W!Streams -> Seq(News)]
  BY <1>4, EmptySeq
<1>6. NewsInv /\ OrderInv /\ InboxInv /\ LostInv
  BY <1>3, <1>5 DEF W!Init, NewsInv, OrderInv, InboxInv, LostInv
<1>7. KeptInv
  <2>1. ASSUME NEW m \in News PROVE ~(m <= 0)
    BY SuckerAssumption DEF W!ConstantsFit
  <2> QED
    BY <2>1 DEF W!Init, KeptInv
<1> QED
  BY <1>1, <1>2, <1>6, <1>7 DEF SuckerInv

LEMMA SuckerHolds == Spec => []SuckerInv
<1>1. Init => SuckerInv
  BY InitSucker DEF Init
<1>2. SuckerInv /\ [Next]_vars => SuckerInv'
  <2> SUFFICES ASSUME SuckerInv, [Next]_vars PROVE [W!Next]_(W!vars)
    BY SuckerNextKeeps
  <2> QED
    BY DEF Next, BroadcastRuns, SuckerRuns, MetricsRun, MapRuns, vars, suckerVars, W!vars,
           W!streamVars
<1> QED
  BY <1>1, <1>2, PTL DEF Spec

\* Over reconnections, cancelled streams and new ones a message that reached the
\* client is at one place, and the news come in order and once: a reader that a
\* cancelled stream leaves behind neither loses nor overtakes one.
THEOREM SuckerIsSafe == Spec => []SuckerSafe
<1>1. SuckerInv => SuckerSafe
  BY InOneHand DEF SuckerInv, SuckerSafe
<1> QED
  BY <1>1, SuckerHolds, PTL

\* The reader of a cancelled stream that has the connection keeps it: nobody takes
\* its message, and a stream that is over stays over.
LEMMA LeftBehindStays ==
  ASSUME SuckerInv, [W!Next]_(W!vars), NEW s \in W!Streams, W!LeftBehind(s)
  PROVE  W!LeftBehind(s)'
<1>0. /\ loop[s] \in {"waiting", "closed"} /\ reader[s] \in {"reading", "reconnecting", "handing"}
      /\ \A t \in W!Streams : W!ReaderHolds(t) => t = s
  BY DEF W!LeftBehind, W!Over, W!ReaderHolds, SuckerInv, HoldInv
<1> SUFFICES /\ loop'[s] \in {"waiting", "closed"}
             /\ reader'[s] \in {"reading", "reconnecting", "handing"}
  BY DEF W!LeftBehind, W!Over, W!ReaderHolds
<1>1. CASE UNCHANGED <<loop, reader>>
  BY <1>0, <1>1
<1>2. CASE W!StreamNews
  <2>1. s # started + 1
    <3>1. loop[s] # "off"
      BY <1>0
    <3>2. ~(s > started)
      BY <3>1 DEF SuckerInv, StreamsInv
    <3> QED
      BY <3>2, SuckerTypes
  <2> QED
    BY <1>0, <1>2, <2>1, SuckerTypes DEF W!StreamNews
<1>3. ASSUME NEW v \in W!Streams, W!LoopRuns(v)
      PROVE  /\ loop'[s] \in {"waiting", "closed"}
             /\ reader'[s] \in {"reading", "reconnecting", "handing"}
  <2>1. CASE W!SpawnReader(v) \/ W!HandOver(v) \/ W!SendNews(v) \/ W!LoopEnds(v)
    <3>1. loop[v] \in {"spawning", "select", "sending"}
      BY <2>1 DEF W!SpawnReader, W!HandOver, W!SendNews, W!LoopEnds
    <3>2. v # s
      BY <1>0, <3>1
    <3> QED
      BY <1>0, <2>1, <3>2, SuckerTypes DEF W!SpawnReader, W!HandOver, W!SendNews, W!LoopEnds
  <2>2. CASE W!StreamEnds(v)
    BY <1>0, <2>2, SuckerTypes DEF W!StreamEnds
  <2> QED
    BY <1>3, <2>1, <2>2 DEF W!LoopRuns
<1>4. ASSUME NEW v \in W!Streams, W!ReaderRuns(v)
      PROVE  /\ loop'[s] \in {"waiting", "closed"}
             /\ reader'[s] \in {"reading", "reconnecting", "handing"}
  <2>1. loop' = loop
    BY <1>4 DEF W!ReaderRuns, W!ReaderLocks, W!Reads, W!ReadFails, W!ReaderConnects,
                W!NewConnection
  <2>2. PICK to \in {"reading", "reconnecting", "handing"} : reader' = [reader EXCEPT ![v] = to]
    BY <1>4 DEF W!ReaderRuns, W!ReaderLocks, W!Reads, W!ReadFails, W!ReaderConnects
  <2> QED
    BY <1>0, <2>1, <2>2, SuckerTypes
<1>5. ASSUME NEW v \in W!Streams, W!PingerRuns(v) \/ W!Ticks(v) \/ W!Cancel(v) \/ W!TakeNews(v)
      PROVE  UNCHANGED <<loop, reader>>
  BY <1>5 DEF W!PingerRuns, W!Ticks, W!PingerLocks, W!Pings, W!PingFails, W!PingerEnds,
              W!PingerMoves, W!PingerConnects, W!NewConnection, W!Cancel, W!TakeNews
<1>6. ASSUME W!ServerSends \/ W!ConnectionBreaks \/ UNCHANGED W!vars
      PROVE  UNCHANGED <<loop, reader>>
  BY <1>6 DEF W!ServerSends, W!ConnectionBreaks, W!vars, W!streamVars
<1> QED
  BY <1>1, <1>2, <1>3, <1>4, <1>5, <1>6 DEF W!Next

\* Once such a reader has the connection, no stream that is not over is ever handed
\* a message again.
THEOREM DeafForEver == Spec => DeafAfterRestart
<1> DEFINE Left == \E s \in W!Streams : W!LeftBehind(s)
           Deaf == \A t \in W!Streams : ~W!Over(t) => reader[t] # "handing"
<1>1. SuckerInv /\ Left /\ [Next]_vars => Left'
  <2> SUFFICES ASSUME SuckerInv, [Next]_vars, NEW s \in W!Streams, W!LeftBehind(s)
               PROVE  W!LeftBehind(s)'
    BY DEF W!Streams
  <2>1. [W!Next]_(W!vars)
    BY DEF Next, BroadcastRuns, SuckerRuns, MetricsRun, MapRuns, vars, suckerVars, W!vars,
           W!streamVars
  <2> QED
    BY <2>1, LeftBehindStays
<1>2. SuckerInv /\ Left => Deaf
  BY DEF SuckerInv, HoldInv, W!LeftBehind, W!ReaderHolds
<1>3. DeafAfterRestart <=> [](Left => []Deaf)
  BY PTL DEF DeafAfterRestart, W!DeafAfterRestart
<1> QED
  BY <1>1, <1>2, <1>3, SuckerHolds, PTL DEF Spec
-----------------------------------------------------------------------------
(* Broadcast: what the channels of the followers hold. *)

\* The values of a channel are a + 1 to b, the memory on it m + 1 to n, each in
\* its order.
Ordered(q) == \A i, j \in DOMAIN q : i < j =>
    /\ q[i] > 0 /\ q[j] > 0 => q[i] < q[j]
    /\ q[i] <= 0 /\ q[j] <= 0 => q[i] > q[j]
HasFromTo(q, a, b, m, n) == \A v \in Int :
    /\ v > 0 => (v \in Range(q) <=> a < v /\ v <= b)
    /\ v <= 0 => (v \in Range(q) <=> m < -v /\ -v <= n)
Holds(q, a, b, m, n) == Ordered(q) /\ HasFromTo(q, a, b, m, n)

\* The followers in the list are different, and their channels open.
ListInv ==
    /\ IsInjective(followers)
    /\ \A p \in DOMAIN followers :
          ~chanClosed[followers[p]] /\ fpc[followers[p]] \notin {"out", "left"}
    /\ closed => followers = <<>> /\ cursor = 0
    /\ cursor # 0 => sent # 0
    /\ \A f \in Followers : chanClosed[f] => closed \/ fpc[f] = "left"
    /\ \A f \in Followers : fpc[f] = "out" =>
          chan[f] = <<>> /\ got[f] = 0 /\ recalled[f] = 0 /\ replayed[f] = 0

\* Whoever is, or was, a follower has an unbroken row of values.
ChannelsInv == \A f \in Followers : \E upto \in (joined[f] + got[f])..sent :
    Holds(chan[f], joined[f] + got[f], upto, recalled[f], replayed[f])

\* How far the row goes: Send has not come to those from its cursor on.
SentTo(p) == IF cursor # 0 /\ p >= cursor THEN sent - 1 ELSE sent
RowsInv == \A p \in DOMAIN followers :
    LET f == followers[p]
    IN /\ joined[f] + got[f] <= SentTo(p)
       /\ Holds(chan[f], joined[f] + got[f], SentTo(p), recalled[f], replayed[f])

BroadcastInv == B!TypeOK /\ ListInv /\ ChannelsInv /\ RowsInv /\ B!PanicOnlyInReplay
\* In order a channel holds each value once.
LEMMA OrderedOnce == ASSUME NEW q \in Seq(Int), Ordered(q) PROVE IsInjective(q)
<1>1. /\ \A i \in DOMAIN q : q[i] \in Int
      /\ DOMAIN q = 1..Len(q) /\ Len(q) \in Nat
  BY ElementOfSeq, LenProperties
<1>2. ASSUME NEW i \in DOMAIN q, NEW j \in DOMAIN q, i < j PROVE q[i] # q[j]
  BY <1>1, <1>2 DEF Ordered
<1>3. ASSUME NEW i \in DOMAIN q, NEW j \in DOMAIN q, i # j PROVE q[i] # q[j]
  <2>1. i < j \/ j < i
    BY <1>1, <1>3
  <2> QED
    BY <1>2, <2>1
<1> QED
  BY <1>3 DEF IsInjective

\* A send to a channel: a value after all others, or a part of the memory.
LEMMA OrderedSend ==
  ASSUME NEW q \in Seq(Int), Ordered(q), NEW v \in Int,
         \A x \in Range(q) : /\ v > 0 /\ x > 0 => x < v
                             /\ v <= 0 /\ x <= 0 => x > v
  PROVE  /\ Append(q, v) \in Seq(Int) /\ Ordered(Append(q, v))
         /\ Range(Append(q, v)) = Range(q) \union {v}
         /\ Len(Append(q, v)) = Len(q) + 1
<1>1. /\ \A i \in DOMAIN q : q[i] \in Int /\ q[i] \in Range(q)
      /\ DOMAIN q = 1..Len(q) /\ Len(q) \in Nat
  BY ElementOfSeq, LenProperties DEF Range
<1>2. /\ Append(q, v) \in Seq(Int) /\ Len(Append(q, v)) = Len(q) + 1
      /\ DOMAIN Append(q, v) = 1..(Len(q) + 1)
      /\ \A i \in 1..Len(q) : Append(q, v)[i] = q[i]
      /\ Append(q, v)[Len(q) + 1] = v
  BY AppendProperties, LenProperties
<1>3. v \notin Range(q)
  <2>1. v > 0 \/ v <= 0
    OBVIOUS
  <2> QED
    BY <2>1
<1>4. Range(Append(q, v)) = Range(q) \union {v}
  BY <1>3, OrderedOnce, SendRange
<1>5. ASSUME NEW i \in DOMAIN Append(q, v), NEW j \in DOMAIN Append(q, v), i < j
      PROVE  /\ Append(q, v)[i] > 0 /\ Append(q, v)[j] > 0 => Append(q, v)[i] < Append(q, v)[j]
             /\ Append(q, v)[i] <= 0 /\ Append(q, v)[j] <= 0 => Append(q, v)[i] > Append(q, v)[j]
  <2>1. i \in DOMAIN q /\ Append(q, v)[i] = q[i]
    BY <1>1, <1>2, <1>5
  <2>2. CASE j \in DOMAIN q
    <3>1. Append(q, v)[j] = q[j]
      BY <1>1, <1>2, <2>2
    <3> QED
      BY <1>5, <2>1, <2>2, <3>1 DEF Ordered
  <2>3. CASE j = Len(q) + 1
    BY <1>1, <1>2, <2>1, <2>3
  <2> QED
    BY <1>1, <1>2, <2>2, <2>3
<1> QED
  BY <1>2, <1>4, <1>5 DEF Ordered

\* A read from a channel: the first value, or the first of the memory.
LEMMA OrderedRead ==
  ASSUME NEW q \in Seq(Int), Ordered(q), q # <<>>
  PROVE  /\ Head(q) \in Int /\ Head(q) \in Range(q)
         /\ Tail(q) \in Seq(Int) /\ Ordered(Tail(q))
         /\ Range(Tail(q)) = Range(q) \ {Head(q)}
         /\ Len(Tail(q)) = Len(q) - 1
         /\ \A x \in Range(q) : /\ Head(q) > 0 /\ x > 0 => Head(q) <= x
                                /\ Head(q) <= 0 /\ x <= 0 => x <= Head(q)
<1>1. /\ \A i \in DOMAIN q : q[i] \in Int /\ q[i] \in Range(q)
      /\ DOMAIN q = 1..Len(q) /\ Len(q) \in Nat \ {0}
      /\ Head(q) = q[1]
  BY ElementOfSeq, LenProperties, EmptySeq DEF Range
<1>2. /\ Tail(q) \in Seq(Int) /\ Len(Tail(q)) = Len(q) - 1
      /\ DOMAIN Tail(q) = 1..(Len(q) - 1)
      /\ \A i \in 1..(Len(q) - 1) : Tail(q)[i] = q[i + 1]
  BY HeadTailProperties, LenProperties
<1>3. /\ Head(q) \in Range(q) /\ Range(Tail(q)) = Range(q) \ {Head(q)}
  BY OrderedOnce, ReceiveRange
<1>4. Ordered(Tail(q))
  <2> SUFFICES ASSUME NEW i \in DOMAIN Tail(q), NEW j \in DOMAIN Tail(q), i < j
               PROVE  /\ Tail(q)[i] > 0 /\ Tail(q)[j] > 0 => Tail(q)[i] < Tail(q)[j]
                      /\ Tail(q)[i] <= 0 /\ Tail(q)[j] <= 0 => Tail(q)[i] > Tail(q)[j]
    BY DEF Ordered
  <2>1. /\ i + 1 \in DOMAIN q /\ j + 1 \in DOMAIN q /\ i + 1 < j + 1
        /\ Tail(q)[i] = q[i + 1] /\ Tail(q)[j] = q[j + 1]
    BY <1>1, <1>2
  <2> QED
    BY <2>1 DEF Ordered
<1>5. ASSUME NEW x \in Range(q)
      PROVE  /\ Head(q) > 0 /\ x > 0 => Head(q) <= x
             /\ Head(q) <= 0 /\ x <= 0 => x <= Head(q)
  <2>1. PICK i \in DOMAIN q : q[i] = x
    BY DEF Range
  <2>2. CASE i = 1
    BY <1>1, <2>1, <2>2
  <2>3. CASE i # 1
    <3>1. 1 \in DOMAIN q /\ 1 < i
      BY <1>1, <2>3
    <3>2. q[1] \in Int /\ x \in Int
      BY <1>1, <2>1, <3>1
    <3> QED
      BY <1>1, <2>1, <3>1, <3>2 DEF Ordered
  <2> QED
    BY <2>2, <2>3
<1> QED
  BY <1>1, <1>2, <1>3, <1>4, <1>5

\* The rows of a channel after a value, a part of the memory, or a read.
LEMMA ValueSent ==
  ASSUME NEW q \in Seq(Int), NEW a \in Nat, NEW b \in Nat, NEW m \in Nat, NEW n \in Nat,
         a <= b, Holds(q, a, b, m, n)
  PROVE  /\ Append(q, b + 1) \in Seq(Int) /\ Holds(Append(q, b + 1), a, b + 1, m, n)
         /\ Len(Append(q, b + 1)) = Len(q) + 1
<1>1. \A x \in Range(q) : x \in Int /\ (x > 0 => x < b + 1)
  <2>1. \A x \in Range(q) : x \in Int
    BY ElementOfSeq, LenProperties DEF Range
  <2> QED
    BY <2>1 DEF Holds, HasFromTo
<1>2. b + 1 \in Int /\ b + 1 > 0
  OBVIOUS
<1>3. /\ Append(q, b + 1) \in Seq(Int) /\ Ordered(Append(q, b + 1))
      /\ Range(Append(q, b + 1)) = Range(q) \union {b + 1}
      /\ Len(Append(q, b + 1)) = Len(q) + 1
  BY <1>1, <1>2, OrderedSend DEF Holds
<1>4. HasFromTo(Append(q, b + 1), a, b + 1, m, n)
  BY <1>3 DEF Holds, HasFromTo
<1> QED
  BY <1>3, <1>4 DEF Holds

LEMMA MemorySent ==
  ASSUME NEW q \in Seq(Int), NEW a \in Nat, NEW b \in Nat, NEW m \in Nat, NEW n \in Nat,
         m <= n, Holds(q, a, b, m, n)
  PROVE  /\ Append(q, -(n + 1)) \in Seq(Int) /\ Holds(Append(q, -(n + 1)), a, b, m, n + 1)
         /\ Len(Append(q, -(n + 1))) = Len(q) + 1
<1> DEFINE v == -(n + 1)
<1>1. \A x \in Range(q) : x \in Int /\ (x <= 0 => x > v)
  <2>1. \A x \in Range(q) : x \in Int
    BY ElementOfSeq, LenProperties DEF Range
  <2> QED
    BY <2>1 DEF Holds, HasFromTo
<1>2. v \in Int /\ v <= 0
  OBVIOUS
<1>3. /\ Append(q, v) \in Seq(Int) /\ Ordered(Append(q, v))
      /\ Range(Append(q, v)) = Range(q) \union {v}
      /\ Len(Append(q, v)) = Len(q) + 1
  <2> HIDE DEF v
  <2> QED
    BY <1>1, <1>2, OrderedSend DEF Holds
<1>4. HasFromTo(Append(q, v), a, b, m, n + 1)
  BY <1>3 DEF Holds, HasFromTo
<1> QED
  BY <1>3, <1>4 DEF Holds

LEMMA ReadFirst ==
  ASSUME NEW q \in Seq(Int), NEW a \in Nat, NEW b \in Nat, NEW m \in Nat, NEW n \in Nat,
         q # <<>>, Holds(q, a, b, m, n)
  PROVE  /\ Tail(q) \in Seq(Int) /\ Len(Tail(q)) = Len(q) - 1
         /\ Head(q) > 0 => a < b /\ Holds(Tail(q), a + 1, b, m, n)
         /\ ~(Head(q) > 0) => m < n /\ Holds(Tail(q), a, b, m + 1, n)
<1> DEFINE h == Head(q)
<1>1. /\ h \in Int /\ h \in Range(q)
      /\ Tail(q) \in Seq(Int) /\ Ordered(Tail(q))
      /\ Range(Tail(q)) = Range(q) \ {h}
      /\ Len(Tail(q)) = Len(q) - 1
      /\ \A x \in Range(q) : /\ h > 0 /\ x > 0 => h <= x
                             /\ h <= 0 /\ x <= 0 => x <= h
  BY OrderedRead DEF Holds
<1> HIDE DEF h
<1>2. CASE h > 0
  <2>1. a < h /\ h <= b
    BY <1>1, <1>2 DEF Holds, HasFromTo
  <2>2. h = a + 1
    <3>1. a + 1 \in Range(q)
      BY <1>1, <2>1 DEF Holds, HasFromTo
    <3>2. h <= a + 1
      BY <1>1, <1>2, <3>1
    <3> QED
      BY <1>1, <2>1, <3>2
  <2>3. HasFromTo(Tail(q), a + 1, b, m, n)
    BY <1>1, <2>1, <2>2 DEF Holds, HasFromTo
  <2> QED
    BY <1>1, <1>2, <2>1, <2>3 DEF Holds, h
<1>3. CASE ~(h > 0)
  <2>1. m < -h /\ -h <= n
    BY <1>1, <1>3 DEF Holds, HasFromTo
  <2>2. h = -(m + 1)
    <3>1. -(m + 1) \in Range(q)
      BY <1>1, <2>1 DEF Holds, HasFromTo
    <3>2. -(m + 1) <= h
      BY <1>1, <1>3, <3>1
    <3> QED
      BY <1>1, <2>1, <3>2
  <2>3. HasFromTo(Tail(q), a, b, m + 1, n)
    BY <1>1, <2>1, <2>2 DEF Holds, HasFromTo
  <2>4. m < n
    BY <1>1, <2>1
  <2> QED
    BY <1>1, <1>3, <2>3, <2>4 DEF Holds, h
<1> QED
  BY <1>2, <1>3
\* A new channel has nothing on it.
LEMMA NothingSent == ASSUME NEW a \in Nat PROVE Holds(<<>>, a, a, 0, 0)
<1>1. DOMAIN <<>> = {} /\ Range(<<>>) = {}
  BY DEF Range
<1> QED
  BY <1>1 DEF Holds, Ordered, HasFromTo

\* What the variables of the broadcast are.
LEMMA BroadcastTypes ==
  ASSUME BroadcastInv
  PROVE  /\ followers \in Seq(Followers) /\ Len(followers) \in Nat
         /\ DOMAIN followers = 1..Len(followers)
         /\ \A p \in DOMAIN followers : followers[p] \in Followers
         /\ sent \in Nat /\ cursor \in Nat /\ cursor <= Len(followers) + 1 /\ sent <= MaxSends
         /\ MaxSends \in Nat /\ MemoryLen \in Nat /\ Capacity \in Nat /\ B!MemoryCapacity \in Nat
         /\ fpc \in [Followers -> {"out", "replaying", "in", "leaving", "left"}]
         /\ chan \in [Followers -> Seq(Int)]
         /\ room \in [Followers -> {0, Capacity, B!MemoryCapacity}]
         /\ \A f \in Followers : room[f] \in Nat /\ Len(chan[f]) \in Nat /\ Len(chan[f]) <= room[f]
         /\ replayed \in [Followers -> Nat] /\ recalled \in [Followers -> Nat]
         /\ joined \in [Followers -> Nat] /\ got \in [Followers -> Nat]
         /\ \A f \in Followers : recalled[f] <= replayed[f]
<1>1. Capacity \in Nat /\ MemoryLen \in Nat /\ MaxSends \in Nat
  BY BroadcastAssumption DEF B!ConstantsFit
<1>2. B!MemoryCapacity \in Nat
  BY <1>1 DEF B!MemoryCapacity
<1>3. followers \in Seq(Followers) /\ chan \in [Followers -> Seq(Int)]
  BY DEF BroadcastInv, B!TypeOK
<1>4. /\ Len(followers) \in Nat /\ DOMAIN followers = 1..Len(followers)
      /\ \A p \in DOMAIN followers : followers[p] \in Followers
  BY <1>3, LenProperties, ElementOfSeq
<1>5. \A f \in Followers : Len(chan[f]) \in Nat
  BY <1>3, LenProperties
<1>6. /\ sent \in Nat /\ cursor \in Nat /\ cursor <= Len(followers) + 1 /\ sent <= MaxSends
  BY <1>1, <1>4 DEF BroadcastInv, B!TypeOK
<1>7. /\ fpc \in [Followers -> {"out", "replaying", "in", "leaving", "left"}]
      /\ room \in [Followers -> {0, Capacity, B!MemoryCapacity}]
      /\ replayed \in [Followers -> 0..MemoryLen] /\ recalled \in [Followers -> 0..MemoryLen]
      /\ joined \in [Followers -> 0..sent] /\ got \in [Followers -> 0..sent]
      /\ \A f \in Followers : Len(chan[f]) <= room[f] /\ recalled[f] <= replayed[f]
  BY DEF BroadcastInv, B!TypeOK
<1>8. \A f \in Followers : room[f] \in Nat
  <2>1. \A f \in Followers : room[f] \in {0, Capacity, B!MemoryCapacity}
    BY <1>7
  <2> QED
    BY <1>1, <1>2, <2>1
<1>9. /\ replayed \in [Followers -> Nat] /\ recalled \in [Followers -> Nat]
      /\ joined \in [Followers -> Nat] /\ got \in [Followers -> Nat]
  BY <1>1, <1>6, <1>7
<1> QED
  BY <1>1, <1>2, <1>3, <1>4, <1>5, <1>6, <1>7, <1>8, <1>9

\* A follower is registered, unless the broadcast is closed.
LEMMA RegisterKeeps ==
  ASSUME BroadcastInv, ~panicked, NEW f \in Followers, NEW place \in {"in", "replaying"},
         NEW capacity \in {Capacity, B!MemoryCapacity}, B!Register(f, capacity, place)
  PROVE  BroadcastInv'
<1>1. /\ fpc[f] = "out" /\ cursor = 0
      /\ fpc' = [fpc EXCEPT ![f] = IF closed THEN "left" ELSE place]
      /\ room' = [room EXCEPT ![f] = capacity]
      /\ joined' = [joined EXCEPT ![f] = sent]
      /\ UNCHANGED <<closed, cursor, sent, chan, chanClosed, replayed, panicked, got, recalled>>
  BY DEF B!Register, B!Unlocked
<1>2. followers' = IF closed THEN followers ELSE Append(followers, f)
  BY DEF B!Register
<1>3. /\ chan[f] = <<>> /\ got[f] = 0 /\ recalled[f] = 0 /\ replayed[f] = 0
      /\ \A p \in DOMAIN followers : followers[p] # f
  BY <1>1 DEF BroadcastInv, ListInv
<1>4. /\ joined'[f] = sent /\ fpc'[f] \in {place, "left"} /\ (~closed => fpc'[f] = place)
      /\ \A g \in Followers : g # f => joined'[g] = joined[g] /\ fpc'[g] = fpc[g] /\ room'[g] = room[g]
      /\ room'[f] = capacity
  BY <1>1, BroadcastTypes
<1>5. Holds(chan[f], joined'[f] + got[f], sent, recalled[f], replayed[f])
      /\ joined'[f] + got[f] <= sent
  <2>1. sent + 0 = sent
    BY BroadcastTypes
  <2> QED
    BY <1>3, <1>4, <2>1, NothingSent, BroadcastTypes
<1>6. /\ followers' \in Seq(Followers) /\ Len(followers') >= Len(followers)
      /\ IsInjective(followers')
      /\ \A p \in DOMAIN followers' : \/ p \in DOMAIN followers /\ followers'[p] = followers[p]
                                      \/ ~closed /\ followers'[p] = f
  <2>1. CASE closed
    BY <1>2, <2>1, BroadcastTypes DEF BroadcastInv, ListInv
  <2>2. CASE ~closed
    <3>1. f \notin Range(followers)
      BY <1>3 DEF Range
    <3>2. IsInjective(Append(followers, f))
      BY <3>1, SendRange, BroadcastTypes DEF BroadcastInv, ListInv
    <3>3. /\ Append(followers, f) \in Seq(Followers)
          /\ Len(Append(followers, f)) = Len(followers) + 1
          /\ DOMAIN Append(followers, f) = 1..(Len(followers) + 1)
          /\ \A p \in 1..Len(followers) : Append(followers, f)[p] = followers[p]
          /\ Append(followers, f)[Len(followers) + 1] = f
      BY BroadcastTypes, AppendProperties, LenProperties
    <3> QED
      BY <1>2, <2>2, <3>2, <3>3, BroadcastTypes
  <2> QED
    BY <2>1, <2>2
<1>7. B!TypeOK'
  <2>1. /\ fpc' \in [Followers -> {"out", "replaying", "in", "leaving", "left"}]
        /\ room' \in [Followers -> {0, Capacity, B!MemoryCapacity}]
        /\ joined' \in [Followers -> 0..sent]
    <3>1. sent \in 0..sent /\ joined \in [Followers -> 0..sent]
      BY BroadcastTypes DEF BroadcastInv, B!TypeOK
    <3>2. joined' \in [Followers -> 0..sent]
      BY <1>1, <3>1
    <3>3. fpc' \in [Followers -> {"out", "replaying", "in", "leaving", "left"}]
      BY <1>1, BroadcastTypes
    <3>4. room' \in [Followers -> {0, Capacity, B!MemoryCapacity}]
      BY <1>1, BroadcastTypes
    <3> QED
      BY <3>2, <3>3, <3>4
  <2>2. cursor' \in 0..(Len(followers') + 1)
    BY <1>1, <1>6, LenProperties
  <2>3. \A g \in Followers : Len(chan[g]) <= room'[g]
    <3>1. Len(chan[f]) = 0 /\ capacity \in Nat
      BY <1>3, BroadcastTypes, EmptySeq
    <3>2. \A g \in Followers : Len(chan[g]) <= room[g]
      BY BroadcastTypes
    <3> QED
      BY <1>4, <3>1, <3>2
  <2> QED
    BY <1>1, <1>6, <2>1, <2>2, <2>3 DEF BroadcastInv, B!TypeOK
<1>8. ListInv'
  <2>1. \A p \in DOMAIN followers' :
          ~chanClosed'[followers'[p]] /\ fpc'[followers'[p]] \notin {"out", "left"}
    <3> SUFFICES ASSUME NEW p \in DOMAIN followers'
                 PROVE  ~chanClosed[followers'[p]] /\ fpc'[followers'[p]] \notin {"out", "left"}
      BY <1>1
    <3>1. CASE p \in DOMAIN followers /\ followers'[p] = followers[p]
      BY <1>3, <1>4, <3>1, BroadcastTypes DEF BroadcastInv, ListInv
    <3>2. CASE ~closed /\ followers'[p] = f
      <4>1. ~chanClosed[f]
        BY <1>1, <3>2 DEF BroadcastInv, ListInv
      <4> QED
        BY <1>4, <3>2, <4>1
    <3> QED
      BY <1>6, <3>1, <3>2
  <2>2. closed' => followers' = <<>> /\ cursor' = 0
    BY <1>1, <1>2 DEF BroadcastInv, ListInv
  <2>3. \A g \in Followers : chanClosed'[g] => closed' \/ fpc'[g] = "left"
    BY <1>1, <1>4 DEF BroadcastInv, ListInv
  <2>4. \A g \in Followers : fpc'[g] = "out" =>
          chan'[g] = <<>> /\ got'[g] = 0 /\ recalled'[g] = 0 /\ replayed'[g] = 0
    BY <1>1, <1>3, <1>4 DEF BroadcastInv, ListInv
  <2> QED
    BY <1>1, <1>6, <2>1, <2>2, <2>3, <2>4 DEF BroadcastInv, ListInv
<1>9. ChannelsInv'
  <2> SUFFICES ASSUME NEW g \in Followers
               PROVE  \E upto \in (joined'[g] + got[g])..sent :
                        Holds(chan[g], joined'[g] + got[g], upto, recalled[g], replayed[g])
    BY <1>1 DEF ChannelsInv
  <2>1. CASE g = f
    <3>1. sent \in (joined'[f] + got[f])..sent
      BY <1>4, <1>5, BroadcastTypes
    <3> QED
      BY <1>5, <2>1, <3>1
  <2>2. CASE g # f
    BY <1>4, <2>2 DEF BroadcastInv, ChannelsInv
  <2> QED
    BY <2>1, <2>2
<1>10. RowsInv'
  <2> SUFFICES ASSUME NEW p \in DOMAIN followers'
               PROVE  LET g == followers'[p]
                      IN /\ joined'[g] + got[g] <= sent
                         /\ Holds(chan[g], joined'[g] + got[g], sent, recalled[g], replayed[g])
    BY <1>1 DEF RowsInv, SentTo
  <2>1. CASE p \in DOMAIN followers /\ followers'[p] = followers[p]
    BY <1>1, <1>3, <1>4, <2>1, BroadcastTypes DEF BroadcastInv, RowsInv, SentTo
  <2>2. CASE followers'[p] = f
    BY <1>5, <2>2
  <2> QED
    BY <1>6, <2>1, <2>2
<1>11. B!PanicOnlyInReplay'
  BY <1>1 DEF B!PanicOnlyInReplay
<1> QED
  BY <1>7, <1>8, <1>9, <1>10, <1>11 DEF BroadcastInv

\* The replay of a memory.
LEMMA ReplayKeeps ==
  ASSUME BroadcastInv, ~panicked, NEW f \in Followers, B!Replay(f)
  PROVE  BroadcastInv'
<1>1. /\ fpc[f] = "replaying" /\ replayed[f] < MemoryLen
      /\ UNCHANGED <<followers, closed, cursor, sent, fpc, room, chanClosed, got, recalled, joined>>
  BY DEF B!Replay
<1>2. CASE chanClosed[f] /\ panicked' = TRUE /\ UNCHANGED <<chan, replayed>>
  <2>1. closed
    BY <1>1, <1>2 DEF BroadcastInv, ListInv
  <2>2. B!TypeOK' /\ ListInv'
    BY <1>1, <1>2 DEF BroadcastInv, B!TypeOK, ListInv
  <2>3. ChannelsInv' /\ RowsInv'
    BY <1>1, <1>2 DEF BroadcastInv, ChannelsInv, RowsInv, SentTo
  <2>4. B!PanicOnlyInReplay'
    BY <1>1, <2>1 DEF B!PanicOnlyInReplay
  <2> QED
    BY <2>2, <2>3, <2>4 DEF BroadcastInv
<1>3. CASE /\ ~chanClosed[f] /\ Len(chan[f]) < room[f]
           /\ chan' = [chan EXCEPT ![f] = Append(chan[f], -(replayed[f] + 1))]
           /\ replayed' = [replayed EXCEPT ![f] = replayed[f] + 1]
           /\ UNCHANGED panicked
  <2>1. /\ chan'[f] = Append(chan[f], -(replayed[f] + 1)) /\ replayed'[f] = replayed[f] + 1
        /\ \A g \in Followers : g # f => chan'[g] = chan[g] /\ replayed'[g] = replayed[g]
    BY <1>3, BroadcastTypes
  <2>2. ASSUME NEW a \in Nat, NEW b \in Nat, Holds(chan[f], a, b, recalled[f], replayed[f])
        PROVE  /\ chan'[f] \in Seq(Int) /\ Len(chan'[f]) = Len(chan[f]) + 1
               /\ Holds(chan'[f], a, b, recalled[f], replayed'[f])
    <3>1. /\ chan[f] \in Seq(Int) /\ recalled[f] \in Nat /\ replayed[f] \in Nat
          /\ recalled[f] <= replayed[f]
      BY BroadcastTypes
    <3> QED
      BY <2>1, <2>2, <3>1, MemorySent
  <2>3. PICK upto \in (joined[f] + got[f])..sent :
               Holds(chan[f], joined[f] + got[f], upto, recalled[f], replayed[f])
    BY DEF BroadcastInv, ChannelsInv
  <2>4. /\ joined[f] + got[f] \in Nat /\ upto \in Nat
    BY <2>3, BroadcastTypes
  <2>5. /\ chan'[f] \in Seq(Int) /\ Len(chan'[f]) = Len(chan[f]) + 1
        /\ Holds(chan'[f], joined[f] + got[f], upto, recalled[f], replayed'[f])
    BY <2>2, <2>3, <2>4
  <2>6. B!TypeOK'
    <3>1. chan' \in [Followers -> Seq(Int)]
      BY <1>3, <2>1, <2>5, BroadcastTypes
    <3>2. replayed' \in [Followers -> 0..MemoryLen]
      <4>1. replayed[f] + 1 \in 0..MemoryLen
        BY <1>1, BroadcastTypes
      <4> QED
        BY <1>3, <4>1 DEF BroadcastInv, B!TypeOK
    <3>3. \A g \in Followers : Len(chan'[g]) <= room[g] /\ recalled[g] <= replayed'[g]
      <4>1. Len(chan[f]) + 1 <= room[f] /\ recalled[f] <= replayed[f] + 1
        BY <1>3, BroadcastTypes
      <4> QED
        BY <2>1, <2>5, <4>1, BroadcastTypes
    <3> QED
      BY <1>1, <1>3, <3>1, <3>2, <3>3 DEF BroadcastInv, B!TypeOK
  <2>7. ListInv'
    BY <1>1, <2>1 DEF BroadcastInv, ListInv
  <2>8. ChannelsInv'
    <3> SUFFICES ASSUME NEW g \in Followers
                 PROVE  \E u \in (joined[g] + got[g])..sent :
                          Holds(chan'[g], joined[g] + got[g], u, recalled[g], replayed'[g])
      BY <1>1 DEF ChannelsInv
    <3>1. CASE g = f
      BY <2>3, <2>5, <3>1
    <3>2. CASE g # f
      BY <2>1, <3>2 DEF BroadcastInv, ChannelsInv
    <3> QED
      BY <3>1, <3>2
  <2>9. RowsInv'
    <3> SUFFICES ASSUME NEW p \in DOMAIN followers
                 PROVE  LET g == followers[p]
                        IN /\ joined[g] + got[g] <= SentTo(p)
                           /\ Holds(chan'[g], joined[g] + got[g], SentTo(p), recalled[g], replayed'[g])
      BY <1>1 DEF RowsInv, SentTo
    <3>1. /\ joined[followers[p]] + got[followers[p]] <= SentTo(p)
          /\ Holds(chan[followers[p]], joined[followers[p]] + got[followers[p]], SentTo(p),
                   recalled[followers[p]], replayed[followers[p]])
      BY DEF BroadcastInv, RowsInv
    <3>2. CASE followers[p] = f
      <4>1. SentTo(p) \in Nat
        <5>1. cursor # 0 => sent # 0
          BY DEF BroadcastInv, ListInv
        <5>2. sent \in Nat
          BY BroadcastTypes
        <5> QED
          BY <5>1, <5>2 DEF SentTo
      <4> QED
        BY <2>2, <2>4, <3>1, <3>2, <4>1
    <3>3. CASE followers[p] # f
      BY <2>1, <3>1, <3>3, BroadcastTypes
    <3> QED
      BY <3>2, <3>3
  <2>10. B!PanicOnlyInReplay'
    BY <1>3 DEF B!PanicOnlyInReplay
  <2> QED
    BY <2>6, <2>7, <2>8, <2>9, <2>10 DEF BroadcastInv
<1> QED
  BY <1>2, <1>3 DEF B!Replay
\* Steps that move a goroutine only.
LEMMA MovesKeep ==
  ASSUME BroadcastInv, ~panicked, NEW f \in Followers, B!ReplayEnds(f) \/ B!CallUnfollow(f)
  PROVE  BroadcastInv'
<1>1. PICK place \in {"in", "leaving"} : fpc' = [fpc EXCEPT ![f] = place]
  BY DEF B!ReplayEnds, B!CallUnfollow
<1>2. /\ fpc[f] \in {"replaying", "in"}
      /\ UNCHANGED <<followers, closed, cursor, sent, room, chan, chanClosed, replayed, panicked,
                     got, recalled, joined>>
  BY DEF B!ReplayEnds, B!CallUnfollow
<1>3. fpc'[f] = place /\ \A g \in Followers : g # f => fpc'[g] = fpc[g]
  BY <1>1, BroadcastTypes
<1>4. B!TypeOK'
  <2>1. fpc' \in [Followers -> {"out", "replaying", "in", "leaving", "left"}]
    BY <1>1, BroadcastTypes
  <2> QED
    BY <1>2, <2>1 DEF BroadcastInv, B!TypeOK
<1>5. ListInv'
  <2>1. \A g \in Followers : /\ fpc'[g] \in {"out", "left"} => fpc[g] = fpc'[g]
                             /\ fpc[g] = "left" => fpc'[g] = "left"
    BY <1>2, <1>3
  <2>2. \A p \in DOMAIN followers : followers[p] \in Followers
    BY BroadcastTypes
  <2> QED
    BY <1>2, <2>1, <2>2 DEF BroadcastInv, ListInv
<1>6. ChannelsInv' /\ RowsInv' /\ B!PanicOnlyInReplay'
  BY <1>2 DEF BroadcastInv, ChannelsInv, RowsInv, SentTo, B!PanicOnlyInReplay
<1> QED
  BY <1>4, <1>5, <1>6 DEF BroadcastInv

\* A value is sent: it has come to no follower yet.
LEMMA SendKeeps == ASSUME BroadcastInv, ~panicked, B!Send PROVE BroadcastInv'
<1>1. /\ cursor = 0 /\ ~closed /\ sent < MaxSends /\ sent' = sent + 1 /\ cursor' = 1
      /\ UNCHANGED <<followers, closed, fpc, room, chan, chanClosed, replayed, panicked,
                     got, recalled, joined>>
  BY DEF B!Send, B!Unlocked
<1>2. sent \in Nat /\ MaxSends \in Nat /\ Len(followers) \in Nat /\ DOMAIN followers = 1..Len(followers)
  BY BroadcastTypes
<1>3. B!TypeOK'
  <2>1. sent' \in 0..MaxSends /\ cursor' \in 0..(Len(followers) + 1)
    BY <1>1, <1>2
  <2>2. joined \in [Followers -> 0..sent'] /\ got \in [Followers -> 0..sent']
    <3>1. 0..sent \subseteq 0..sent'
      BY <1>1, <1>2
    <3> QED
      BY <3>1 DEF BroadcastInv, B!TypeOK
  <2> QED
    BY <1>1, <2>1, <2>2 DEF BroadcastInv, B!TypeOK
<1>4. ListInv'
  BY <1>1, <1>2 DEF BroadcastInv, ListInv
<1>5. ChannelsInv'
  <2> SUFFICES ASSUME NEW g \in Followers
               PROVE  \E upto \in (joined[g] + got[g])..sent' :
                        Holds(chan[g], joined[g] + got[g], upto, recalled[g], replayed[g])
    BY <1>1 DEF ChannelsInv
  <2>1. PICK upto \in (joined[g] + got[g])..sent :
               Holds(chan[g], joined[g] + got[g], upto, recalled[g], replayed[g])
    BY DEF BroadcastInv, ChannelsInv
  <2>2. joined[g] \in Nat /\ got[g] \in Nat
    BY BroadcastTypes
  <2>3. upto \in (joined[g] + got[g])..sent'
    BY <1>1, <1>2, <2>2
  <2> QED
    BY <2>1, <2>3
<1>6. RowsInv'
  <2>1. ASSUME NEW p \in DOMAIN followers PROVE SentTo(p)' = sent /\ SentTo(p) = sent
    BY <1>1, <1>2 DEF SentTo
  <2> QED
    BY <1>1, <2>1 DEF BroadcastInv, RowsInv
<1>7. B!PanicOnlyInReplay'
  BY <1>1 DEF B!PanicOnlyInReplay
<1> QED
  BY <1>3, <1>4, <1>5, <1>6, <1>7 DEF BroadcastInv

\* It comes to the next follower, whose channel is open.
LEMMA SendToNextKeeps == ASSUME BroadcastInv, ~panicked, B!SendToNext PROVE BroadcastInv'
<1> DEFINE f == followers[cursor]
<1>1. /\ cursor \in DOMAIN followers /\ f \in Followers /\ sent \in Nat /\ sent # 0 /\ cursor \in Nat
      /\ cursor # 0 /\ DOMAIN followers = 1..Len(followers) /\ Len(followers) \in Nat
  <2>1. /\ DOMAIN followers = 1..Len(followers) /\ Len(followers) \in Nat /\ sent \in Nat
        /\ \A p \in DOMAIN followers : followers[p] \in Followers
    BY BroadcastTypes
  <2>2. cursor \in DOMAIN followers /\ (cursor # 0 => sent # 0)
    BY DEF B!SendToNext, BroadcastInv, ListInv
  <2> QED
    BY <2>1, <2>2
<1>2. ~chanClosed[f]
  BY <1>1 DEF BroadcastInv, ListInv
<1>3. /\ Len(chan[f]) < room[f]
      /\ chan' = [chan EXCEPT ![f] = Append(chan[f], sent)]
      /\ cursor' = cursor + 1
      /\ UNCHANGED <<followers, closed, sent, fpc, room, chanClosed, replayed, panicked, got,
                     recalled, joined>>
  BY <1>2 DEF B!SendToNext
<1>4. /\ chan'[f] = Append(chan[f], sent)
      /\ \A g \in Followers : g # f => chan'[g] = chan[g]
  BY <1>1, <1>3, BroadcastTypes
<1>5. /\ joined[f] + got[f] <= sent - 1
      /\ Holds(chan[f], joined[f] + got[f], sent - 1, recalled[f], replayed[f])
  <2>1. SentTo(cursor) = sent - 1
    BY <1>1 DEF SentTo
  <2> QED
    BY <1>1, <2>1 DEF BroadcastInv, RowsInv
<1>6. /\ chan'[f] \in Seq(Int) /\ Len(chan'[f]) = Len(chan[f]) + 1
      /\ Holds(chan'[f], joined[f] + got[f], sent, recalled[f], replayed[f])
  <2>1. /\ joined[f] + got[f] \in Nat /\ sent - 1 \in Nat /\ (sent - 1) + 1 = sent
        /\ recalled[f] \in Nat /\ replayed[f] \in Nat /\ chan[f] \in Seq(Int)
    <3>1. /\ joined[f] \in Nat /\ got[f] \in Nat /\ recalled[f] \in Nat /\ replayed[f] \in Nat
          /\ chan[f] \in Seq(Int)
      <4> HIDE DEF f
      <4> QED
        BY <1>1, BroadcastTypes
    <3> QED
      BY <1>1, <3>1
  <2>2. \A a, b, m, n \in Nat : a <= b /\ Holds(chan[f], a, b, m, n) =>
          /\ Append(chan[f], b + 1) \in Seq(Int) /\ Holds(Append(chan[f], b + 1), a, b + 1, m, n)
          /\ Len(Append(chan[f], b + 1)) = Len(chan[f]) + 1
    BY <2>1, ValueSent
  <2> QED
    BY <1>4, <1>5, <2>1, <2>2
<1>7. joined[f] + got[f] \in Nat /\ joined[f] + got[f] <= sent
  <2>1. joined[f] \in Nat /\ got[f] \in Nat
    <3> HIDE DEF f
    <3> QED
      BY <1>1, BroadcastTypes
  <2> QED
    BY <1>1, <1>5, <2>1
<1>8. \A p \in DOMAIN followers : followers[p] = f => p = cursor
  BY <1>1 DEF BroadcastInv, ListInv, IsInjective
<1>9. ASSUME NEW p \in DOMAIN followers
      PROVE  SentTo(p)' = IF p = cursor THEN sent ELSE SentTo(p)
  BY <1>1, <1>3 DEF SentTo
<1> HIDE DEF f
<1>10. B!TypeOK'
  <2>1. chan' \in [Followers -> Seq(Int)]
    BY <1>1, <1>3, <1>4, <1>6, BroadcastTypes
  <2>2. \A g \in Followers : Len(chan'[g]) <= room[g]
    <3>1. room[f] \in Nat /\ Len(chan[f]) \in Nat /\ \A g \in Followers : Len(chan[g]) <= room[g]
      BY <1>1, BroadcastTypes
    <3>2. Len(chan[f]) + 1 <= room[f]
      BY <1>3, <3>1
    <3> QED
      BY <1>4, <1>6, <3>1, <3>2
  <2>3. cursor' \in 0..(Len(followers) + 1)
    BY <1>1, <1>3
  <2> QED
    BY <1>3, <2>1, <2>2, <2>3 DEF BroadcastInv, B!TypeOK
<1>11. ListInv'
  <2>1. ~closed
    BY <1>1 DEF BroadcastInv, ListInv
  <2>2. fpc[f] # "out"
    BY <1>1 DEF BroadcastInv, ListInv, f
  <2> QED
    BY <1>1, <1>3, <1>4, <2>1, <2>2 DEF BroadcastInv, ListInv
<1>12. ChannelsInv'
  <2> SUFFICES ASSUME NEW g \in Followers
               PROVE  \E upto \in (joined[g] + got[g])..sent :
                        Holds(chan'[g], joined[g] + got[g], upto, recalled[g], replayed[g])
    BY <1>3 DEF ChannelsInv
  <2>1. CASE g = f
    <3>1. sent \in (joined[f] + got[f])..sent
      BY <1>1, <1>7
    <3> QED
      BY <1>6, <2>1, <3>1
  <2>2. CASE g # f
    BY <1>4, <2>2 DEF BroadcastInv, ChannelsInv
  <2> QED
    BY <2>1, <2>2
<1>13. RowsInv'
  <2> SUFFICES ASSUME NEW p \in DOMAIN followers
               PROVE  LET g == followers[p]
                      IN /\ joined[g] + got[g] <= SentTo(p)'
                         /\ Holds(chan'[g], joined[g] + got[g], SentTo(p)', recalled[g], replayed[g])
    BY <1>3 DEF RowsInv
  <2>1. CASE p = cursor
    BY <1>6, <1>7, <1>9, <2>1 DEF f
  <2>2. CASE p # cursor
    <3>1. chan'[followers[p]] = chan[followers[p]]
      BY <1>4, <1>8, <2>2, BroadcastTypes
    <3> QED
      BY <1>9, <2>2, <3>1 DEF BroadcastInv, RowsInv
  <2> QED
    BY <2>1, <2>2
<1>14. B!PanicOnlyInReplay'
  BY <1>3 DEF B!PanicOnlyInReplay
<1> QED
  BY <1>10, <1>11, <1>12, <1>13, <1>14 DEF BroadcastInv

\* Send returns: the value has come to all followers.
LEMMA SendReturnsKeeps == ASSUME BroadcastInv, ~panicked, B!SendReturns PROVE BroadcastInv'
<1>1. /\ cursor > Len(followers) /\ cursor' = 0
      /\ UNCHANGED <<followers, closed, sent, fpc, room, chan, chanClosed, replayed, panicked, got,
                     recalled, joined>>
  BY DEF B!SendReturns
<1>2. cursor \in Nat /\ Len(followers) \in Nat /\ DOMAIN followers = 1..Len(followers)
  BY BroadcastTypes
<1>3. B!TypeOK' /\ ListInv'
  <2>1. cursor' \in 0..(Len(followers) + 1)
    BY <1>1, <1>2
  <2> QED
    BY <1>1, <2>1 DEF BroadcastInv, B!TypeOK, ListInv
<1>4. ASSUME NEW p \in DOMAIN followers PROVE SentTo(p)' = SentTo(p)
  BY <1>1, <1>2 DEF SentTo
<1>5. ChannelsInv' /\ RowsInv' /\ B!PanicOnlyInReplay'
  BY <1>1, <1>4 DEF BroadcastInv, ChannelsInv, RowsInv, B!PanicOnlyInReplay
<1> QED
  BY <1>3, <1>5 DEF BroadcastInv
\* The last follower takes the place of the one that leaves.
LEMMA RemovedFromList ==
  ASSUME NEW S, NEW list \in Seq(S), IsInjective(list), NEW i \in DOMAIN list,
         NEW r, r = B!SwapRemoved(list, i)
  PROVE  /\ r \in Seq(S) /\ IsInjective(r)
         /\ \A p \in DOMAIN r : r[p] # list[i] /\ \E k \in DOMAIN list : list[k] = r[p]
<1> DEFINE n == Len(list)
           swapped == [list EXCEPT ![i] = list[n]]
           rest == SubSeq(swapped, 1, n - 1)
<1>1. n \in Nat /\ DOMAIN list = 1..n /\ i \in 1..n /\ n \in DOMAIN list /\ list[n] \in S
      /\ n - 1 \in Int /\ 1 \in Int
  <2>1. n \in Nat /\ DOMAIN list = 1..n
    BY LenProperties
  <2>2. n \in 1..n /\ i \in 1..n
    BY <2>1
  <2> QED
    BY <2>1, <2>2, ElementOfSeq
<1>2. swapped \in Seq(S) /\ Len(swapped) = n
      /\ \A k \in 1..n : swapped[k] = IF k = i THEN list[n] ELSE list[k]
  BY <1>1, ExceptSeq
<1>3. r = rest
  BY <1>2 DEF B!SwapRemoved, B!Front, B!Last
<1>4. \A k \in 1..(n - 1) : swapped[k] \in S
  <2>1. \A k \in 1..n : list[k] \in S
    BY <1>1, ElementOfSeq
  <2> QED
    BY <1>1, <1>2, <2>1
<1>5. /\ rest \in Seq(S) /\ Len(rest) = IF 1 <= n - 1 THEN n - 1 - 1 + 1 ELSE 0
      /\ \A k \in 1..(n - 1 - 1 + 1) : rest[k] = swapped[1 + k - 1]
  <2> HIDE DEF swapped, n
  <2> QED
    BY <1>1, <1>4, SubSeqProperties
<1>6. /\ Len(rest) = n - 1
      /\ \A k \in 1..(n - 1) : rest[k] = swapped[k]
  <2> HIDE DEF swapped, rest
  <2>1. n >= 1
    BY <1>1
  <2>2. \A k \in 1..(n - 1) : k \in 1..(n - 1 - 1 + 1) /\ 1 + k - 1 = k
    BY <1>1
  <2>3. Len(rest) = n - 1
    <3> HIDE DEF n
    <3> QED
      BY <1>1, <1>5, <2>1
  <2>4. ASSUME NEW k \in 1..(n - 1) PROVE rest[k] = swapped[k]
    <3>1. rest[k] = swapped[1 + k - 1]
      BY <1>5, <2>2
    <3> QED
      BY <2>2, <3>1
  <2> QED
    BY <2>3, <2>4
<1>7. DOMAIN rest = 1..(n - 1)
  BY <1>5, <1>6, LenProperties
<1>8. ASSUME NEW p \in 1..(n - 1)
      PROVE  /\ rest[p] = IF p = i THEN list[n] ELSE list[p]
             /\ p \in 1..n /\ p # n
  BY <1>1, <1>2, <1>6
<1> HIDE DEF rest, swapped, n
<1>9. IsInjective(rest)
  BY <1>1, <1>7, <1>8 DEF IsInjective
<1>10. ASSUME NEW p \in DOMAIN rest
       PROVE  rest[p] # list[i] /\ \E k \in DOMAIN list : list[k] = rest[p]
  BY <1>1, <1>7, <1>8 DEF IsInjective
<1> QED
  BY <1>3, <1>5, <1>9, <1>10

\* A follower reads.
LEMMA ReadKeeps ==
  ASSUME BroadcastInv, ~panicked, NEW f \in Followers, B!Read(f)
  PROVE  BroadcastInv'
<1> DEFINE h == Head(chan[f])
<1>1. /\ fpc[f] = "in" /\ chan[f] # <<>>
      /\ chan' = [chan EXCEPT ![f] = Tail(chan[f])]
      /\ UNCHANGED <<followers, closed, cursor, sent, fpc, room, chanClosed, replayed,
                     panicked, joined>>
  BY DEF B!Read
<1>2. /\ chan'[f] = Tail(chan[f])
      /\ \A g \in Followers : g # f => chan'[g] = chan[g] /\ got'[g] = got[g] /\ recalled'[g] = recalled[g]
      /\ got'[f] = IF h > 0 THEN got[f] + 1 ELSE got[f]
      /\ recalled'[f] = IF h > 0 THEN recalled[f] ELSE recalled[f] + 1
      /\ got' = [got EXCEPT ![f] = got'[f]] /\ recalled' = [recalled EXCEPT ![f] = recalled'[f]]
  <2>1. CASE h > 0
    <3>1. got' = [got EXCEPT ![f] = got[f] + 1] /\ recalled' = recalled
      BY <2>1 DEF B!Read
    <3> QED
      BY <1>1, <2>1, <3>1, BroadcastTypes
  <2>2. CASE ~(h > 0)
    <3>1. recalled' = [recalled EXCEPT ![f] = recalled[f] + 1] /\ got' = got
      BY <2>2 DEF B!Read
    <3> QED
      BY <1>1, <2>2, <3>1, BroadcastTypes
  <2> QED
    BY <2>1, <2>2
<1>3. /\ joined[f] \in Nat /\ got[f] \in Nat /\ recalled[f] \in Nat /\ replayed[f] \in Nat
      /\ chan[f] \in Seq(Int) /\ sent \in Nat
  BY BroadcastTypes
\* A row of values goes as far as before.
<1>4. ASSUME NEW upto \in Nat, joined[f] + got[f] <= upto,
             Holds(chan[f], joined[f] + got[f], upto, recalled[f], replayed[f])
      PROVE  /\ chan'[f] \in Seq(Int) /\ Len(chan'[f]) = Len(chan[f]) - 1
             /\ joined[f] + got'[f] <= upto /\ got'[f] \in Nat
             /\ recalled'[f] <= replayed[f] /\ recalled'[f] \in Nat
             /\ Holds(chan'[f], joined[f] + got'[f], upto, recalled'[f], replayed[f])
  <2>1. recalled[f] <= replayed[f] /\ joined[f] + got[f] \in Nat
    BY <1>3, BroadcastTypes
  <2>2. /\ Tail(chan[f]) \in Seq(Int) /\ Len(Tail(chan[f])) = Len(chan[f]) - 1
        /\ h > 0 => /\ joined[f] + got[f] < upto
                    /\ Holds(Tail(chan[f]), joined[f] + got[f] + 1, upto, recalled[f], replayed[f])
        /\ ~(h > 0) => /\ recalled[f] < replayed[f]
                       /\ Holds(Tail(chan[f]), joined[f] + got[f], upto, recalled[f] + 1, replayed[f])
    BY <1>1, <1>3, <1>4, <2>1, ReadFirst
  <2> HIDE DEF h
  <2>3. CASE h > 0
    <3>1. joined[f] + (got[f] + 1) = joined[f] + got[f] + 1
      BY <1>3
    <3> QED
      BY <1>2, <1>3, <2>1, <2>2, <2>3, <3>1
  <2>4. CASE ~(h > 0)
    BY <1>2, <1>3, <1>4, <2>1, <2>2, <2>4
  <2> QED
    BY <2>3, <2>4
<1> HIDE DEF h
<1>5. PICK upto \in (joined[f] + got[f])..sent :
             Holds(chan[f], joined[f] + got[f], upto, recalled[f], replayed[f])
  BY DEF BroadcastInv, ChannelsInv
<1>6. upto \in Nat /\ joined[f] + got[f] <= upto /\ upto <= sent
  BY <1>3, <1>5
<1>7. /\ chan'[f] \in Seq(Int) /\ Len(chan'[f]) = Len(chan[f]) - 1
      /\ joined[f] + got'[f] <= upto /\ got'[f] \in Nat
      /\ recalled'[f] <= replayed[f] /\ recalled'[f] \in Nat
      /\ Holds(chan'[f], joined[f] + got'[f], upto, recalled'[f], replayed[f])
  BY <1>4, <1>5, <1>6
<1>8. B!TypeOK'
  <2>1. chan' \in [Followers -> Seq(Int)]
    BY <1>1, <1>2, <1>7, BroadcastTypes
  <2>2. got' \in [Followers -> 0..sent]
    <3>1. got'[f] \in 0..sent
      BY <1>3, <1>6, <1>7
    <3> QED
      BY <1>2, <3>1 DEF BroadcastInv, B!TypeOK
  <2>3. recalled' \in [Followers -> 0..MemoryLen]
    <3>1. recalled'[f] \in 0..MemoryLen
      <4>1. replayed[f] \in 0..MemoryLen /\ MemoryLen \in Nat
        BY BroadcastTypes DEF BroadcastInv, B!TypeOK
      <4> QED
        BY <1>7, <4>1
    <3> QED
      BY <1>2, <3>1 DEF BroadcastInv, B!TypeOK
  <2>4. \A g \in Followers : Len(chan'[g]) <= room[g] /\ recalled'[g] <= replayed[g]
    <3>1. Len(chan[f]) \in Nat /\ room[f] \in Nat /\ Len(chan[f]) <= room[f]
      BY BroadcastTypes
    <3>2. Len(chan'[f]) <= room[f]
      BY <1>7, <3>1
    <3> QED
      BY <1>2, <1>7, <3>2 DEF BroadcastInv, B!TypeOK
  <2> QED
    BY <1>1, <2>1, <2>2, <2>3, <2>4 DEF BroadcastInv, B!TypeOK
<1>9. ListInv'
  BY <1>1, <1>2 DEF BroadcastInv, ListInv
<1>10. ChannelsInv'
  <2> SUFFICES ASSUME NEW g \in Followers
               PROVE  \E u \in (joined[g] + got'[g])..sent :
                        Holds(chan'[g], joined[g] + got'[g], u, recalled'[g], replayed[g])
    BY <1>1 DEF ChannelsInv
  <2>1. CASE g = f
    <3>1. upto \in (joined[f] + got'[f])..sent
      BY <1>3, <1>6, <1>7
    <3> QED
      BY <1>7, <2>1, <3>1
  <2>2. CASE g # f
    BY <1>2, <2>2 DEF BroadcastInv, ChannelsInv
  <2> QED
    BY <2>1, <2>2
<1>11. RowsInv'
  <2> SUFFICES ASSUME NEW p \in DOMAIN followers
               PROVE  LET g == followers[p]
                      IN /\ joined[g] + got'[g] <= SentTo(p)
                         /\ Holds(chan'[g], joined[g] + got'[g], SentTo(p), recalled'[g], replayed[g])
    BY <1>1 DEF RowsInv, SentTo
  <2>1. /\ joined[followers[p]] + got[followers[p]] <= SentTo(p)
        /\ Holds(chan[followers[p]], joined[followers[p]] + got[followers[p]], SentTo(p),
                 recalled[followers[p]], replayed[followers[p]])
        /\ followers[p] \in Followers
    BY BroadcastTypes DEF BroadcastInv, RowsInv
  <2>2. CASE followers[p] = f
    <3>1. SentTo(p) \in Nat
      <4>1. cursor # 0 => sent # 0
        BY DEF BroadcastInv, ListInv
      <4> QED
        BY <1>3, <4>1 DEF SentTo
    <3> QED
      BY <1>4, <2>1, <2>2, <3>1
  <2>3. CASE followers[p] # f
    BY <1>2, <2>1, <2>3
  <2> QED
    BY <2>2, <2>3
<1>12. B!PanicOnlyInReplay'
  BY <1>1 DEF B!PanicOnlyInReplay
<1> QED
  BY <1>8, <1>9, <1>10, <1>11, <1>12 DEF BroadcastInv
\* A follower leaves: its channel is closed and it is in the list no more.
LEMMA UnfollowKeeps ==
  ASSUME BroadcastInv, ~panicked, NEW f \in Followers, B!Unfollow(f)
  PROVE  BroadcastInv'
<1>1. /\ fpc[f] = "leaving" /\ cursor = 0
      /\ fpc' = [fpc EXCEPT ![f] = "left"]
      /\ UNCHANGED <<closed, cursor, sent, room, chan, replayed, panicked, got, recalled, joined>>
  BY DEF B!Unfollow, B!Unlocked
<1>2. fpc'[f] = "left" /\ \A g \in Followers : g # f => fpc'[g] = fpc[g]
  BY <1>1, BroadcastTypes
<1>3. fpc' \in [Followers -> {"out", "replaying", "in", "leaving", "left"}]
  BY <1>1, BroadcastTypes
<1>4. /\ followers' \in Seq(Followers) /\ IsInjective(followers')
      /\ \A p \in DOMAIN followers' : /\ followers'[p] # f
                                      /\ \E k \in DOMAIN followers : followers[k] = followers'[p]
      /\ closed => followers' = <<>>
      /\ chanClosed' \in [Followers -> BOOLEAN]
      /\ \A g \in Followers : g # f => (chanClosed'[g] <=> chanClosed[g])
  <2>1. /\ followers \in Seq(Followers) /\ IsInjective(followers)
        /\ DOMAIN followers = 1..Len(followers)
        /\ chanClosed \in [Followers -> BOOLEAN]
        /\ closed => followers = <<>>
    BY BroadcastTypes DEF BroadcastInv, ListInv, B!TypeOK
  <2>2. CASE B!Contains(followers, f)
    <3>1. PICK i \in DOMAIN followers :
            i = (CHOOSE k \in DOMAIN followers : followers[k] = f) /\ followers[i] = f
      BY <2>1, <2>2 DEF B!Contains
    <3>2. followers' = B!SwapRemoved(followers, i) /\ chanClosed' = [chanClosed EXCEPT ![f] = TRUE]
      BY <2>2, <3>1 DEF B!Unfollow
    <3>3. ~closed
      BY <2>1, <3>1
    <3>4. /\ followers' \in Seq(Followers) /\ IsInjective(followers')
          /\ \A p \in DOMAIN followers' : /\ followers'[p] # f
                                          /\ \E k \in DOMAIN followers : followers[k] = followers'[p]
      <4>1. followers \in Seq(Followers) /\ IsInjective(followers)
        BY <2>1
      <4>2. PICK list : list = followers
        OBVIOUS
      <4>3. PICK r : r = B!SwapRemoved(list, i)
        OBVIOUS
      <4>4. /\ r \in Seq(Followers) /\ IsInjective(r)
            /\ \A p \in DOMAIN r : r[p] # list[i] /\ \E k \in DOMAIN list : list[k] = r[p]
        BY <4>1, <4>2, <4>3, RemovedFromList
      <4>5. followers' = r
        BY <3>2, <4>2, <4>3
      <4> QED
        BY <3>1, <4>2, <4>4, <4>5
    <3>5. /\ chanClosed' \in [Followers -> BOOLEAN]
          /\ \A g \in Followers : g # f => (chanClosed'[g] <=> chanClosed[g])
      BY <2>1, <3>2
    <3> QED
      BY <3>3, <3>4, <3>5
  <2>3. CASE ~B!Contains(followers, f)
    <3>1. UNCHANGED <<chanClosed, followers>>
      BY <2>3 DEF B!Unfollow
    <3>2. \A p \in DOMAIN followers : followers[p] # f
      BY <2>1, <2>3 DEF B!Contains
    <3>3. /\ followers' \in Seq(Followers) /\ IsInjective(followers')
          /\ closed => followers' = <<>>
          /\ chanClosed' \in [Followers -> BOOLEAN]
      <4>1. followers' = followers /\ chanClosed' = chanClosed
        BY <3>1
      <4>2. followers' \in Seq(Followers) /\ IsInjective(followers') /\ (closed => followers' = <<>>)
        BY <2>1, <4>1, Zenon
      <4>3. chanClosed' \in [Followers -> BOOLEAN]
        BY <2>1, <4>1, Zenon
      <4> QED
        BY <4>2, <4>3
    <3>4. \A p \in DOMAIN followers' : /\ followers'[p] # f
                                       /\ \E k \in DOMAIN followers : followers[k] = followers'[p]
      BY <3>1, <3>2
    <3>5. \A g \in Followers : g # f => (chanClosed'[g] <=> chanClosed[g])
      BY <3>1, Zenon
    <3> QED
      BY <3>3, <3>4, <3>5
  <2> QED
    BY <2>2, <2>3
<1>5. B!TypeOK'
  <2>1. Len(followers') \in Nat
    BY <1>4, LenProperties
  <2>2. cursor' \in 0..(Len(followers') + 1)
    BY <1>1, <2>1
  <2> QED
    BY <1>1, <1>3, <1>4, <2>2 DEF BroadcastInv, B!TypeOK
<1>6. ListInv'
  <2>1. ASSUME NEW p \in DOMAIN followers'
        PROVE  ~chanClosed'[followers'[p]] /\ fpc'[followers'[p]] \notin {"out", "left"}
    <3>1. PICK k \in DOMAIN followers : followers[k] = followers'[p]
      BY <1>4
    <3>2. followers'[p] \in Followers /\ followers'[p] # f
      BY <1>4, <3>1, BroadcastTypes
    <3>3. ~chanClosed[followers[k]] /\ fpc[followers[k]] \notin {"out", "left"}
      BY DEF BroadcastInv, ListInv
    <3> QED
      BY <1>2, <1>4, <3>1, <3>2, <3>3
  <2>2. \A g \in Followers : chanClosed'[g] => closed \/ fpc'[g] = "left"
    <3>1. \A g \in Followers : chanClosed[g] => closed \/ fpc[g] = "left"
      BY DEF BroadcastInv, ListInv
    <3> QED
      BY <1>2, <1>4, <3>1
  <2>3. \A g \in Followers : fpc'[g] = "out" =>
          chan'[g] = <<>> /\ got'[g] = 0 /\ recalled'[g] = 0 /\ replayed'[g] = 0
    BY <1>1, <1>2 DEF BroadcastInv, ListInv
  <2> QED
    BY <1>1, <1>4, <2>1, <2>2, <2>3 DEF ListInv
<1>7. ChannelsInv'
  BY <1>1 DEF BroadcastInv, ChannelsInv
<1>8. RowsInv'
  <2>1. ASSUME NEW p \in DOMAIN followers, NEW g, followers[p] = g
        PROVE  /\ joined[g] + got[g] <= sent
               /\ Holds(chan[g], joined[g] + got[g], sent, recalled[g], replayed[g])
    BY <1>1, <2>1 DEF BroadcastInv, RowsInv, SentTo
  <2>2. \A p \in DOMAIN followers' : SentTo(p)' = sent
    BY <1>1 DEF SentTo
  <2> QED
    BY <1>1, <1>4, <2>1, <2>2 DEF RowsInv
<1>9. B!PanicOnlyInReplay'
  BY <1>1 DEF B!PanicOnlyInReplay
<1> QED
  BY <1>5, <1>6, <1>7, <1>8, <1>9 DEF BroadcastInv

\* Close closes the channels of all followers.
LEMMA CloseKeeps == ASSUME BroadcastInv, ~panicked, B!Close PROVE BroadcastInv'
<1>1. /\ cursor = 0 /\ closed' = TRUE /\ followers' = <<>>
      /\ chanClosed' = [f \in Followers |-> chanClosed[f] \/ B!Contains(followers, f)]
      /\ UNCHANGED <<cursor, sent, fpc, room, chan, replayed, panicked, got, recalled, joined>>
  BY DEF B!Close, B!Unlocked
<1>2. /\ followers' \in Seq(Followers) /\ Len(followers') = 0 /\ DOMAIN followers' = {}
  BY <1>1, EmptySeq
<1>3. B!TypeOK'
  <2>1. chanClosed' \in [Followers -> BOOLEAN]
    <3>1. \A f \in Followers : chanClosed[f] \in BOOLEAN
      BY DEF BroadcastInv, B!TypeOK
    <3>2. \A f \in Followers : (chanClosed[f] \/ B!Contains(followers, f)) \in BOOLEAN
      BY <3>1 DEF B!Contains
    <3> QED
      BY <1>1, <3>2
  <2>2. cursor' \in 0..(Len(followers') + 1) /\ closed' \in BOOLEAN
    BY <1>1, <1>2
  <2> QED
    BY <1>1, <1>2, <2>1, <2>2 DEF BroadcastInv, B!TypeOK
<1>4. ListInv'
  <2>1. IsInjective(followers')
    BY <1>2 DEF IsInjective
  <2> QED
    BY <1>1, <1>2, <2>1 DEF BroadcastInv, ListInv
<1>5. ChannelsInv' /\ RowsInv' /\ B!PanicOnlyInReplay'
  <2>1. ChannelsInv'
    BY <1>1 DEF BroadcastInv, ChannelsInv
  <2>2. RowsInv' /\ B!PanicOnlyInReplay'
    BY <1>1, <1>2 DEF RowsInv, B!PanicOnlyInReplay
  <2> QED
    BY <2>1, <2>2
<1> QED
  BY <1>3, <1>4, <1>5 DEF BroadcastInv

\* Each step of the broadcast keeps its invariant.
LEMMA BroadcastNextKeeps == ASSUME BroadcastInv, [B!Next]_(B!vars) PROVE BroadcastInv'
<1>1. CASE UNCHANGED B!vars
  <2>1. UNCHANGED <<followers, closed, cursor, sent, fpc, room, chan, chanClosed, replayed,
                    panicked, got, recalled, joined>>
    BY <1>1 DEF B!vars
  <2>2. B!TypeOK' /\ ListInv'
    BY <2>1 DEF BroadcastInv, B!TypeOK, ListInv
  <2>3. ChannelsInv' /\ RowsInv' /\ B!PanicOnlyInReplay'
    BY <2>1 DEF BroadcastInv, ChannelsInv, RowsInv, SentTo, B!PanicOnlyInReplay
  <2> QED
    BY <2>2, <2>3 DEF BroadcastInv
<1>2. CASE B!Next
  <2>1. ~panicked
    BY <1>2 DEF B!Next
  <2>2. CASE B!Send \/ B!Close \/ B!SendToNext \/ B!SendReturns
    BY <2>1, <2>2, SendKeeps, CloseKeeps, SendToNextKeeps, SendReturnsKeeps
  <2>3. ASSUME NEW f \in Followers, B!Replay(f) \/ B!ReplayEnds(f) \/ B!Read(f) \/ B!Unfollow(f)
        PROVE  BroadcastInv'
    BY <2>1, <2>3, ReplayKeeps, MovesKeep, ReadKeeps, UnfollowKeeps
  <2>4. ASSUME NEW f \in Followers, B!CallUnfollow(f) PROVE BroadcastInv'
    BY <2>1, <2>4, MovesKeep
  <2>5. ASSUME NEW f \in Followers, B!Follow(f) PROVE BroadcastInv'
    BY <2>1, <2>5, RegisterKeeps DEF B!Follow
  <2>6. ASSUME NEW f \in Followers, B!FollowWithMemory(f) PROVE BroadcastInv'
    BY <2>1, <2>6, RegisterKeeps DEF B!FollowWithMemory
  <2> QED
    BY <1>2, <2>2, <2>3, <2>4, <2>5, <2>6 DEF B!Next, B!Progress
<1> QED
  BY <1>1, <1>2

\* What the invariant says of a follower's channel.
LEMMA GetAll == BroadcastInv => B!FollowersGetAll
<1> SUFFICES ASSUME BroadcastInv, NEW f \in Followers
             PROVE  /\ \E upto \in (joined[f] + got[f])..sent :
                          /\ {v \in B!ToSet(chan[f]) : v > 0} = (joined[f] + got[f] + 1)..upto
                          /\ B!Contains(followers, f) /\ cursor = 0 => upto = sent
                    /\ {v \in B!ToSet(chan[f]) : v <= 0} = {-k : k \in (recalled[f] + 1)..replayed[f]}
                    /\ Ordered(chan[f])
  BY DEF B!FollowersGetAll, Ordered
<1>1. /\ joined[f] \in Nat /\ got[f] \in Nat /\ recalled[f] \in Nat /\ replayed[f] \in Nat
      /\ sent \in Nat /\ chan[f] \in Seq(Int)
  BY BroadcastTypes
<1>2. B!ToSet(chan[f]) = Range(chan[f]) /\ Range(chan[f]) \subseteq Int
  <2>1. \A i \in DOMAIN chan[f] : chan[f][i] \in Int
    BY <1>1, ElementOfSeq, LenProperties
  <2> QED
    BY <2>1 DEF B!ToSet, Range
<1>3. ASSUME NEW upto \in Nat, NEW a \in Nat, Holds(chan[f], a, upto, recalled[f], replayed[f])
      PROVE  /\ {v \in Range(chan[f]) : v > 0} = (a + 1)..upto
             /\ {v \in Range(chan[f]) : v <= 0} = {-k : k \in (recalled[f] + 1)..replayed[f]}
             /\ Ordered(chan[f])
  <2>1. HasFromTo(chan[f], a, upto, recalled[f], replayed[f])
    BY <1>3 DEF Holds
  <2>2. {v \in Range(chan[f]) : v > 0} = (a + 1)..upto
    <3>1. ASSUME NEW v \in Int PROVE v \in Range(chan[f]) /\ v > 0 <=> v \in (a + 1)..upto
      BY <2>1 DEF HasFromTo
    <3> QED
      BY <1>2, <3>1
  <2>3. {v \in Range(chan[f]) : v <= 0} = {-k : k \in (recalled[f] + 1)..replayed[f]}
    <3>1. ASSUME NEW v \in Int
          PROVE  v \in Range(chan[f]) /\ v <= 0 <=> -v \in (recalled[f] + 1)..replayed[f]
      BY <1>1, <2>1 DEF HasFromTo
    <3>2. \A v \in Int : v = -(-v)
      OBVIOUS
    <3>3. \A k \in (recalled[f] + 1)..replayed[f] : k \in Int /\ -k \in Int /\ k = -(-k)
      BY <1>1
    <3> QED
      BY <1>2, <3>1, <3>2, <3>3
  <2> QED
    BY <1>3, <2>2, <2>3 DEF Holds
<1>4. PICK u \in (joined[f] + got[f])..sent :
             Holds(chan[f], joined[f] + got[f], u, recalled[f], replayed[f])
  BY DEF BroadcastInv, ChannelsInv
<1>5. joined[f] + got[f] \in Nat /\ u \in Nat
  BY <1>1, <1>4
<1>6. CASE B!Contains(followers, f) /\ cursor = 0
  <2>1. PICK p \in DOMAIN followers : followers[p] = f
    BY <1>6, BroadcastTypes DEF B!Contains
  <2>2. /\ joined[f] + got[f] <= sent
        /\ Holds(chan[f], joined[f] + got[f], sent, recalled[f], replayed[f])
    BY <1>6, <2>1 DEF BroadcastInv, RowsInv, SentTo
  <2>3. sent \in (joined[f] + got[f])..sent
    BY <1>1, <1>5, <2>2
  <2>4. /\ {v \in Range(chan[f]) : v > 0} = (joined[f] + got[f] + 1)..sent
        /\ {v \in Range(chan[f]) : v <= 0} = {-k : k \in (recalled[f] + 1)..replayed[f]}
        /\ Ordered(chan[f])
    BY <1>1, <1>3, <1>5, <2>2
  <2> QED
    BY <1>2, <2>3, <2>4
<1>7. CASE ~(B!Contains(followers, f) /\ cursor = 0)
  <2>1. /\ {v \in Range(chan[f]) : v > 0} = (joined[f] + got[f] + 1)..u
        /\ {v \in Range(chan[f]) : v <= 0} = {-k : k \in (recalled[f] + 1)..replayed[f]}
        /\ Ordered(chan[f])
    BY <1>3, <1>4, <1>5
  <2> QED
    BY <1>2, <1>4, <1>7, <2>1
<1> QED
  BY <1>6, <1>7

LEMMA InitBroadcast == B!Init => BroadcastInv
<1> SUFFICES ASSUME B!Init PROVE BroadcastInv
  OBVIOUS
<1>1. /\ followers = <<>> /\ closed = FALSE /\ cursor = 0 /\ sent = 0 /\ panicked = FALSE
      /\ fpc = [f \in Followers |-> "out"] /\ room = [f \in Followers |-> 0]
      /\ chan = [f \in Followers |-> <<>>] /\ chanClosed = [f \in Followers |-> FALSE]
      /\ replayed = [f \in Followers |-> 0] /\ got = [f \in Followers |-> 0]
      /\ recalled = [f \in Followers |-> 0] /\ joined = [f \in Followers |-> 0]
  BY DEF B!Init
<1>2. MaxSends \in Nat /\ MemoryLen \in Nat
  BY BroadcastAssumption DEF B!ConstantsFit
<1>3. /\ followers \in Seq(Followers) /\ Len(followers) = 0 /\ DOMAIN followers = {}
      /\ \A f \in Followers : chan[f] \in Seq(Int) /\ Len(chan[f]) = 0
  BY <1>1, EmptySeq
<1>4. B!TypeOK
  <2>1. chanClosed \in [Followers -> BOOLEAN] /\ closed \in BOOLEAN /\ panicked \in BOOLEAN
    BY <1>1
  <2>2. chan \in [Followers -> Seq(Int)] /\ \A f \in Followers : Len(chan[f]) <= room[f]
    BY <1>1, <1>3
  <2>3. sent \in 0..MaxSends /\ cursor \in 0..(Len(followers) + 1)
    BY <1>1, <1>2, <1>3
  <2>4. /\ replayed \in [Followers -> 0..MemoryLen] /\ recalled \in [Followers -> 0..MemoryLen]
        /\ joined \in [Followers -> 0..sent] /\ got \in [Followers -> 0..sent]
        /\ \A f \in Followers : recalled[f] <= replayed[f]
    BY <1>1, <1>2
  <2>5. /\ fpc \in [Followers -> {"out", "replaying", "in", "leaving", "left"}]
        /\ room \in [Followers -> {0, Capacity, B!MemoryCapacity}]
    BY <1>1
  <2> QED
    BY <1>3, <2>1, <2>2, <2>3, <2>4, <2>5 DEF B!TypeOK
<1>5. ListInv
  <2>1. IsInjective(followers)
    BY <1>3 DEF IsInjective
  <2> QED
    BY <1>1, <1>3, <2>1 DEF ListInv
<1>6. ChannelsInv
  <2>1. Holds(<<>>, 0, 0, 0, 0) /\ 0 + 0 = 0 /\ 0 \in 0..0
    BY NothingSent
  <2> QED
    BY <1>1, <2>1 DEF ChannelsInv
<1>7. RowsInv /\ B!PanicOnlyInReplay
  BY <1>1, <1>3 DEF RowsInv, B!PanicOnlyInReplay
<1> QED
  BY <1>4, <1>5, <1>6, <1>7 DEF BroadcastInv

\* However followers come and go, each gets every value sent while it follows, in
\* order, and its memory; no send meets a closed channel but that of a replay that
\* Close has overtaken.
THEOREM BroadcastIsSafe == Spec => []BroadcastSafe
<1>1. Init => BroadcastInv
  BY InitBroadcast DEF Init
<1>2. BroadcastInv /\ [Next]_vars => BroadcastInv'
  <2> SUFFICES ASSUME BroadcastInv, [Next]_vars PROVE [B!Next]_(B!vars)
    BY BroadcastNextKeeps
  <2> QED
    BY DEF Next, BroadcastRuns, SuckerRuns, MetricsRun, MapRuns, vars, broadcastVars, B!vars
<1>3. BroadcastInv => BroadcastSafe
  BY GetAll DEF BroadcastInv, BroadcastSafe
<1> QED
  BY <1>1, <1>2, <1>3, PTL DEF Spec
=============================================================================
