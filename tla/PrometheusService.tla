-------------------------- MODULE PrometheusService --------------------------
(***************************************************************************)
(* PrometheusService of internal/service/metrics.go, whose counters,       *)
(* gauges and histograms are created on first use and kept in three plain  *)
(* maps.  All goroutines of the service use them, through metricsAdapter   *)
(* those of the poller as well: getOrCreate looks a name up, registers a   *)
(* new metric and stores it, with no lock around the three.                *)
(*                                                                         *)
(* The registry panics on a name it has.  A map flags a write in progress; *)
(* the Go runtime ends the process when it sees the flag at another access *)
(* of the map, which it may miss.                                          *)
(***************************************************************************)
EXTENDS Integers

CONSTANTS Goroutines,
          Names,      \* the metrics
          Maps,       \* counters, gauges, histograms
          MapOf,      \* the map of each metric
          MaxCalls,   \* bound: calls of one goroutine
          None        \* no metric

\* What is assumed of them.
ConstantsFit == /\ Names # {} /\ MapOf \in [Names -> Maps]
                /\ MaxCalls \in Nat /\ None \notin Goroutines \X Names

VARIABLES pc,         \* where each goroutine is in its call
          name, vec,  \* the name it uses, the metric it has for it
          calls,      \* the calls it has begun
          table,      \* the maps: the metric stored for each name, or None
          writing,    \* the flag of each map
          registered, \* the registry: the metric served for each name, or None
          value,      \* what each metric has counted
          crashed,    \* the process has ended
          done,       \* history: finished calls by name
          overlapped  \* history: a metric was created during another call

vars == <<pc, name, vec, calls, table, writing, registered, value, crashed, done,
          overlapped>>

\* A metric is named after its creator and its name.
Vecs == Goroutines \X Names

Init == /\ pc = [g \in Goroutines |-> "idle"]
        /\ name = [g \in Goroutines |-> CHOOSE n \in Names : TRUE]
        /\ vec = [g \in Goroutines |-> None]
        /\ calls = [g \in Goroutines |-> 0]
        /\ table = [n \in Names |-> None]
        /\ writing = [m \in Maps |-> FALSE]
        /\ registered = [n \in Names |-> None]
        /\ value = [v \in Vecs |-> 0]
        /\ crashed = FALSE
        /\ done = [n \in Names |-> 0]
        /\ overlapped = FALSE

-----------------------------------------------------------------------------
MapUsed(g) == MapOf[name[g]]

\* A fatal error or a panic that no one recovers from.
Crash == /\ crashed' = TRUE
         /\ UNCHANGED <<pc, name, vec, calls, table, writing, registered, value, done>>

Goes(g, place) == pc' = [pc EXCEPT ![g] = place]

\* A call begins.
Call(g, n) == /\ pc[g] = "idle" /\ calls[g] < MaxCalls
              /\ calls' = [calls EXCEPT ![g] = @ + 1]
              /\ name' = [name EXCEPT ![g] = n]
              /\ Goes(g, "lookup")
              /\ UNCHANGED <<vec, table, writing, registered, value, crashed, done>>

\* p.counters[name], and the like
Lookup(g) ==
    /\ pc[g] = "lookup"
    /\ vec' = [vec EXCEPT ![g] = table[name[g]]]
    /\ Goes(g, IF table[name[g]] = None THEN "create" ELSE "use")
    /\ UNCHANGED <<name, calls, table, writing, registered, value, crashed, done>>

\* The runtime sees the flag of a writer.
ReadSeen(g) == pc[g] = "lookup" /\ writing[MapUsed(g)] /\ Crash

\* Mutant: prometheus.NewCounterVec with a registration that may fail.
AlwaysFree(n) == TRUE

\* promauto finds no metric of that name in the registry.
Unregistered(n) == registered[n] = None

\* promauto.NewCounterVec, NewGaugeVec, NewHistogramVec
Create(g) ==
    /\ pc[g] = "create" /\ Unregistered(name[g])
    /\ vec' = [vec EXCEPT ![g] = <<g, name[g]>>]
    /\ registered' = [registered EXCEPT ![name[g]] = IF @ = None THEN <<g, name[g]>> ELSE @]
    /\ Goes(g, "store")
    /\ UNCHANGED <<name, calls, table, writing, value, crashed, done>>

DuplicatePanics(g) == pc[g] = "create" /\ ~Unregistered(name[g]) /\ Crash

\* p.counters[name] = counter sets the flag,
StoreBegins(g) ==
    /\ pc[g] = "store"
    /\ writing' = [writing EXCEPT ![MapUsed(g)] = TRUE]
    /\ Goes(g, "storing")
    /\ UNCHANGED <<name, vec, calls, table, registered, value, crashed, done>>

WriteSeen(g) == pc[g] = "store" /\ writing[MapUsed(g)] /\ Crash

\* The map after the assignment.
Stored(t, n, v) == [t EXCEPT ![n] = v]

\* assigns, and clears the flag, which must still be set.
StoreEnds(g) ==
    /\ pc[g] = "storing"
    /\ table' = Stored(table, name[g], vec[g])
    /\ writing' = [writing EXCEPT ![MapUsed(g)] = FALSE]
    /\ Goes(g, "use")
    /\ UNCHANGED <<name, vec, calls, registered, value, crashed, done>>

FlagLost(g) == pc[g] = "storing" /\ ~writing[MapUsed(g)] /\ Crash

\* Inc, Set, Observe: atomic in the client library.
Use(g) == /\ pc[g] = "use"
          /\ value' = [value EXCEPT ![vec[g]] = @ + 1]
          /\ done' = [done EXCEPT ![name[g]] = @ + 1]
          /\ Goes(g, "idle")
          /\ UNCHANGED <<name, vec, calls, table, writing, registered, crashed>>

\* One goroutine creates a metric while another uses the same map.
Overlap == \E g, h \in Goroutines : /\ g # h /\ MapUsed(g) = MapUsed(h)
                                    /\ pc[g] # "idle"
                                    /\ pc[h] \in {"create", "store", "storing"}

Next == /\ ~crashed
        /\ \E g \in Goroutines :
             \/ \E n \in Names : Call(g, n)
             \/ Lookup(g) \/ ReadSeen(g) \/ Create(g) \/ DuplicatePanics(g)
             \/ StoreBegins(g) \/ WriteSeen(g) \/ StoreEnds(g) \/ FlagLost(g) \/ Use(g)
        /\ overlapped' = (overlapped \/ Overlap')

Spec == Init /\ [][Next]_vars

-----------------------------------------------------------------------------
\* The types of the variables.
TypeOK ==
    /\ pc \in [Goroutines -> {"idle", "lookup", "create", "store", "storing", "use"}]
    /\ name \in [Goroutines -> Names] /\ vec \in [Goroutines -> Vecs \union {None}]
    /\ calls \in [Goroutines -> 0..MaxCalls]
    /\ table \in [Names -> Vecs \union {None}]
    /\ writing \in [Maps -> BOOLEAN]
    /\ registered \in [Names -> Vecs \union {None}]
    /\ value \in [Vecs -> Nat]
    /\ crashed \in BOOLEAN /\ overlapped \in BOOLEAN
    /\ done \in [Names -> Nat]
    /\ \A g \in Goroutines : pc[g] \in {"store", "storing", "use"} => vec[g] # None

\* The metrics end the process only if some metric is created while another
\* goroutine is in a call on the same map, as happens when the goroutines of the
\* poller make their first requests at once.
CrashTakesTwo == crashed => overlapped

\* The metric served for a name has counted every finished call, and no other
\* metric of that name has counted any.
NothingUncounted ==
    ~crashed => \A n \in Names :
        IF registered[n] = None THEN done[n] = 0 ELSE value[registered[n]] = done[n]
=============================================================================
