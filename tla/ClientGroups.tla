---------------------------- MODULE ClientGroups ----------------------------
(***************************************************************************)
(* Build of proxy_rotating_poller_builder.go: the configuration is checked, *)
(* a client is made for every proxy, the clients become the groups of the  *)
(* pool (NewClientsQueuePool of clients_queue.go) and their number is      *)
(* judged.  The location of a client's address comes from a web service,   *)
(* and is "unknown" when the service fails.                                *)
(*                                                                         *)
(* Rates are whole numbers of requests per some unit of time, 0 stands for *)
(* those that are not positive.                                            *)
(*                                                                         *)
(* The names of its behaviour are its own, so that one module of proofs    *)
(* can extend this module and ClientsQueuePool.                            *)
(***************************************************************************)
EXTENDS Integers, FiniteSets, Sequences, FiniteSetsExt, SequencesExt

CONSTANTS MaxProxies,  \* bound: len(b.proxies)
          Locations,   \* locations the service knows
          MaxRate      \* bound: the two rates

ASSUME ProxiesAssumption == MaxProxies \in Nat
ASSUME RateAssumption == MaxRate \in Nat
ASSUME LocationsAssumption == IsFiniteSet(Locations) /\ "unknown" \notin Locations

VARIABLES usable,             \* b.url parses, and b.initProxyClientFn is not nil
          proxies,            \* len(b.proxies)
          targetRPS,          \* b.targetRPS
          singleProxyMaxRPS,  \* b.singleProxyMaxRPS
          created,            \* len(clients): those made so far
          location,           \* history: the location of each client
          clientsByLocation,  \* the clients left of each location
          members,            \* the channel: one group after the other
          stage               \* "checking", "creating", "grouping", "counting",
                              \* "built", "rejected"

config == <<usable, proxies, targetRPS, singleProxyMaxRPS>>
buildVars == <<config, created, location, clientsByLocation, members, stage>>

Clients == 1..proxies

At(l) == {c \in DOMAIN location : location[c] = l}

\* Whatever the setters of the builder were given.
BuildInit == /\ usable \in BOOLEAN /\ proxies \in 0..MaxProxies
             /\ targetRPS \in 0..MaxRate /\ singleProxyMaxRPS \in 0..MaxRate
             /\ created = 0
             /\ location = <<>> /\ clientsByLocation = <<>> /\ members = <<>>
             /\ stage = "checking"

\* Otherwise "invalid url", ErrTargetRPSRequired, ErrSingleProxyMaxRPSRequired,
\* ErrInitClientFnRequired or ErrProxiesRequired.
Complete == usable /\ targetRPS > 0 /\ singleProxyMaxRPS > 0 /\ proxies > 0

Check == /\ stage = "checking"
         /\ stage' = IF Complete THEN "creating" ELSE "rejected"
         /\ UNCHANGED <<config, created, location, clientsByLocation, members>>

\* b.initProxyClientFn(proxy)
CreateClient == /\ stage = "creating" /\ created < proxies
                /\ created' = created + 1
                /\ UNCHANGED <<config, location, clientsByLocation, members, stage>>

\* One client that cannot be made is the end of it.
CreateFails == /\ stage = "creating" /\ created < proxies
               /\ stage' = "rejected"
               /\ UNCHANGED <<config, created, location, clientsByLocation, members>>

\* The clients of a location are listed in the order they were made.
InOrder(clients) ==
    CHOOSE s \in [1..Cardinality(clients) -> clients] :
       \A i, j \in DOMAIN s : i < j => s[i] < s[j]

\* The locations of all clients are looked up.
Locate == /\ stage = "creating" /\ created = proxies
          /\ location' \in [Clients -> Locations \union {"unknown"}]
          /\ clientsByLocation' =
               [l \in {location'[c] : c \in Clients} |->
                  InOrder({c \in Clients : location'[c] = l})]
          /\ stage' = "grouping"
          /\ UNCHANGED <<config, created, members>>

\* Locations that still have a client; the others are deleted from the map.
Left == {l \in DOMAIN clientsByLocation : clientsByLocation[l] # <<>>}

\* Mutant: a location gives all the clients it has left.
EveryLeft == UNION {ToSet(clientsByLocation[l]) : l \in Left}

\* The group of one round: the first client of every location.
FirstOfEach == {Head(clientsByLocation[l]) : l \in Left}

\* Mutant: the client stays in the list it was taken from.
KeepAll(clients) == clients

\* What is left of the clients of a location after a round.
RestOf(clients) == Tail(clients)

\* A group that is not empty is sent to the channel.
AfterRound(group) == IF group = {} THEN members ELSE Append(members, group)

\* One round over the map, in whatever order Go iterates.  The channel has room
\* for a group per client; the last round finds nobody and only deletes locations.
Round == /\ stage = "grouping"
         /\ DOMAIN clientsByLocation # {}
         /\ FirstOfEach = {} \/ Len(members) < proxies
         /\ members' = AfterRound(FirstOfEach)
         /\ clientsByLocation' = [l \in Left |-> RestOf(clientsByLocation[l])]
         /\ UNCHANGED <<config, created, location, stage>>

\* The map is empty: the constructor returns.
Grouped == /\ stage = "grouping"
           /\ DOMAIN clientsByLocation = {}
           /\ stage' = "counting"
           /\ UNCHANGED <<config, created, location, clientsByLocation, members>>

\* math.Ceil(b.targetRPS / b.singleProxyMaxRPS)
MinExpectedProxies == (targetRPS + singleProxyMaxRPS - 1) \div singleProxyMaxRPS

\* Mutant: the quotient is not rounded up.
EnoughRoundedDown == Len(members) >= targetRPS \div singleProxyMaxRPS

\* The pool is large enough for the builder.
Enough == Len(members) >= MinExpectedProxies

Accept == /\ stage = "counting" /\ Enough
          /\ stage' = "built"
          /\ UNCHANGED <<config, created, location, clientsByLocation, members>>

\* "expected at least %d proxies, got %d"
Reject == /\ stage = "counting" /\ ~Enough
          /\ stage' = "rejected"
          /\ UNCHANGED <<config, created, location, clientsByLocation, members>>

BuildNext == Check \/ CreateClient \/ CreateFails \/ Locate \/ Round \/ Grouped \/ Accept \/ Reject

BuildSpec == BuildInit /\ [][BuildNext]_buildVars

-----------------------------------------------------------------------------
Rates == 0..MaxRate

\* The types of the variables.
BuildTypeOK == /\ usable \in BOOLEAN /\ proxies \in 0..MaxProxies
               /\ targetRPS \in Rates /\ singleProxyMaxRPS \in Rates
               /\ created \in 0..proxies
               /\ location \in [DOMAIN location -> Locations \union {"unknown"}]
               /\ \A l \in DOMAIN clientsByLocation : clientsByLocation[l] \in Seq(Clients)
               /\ members \in Seq((SUBSET Clients) \ {{}})
               /\ stage \in {"checking", "creating", "grouping", "counting", "built", "rejected"}

InGroups == UNION ToSet(members)

Waiting == UNION {ToSet(clientsByLocation[l]) : l \in DOMAIN clientsByLocation}

\* No client is lost or polled through two groups: each is in exactly one group
\* or still waits for a round, and the channel, which nobody receives from yet,
\* has room for the groups of those who wait.
EachClientOnce ==
    /\ BuildTypeOK
    /\ InGroups \union Waiting = DOMAIN location
    /\ InGroups \intersect Waiting = {}
    /\ \A i, j \in DOMAIN members : i # j => members[i] \intersect members[j] = {}
    /\ \A l \in Left : Len(members) + Len(clientsByLocation[l]) <= proxies

\* The requests of one poll come from different locations, and as few polls as
\* the fullest location allows are formed.
SpreadOverLocations ==
    /\ \A i \in DOMAIN members : \A c, d \in members[i] : c # d => location[c] # location[d]
    /\ stage = "counting" => Len(members) = Max({Cardinality(At(l)) : l \in {location[c] : c \in Clients}})

\* A pool the builder accepts can start a poll at the target rate with no
\* client above its own.
AcceptedKeepsTarget ==
    stage = "built" => targetRPS > 0 /\ Len(members) * singleProxyMaxRPS >= targetRPS
=============================================================================
