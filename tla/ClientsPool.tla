---------------------------- MODULE ClientsPool ----------------------------
(***************************************************************************)
(* What a pool of client groups promises to the poller: the interface      *)
(* ClientsPool of proxy_rotating_poller.go (Acquire and the release        *)
(* function it returns), with the one rate promise the implementation      *)
(* really keeps.  A group is lent to one user at a time, and any two       *)
(* successive loans are followed by a third one no sooner than             *)
(* RestInterval after the first of them.                                   *)
(*                                                                         *)
(* Time is kept as ages that saturate at RestInterval: lastUse[g] is how   *)
(* long ago the latest loan of g began, prevUse[g] the loan before it, and *)
(* an age of RestInterval stands for "that long ago or never".             *)
(***************************************************************************)
EXTENDS Naturals

CONSTANTS Groups,        \* the groups of clients, one member of the pool each
          RestInterval   \* clientRestInterval, in clock ticks

VARIABLES inUse,    \* the groups lent out
          lastUse,  \* age of the latest loan of each group
          prevUse   \* age of the loan before the latest one

vars == <<inUse, lastUse, prevUse>>

Older(age) == IF age < RestInterval THEN age + 1 ELSE RestInterval

Init == /\ inUse = {}
        /\ lastUse = [g \in Groups |-> RestInterval]
        /\ prevUse = [g \in Groups |-> RestInterval]

Acquire(g) == /\ g \notin inUse
              /\ prevUse[g] >= RestInterval
              /\ inUse' = inUse \union {g}
              /\ prevUse' = [prevUse EXCEPT ![g] = lastUse[g]]
              /\ lastUse' = [lastUse EXCEPT ![g] = 0]

Release(g) == /\ g \in inUse
              /\ inUse' = inUse \ {g}
              /\ UNCHANGED <<lastUse, prevUse>>

Tick == /\ lastUse' = [g \in Groups |-> Older(lastUse[g])]
        /\ prevUse' = [g \in Groups |-> Older(prevUse[g])]
        /\ UNCHANGED inUse

Next == \/ \E g \in Groups : Acquire(g) \/ Release(g)
        \/ Tick

Spec == Init /\ [][Next]_vars
=============================================================================
