----------------------------- MODULE MCSideParts -----------------------------
(***************************************************************************)
(* Small instances of the side parts.                                      *)
(***************************************************************************)
EXTENDS SideParts

\* One map holds both metrics: that is where goroutines meet.
MCMapOf == [n \in Names |-> CHOOSE m \in Maps : TRUE]

\* Two shards with a key each.
MCShardOf == [k \in Keys |-> 1 + (k % 2)]
=============================================================================
