----------------------------- MODULE ShardedMap -----------------------------
(***************************************************************************)
(* ShardedMapTS of pkg/container/sharded_map_ts.go over the MapTS of       *)
(* map_ts.go: a map of several shards, each with a lock of its own.  What  *)
(* concerns one key is one step under the lock of its shard; Size and      *)
(* Clear lock one shard after the other, ForEach all of them.  Values are  *)
(* left out, and so are the readers of a key.  A key has its shard by its  *)
(* hash, a parameter here.                                                 *)
(***************************************************************************)
EXTENDS Integers, FiniteSets

CONSTANTS Users,       \* goroutines
          Keys,
          ShardsCount,
          ShardOf,     \* the shard of each key
          MaxCalls,    \* bound: calls of one goroutine
          None         \* nobody

\* What is assumed of them.
ConstantsFit == /\ IsFiniteSet(Keys) /\ ShardsCount \in Nat \ {0}
                /\ ShardOf \in [Keys -> 1..ShardsCount]
                /\ MaxCalls \in Nat /\ None \notin Users

VARIABLES present,  \* the keys of the map
          owner,    \* per shard: who has its lock between two steps, or None
          op,       \* per user: "none", "size", "clear", "locking", "inside",
                    \* "failed", "unlocking"
          at,       \* per user: the next shard of its loop
          total,    \* per user: totalSize
          calls,    \* per user: calls begun
          always,   \* history, per user: keys present since its call began
          ever      \* history, per user: keys present at some time of its call

vars == <<present, owner, op, at, total, calls, always, ever>>

Shards == 1..ShardsCount

Init == /\ present \in SUBSET Keys
        /\ owner = [i \in Shards |-> None]
        /\ op = [u \in Users |-> "none"]
        /\ at = [u \in Users |-> 1]
        /\ total = [u \in Users |-> 0]
        /\ calls = [u \in Users |-> 0]
        /\ always = [u \in Users |-> {}] /\ ever = [u \in Users |-> {}]

-----------------------------------------------------------------------------
\* The lock of shard i can be taken.
Free(i) == owner[i] = None

In(i) == {k \in present : ShardOf[k] = i}

Goes(u, place, shard) == op' = [op EXCEPT ![u] = place] /\ at' = [at EXCEPT ![u] = shard]

Loops(u) == op[u] \in {"size", "clear"}

\* The map changes, for the history too.
Becomes(keys) == /\ present' = keys
                 /\ always' = [u \in Users |-> always[u] \intersect keys]
                 /\ ever' = [u \in Users |-> IF Loops(u) THEN ever[u] \union keys ELSE {}]

\* Set and Delete of one key.
Set(u, k) == /\ op[u] = "none" /\ calls[u] < MaxCalls /\ Free(ShardOf[k])
             /\ calls' = [calls EXCEPT ![u] = @ + 1]
             /\ Becomes(present \union {k})
             /\ UNCHANGED <<owner, op, at, total>>

Delete(u, k) == /\ op[u] = "none" /\ calls[u] < MaxCalls /\ Free(ShardOf[k])
                /\ calls' = [calls EXCEPT ![u] = @ + 1]
                /\ Becomes(present \ {k})
                /\ UNCHANGED <<owner, op, at, total>>

\* A call that loops over the shards begins.
Begin(u, place) == /\ op[u] = "none" /\ calls[u] < MaxCalls
                   /\ calls' = [calls EXCEPT ![u] = @ + 1]
                   /\ Goes(u, place, 1)
                   /\ LET known == IF place = "locking" THEN {} ELSE present
                      IN always' = [always EXCEPT ![u] = known] /\ ever' = [ever EXCEPT ![u] = known]
                   /\ UNCHANGED <<present, owner, total>>

\* Mutant: the last shard is left out.
ButLast == ShardsCount - 1

\* How far the loops of Size and Clear go.
LastShard == ShardsCount

SizeOfNext(u) == /\ op[u] = "size" /\ at[u] <= LastShard /\ Free(at[u])
                 /\ total' = [total EXCEPT ![u] = @ + Cardinality(In(at[u]))]
                 /\ Goes(u, "size", at[u] + 1)
                 /\ UNCHANGED <<present, owner, calls, always, ever>>

ClearNext(u) == /\ op[u] = "clear" /\ at[u] <= LastShard /\ Free(at[u])
                /\ Becomes(present \ In(at[u]))
                /\ Goes(u, "clear", at[u] + 1)
                /\ UNCHANGED <<owner, total, calls>>

Return(u) == /\ Loops(u) /\ at[u] > LastShard
             /\ Goes(u, "none", 1)
             /\ total' = [total EXCEPT ![u] = 0]
             /\ always' = [always EXCEPT ![u] = {}] /\ ever' = [ever EXCEPT ![u] = {}]
             /\ UNCHANGED <<present, owner, calls>>

\* Mutant: every goroutine begins with another shard.
OwnOrder(u, i) == ((i + calls[u]) % ShardsCount) + 1

\* The i-th shard Lock takes.
LockOrder(u, i) == i

\* Lock
LockNext(u) == /\ op[u] = "locking" /\ at[u] <= ShardsCount
               /\ owner[LockOrder(u, at[u])] = None
               /\ owner' = [owner EXCEPT ![LockOrder(u, at[u])] = u]
               /\ Goes(u, "locking", at[u] + 1)
               /\ UNCHANGED <<present, total, calls, always, ever>>

\* The keys are gone through; the callback has the shard's map.
Enter(u) == /\ op[u] = "locking" /\ at[u] > ShardsCount
            /\ Goes(u, "inside", 1)
            /\ UNCHANGED <<present, owner, total, calls, always, ever>>

CallbackDeletes(u, k) == /\ op[u] = "inside" /\ k \in present
                         /\ Becomes(present \ {k})
                         /\ UNCHANGED <<owner, op, at, total, calls>>

\* A callback that calls the map waits for a lock its own goroutine has; one that
\* panics goes past the Unlock, which is not deferred.  Either way every shard
\* stays locked, whoever recovers from the panic.
CallbackFails(u) == /\ op[u] = "inside"
                    /\ Goes(u, "failed", 1)
                    /\ UNCHANGED <<present, owner, total, calls, always, ever>>

Leave(u) == /\ op[u] = "inside"
            /\ Goes(u, "unlocking", 1)
            /\ UNCHANGED <<present, owner, total, calls, always, ever>>

\* Unlock, and the return of ForEach after the last shard.
UnlockNext(u) == /\ op[u] = "unlocking"
                 /\ owner' = [owner EXCEPT ![at[u]] = None]
                 /\ IF at[u] < ShardsCount THEN Goes(u, "unlocking", at[u] + 1)
                                           ELSE Goes(u, "none", 1)
                 /\ UNCHANGED <<present, total, calls, always, ever>>

Proceeds(u) == \/ SizeOfNext(u) \/ ClearNext(u) \/ Return(u)
               \/ LockNext(u) \/ Enter(u) \/ Leave(u) \/ UnlockNext(u)

Next == \E u \in Users :
            \/ \E k \in Keys : Set(u, k) \/ Delete(u, k) \/ CallbackDeletes(u, k)
            \/ \E place \in {"size", "clear", "locking"} : Begin(u, place)
            \/ CallbackFails(u)
            \/ Proceeds(u)

\* A waiter gets a lock in its turn.
Fairness == \A u \in Users : SF_vars(Proceeds(u))

Spec == Init /\ [][Next]_vars /\ Fairness

-----------------------------------------------------------------------------
\* The types of the variables.
TypeOK ==
    /\ present \subseteq Keys
    /\ owner \in [Shards -> Users \union {None}]
    /\ op \in [Users -> {"none", "size", "clear", "locking", "inside", "failed", "unlocking"}]
    /\ at \in [Users -> 1..(ShardsCount + 1)]
    /\ total \in [Users -> 0..Cardinality(Keys)]
    /\ calls \in [Users -> 0..MaxCalls]
    /\ \A u \in Users : always[u] \subseteq ever[u] /\ ever[u] \subseteq Keys

\* Size is not the size at any moment: a key set and one deleted meanwhile may
\* both be missed, or both counted.  It lies between the number of keys that
\* were there during the whole call and that of those there at some time.
SizeIsBetween == \A u \in Users :
    op[u] = "size" /\ at[u] > LastShard => total[u] \in Cardinality(always[u])..Cardinality(ever[u])

\* Clear leaves no key that was there during the whole call.
ClearedIsGone == \A u \in Users :
    op[u] = "clear" /\ at[u] > LastShard => always[u] = {}

\* Every call returns, goroutines that lock all shards at once too; only a
\* callback that calls the map or panics leaves the shards locked for the others.
\* (MaxCalls bounds the calls, so that in the end all have returned.)
CallsReturn ==
    []<>((\A u \in Users : op[u] = "none") \/ \E v \in Users : op[v] = "failed")
=============================================================================
