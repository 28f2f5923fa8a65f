------------------------------ MODULE Broadcast ------------------------------
(***************************************************************************)
(* Broadcast of pkg/channel/broadcast.go: one value goes to the channel of *)
(* every follower.  Follow, Unfollow and Close happen under a mutex and    *)
(* are one step each; Send holds the mutex over a send per follower, each  *)
(* of which may have to wait; FollowWithMemory replays its memory without  *)
(* the mutex.  Several senders, the goroutine of NewBroadcastAdapter among *)
(* them, take turns by the mutex and are one here.  The k-th value sent is *)
(* the number k, the i-th value of the memory the number -i.               *)
(***************************************************************************)
EXTENDS Integers, Sequences, SequencesExt

CONSTANTS Followers,   \* each of them follows once
          Capacity,    \* b.capacity
          MemoryLen,   \* len(memory)
          MaxSends     \* bound: values sent

\* What is assumed of them.
ConstantsFit == Capacity \in Nat \ {0} /\ MemoryLen \in Nat /\ MaxSends \in Nat

VARIABLES followers,  \* b.followers
          closed,     \* b.closed
          cursor,     \* Send has the mutex and is at this follower; 0: no Send
          sent,       \* number of values sent, or about to be
          fpc,        \* per follower: "out", "replaying", "in", "leaving", "left"
          room,       \* the capacity of its channel
          chan,       \* its channel
          chanClosed, \* its channel is closed
          replayed,   \* how much of the memory it has been given
          panicked,   \* a send on a closed channel has ended the process
          got,        \* history: how many values each follower has read,
          recalled,   \* and how much of its memory
          joined      \* history: sent when it was registered

vars == <<followers, closed, cursor, sent, fpc, room, chan, chanClosed, replayed,
          panicked, got, recalled, joined>>

Init == /\ followers = <<>> /\ closed = FALSE /\ cursor = 0 /\ sent = 0
        /\ fpc = [f \in Followers |-> "out"]
        /\ room = [f \in Followers |-> 0]
        /\ chan = [f \in Followers |-> <<>>]
        /\ chanClosed = [f \in Followers |-> FALSE]
        /\ replayed = [f \in Followers |-> 0]
        /\ panicked = FALSE
        /\ got = [f \in Followers |-> 0] /\ recalled = [f \in Followers |-> 0]
        /\ joined = [f \in Followers |-> 0]

-----------------------------------------------------------------------------
\* Mutant: the mutex is not taken.
AnyTime == TRUE

\* followersGuard is free.
Unlocked == cursor = 0

\* follow: nothing is registered once the broadcast is closed.
Register(f, capacity, place) ==
    /\ fpc[f] = "out"
    /\ Unlocked
    /\ fpc' = [fpc EXCEPT ![f] = IF closed THEN "left" ELSE place]
    /\ followers' = IF closed THEN followers ELSE Append(followers, f)
    /\ room' = [room EXCEPT ![f] = capacity]
    /\ joined' = [joined EXCEPT ![f] = sent]
    /\ UNCHANGED <<closed, cursor, sent, chan, chanClosed, replayed, panicked, got, recalled>>

Follow(f) == Register(f, Capacity, "in")

\* max(b.capacity, len(memory)+len(memory)>>3+1)
MemoryCapacity == LET needed == MemoryLen + MemoryLen \div 8 + 1
                  IN IF needed > Capacity THEN needed ELSE Capacity

FollowWithMemory(f) == Register(f, MemoryCapacity, "replaying")

\* ch <- value of the replay: a panic when the channel has been closed.
Replay(f) ==
    /\ fpc[f] = "replaying" /\ replayed[f] < MemoryLen
    /\ \/ /\ chanClosed[f]
          /\ panicked' = TRUE
          /\ UNCHANGED <<chan, replayed>>
       \/ /\ ~chanClosed[f] /\ Len(chan[f]) < room[f]
          /\ chan' = [chan EXCEPT ![f] = Append(@, -(replayed[f] + 1))]
          /\ replayed' = [replayed EXCEPT ![f] = @ + 1]
          /\ UNCHANGED panicked
    /\ UNCHANGED <<followers, closed, cursor, sent, fpc, room, chanClosed, got, recalled, joined>>

\* FollowWithMemory returns the channel.
ReplayEnds(f) == /\ fpc[f] = "replaying" /\ replayed[f] = MemoryLen
                 /\ fpc' = [fpc EXCEPT ![f] = "in"]
                 /\ UNCHANGED <<followers, closed, cursor, sent, room, chan, chanClosed,
                                replayed, panicked, got, recalled, joined>>

\* A follower reads a value.
Read(f) == /\ fpc[f] = "in" /\ chan[f] # <<>>
           /\ IF Head(chan[f]) > 0
              THEN got' = [got EXCEPT ![f] = @ + 1] /\ UNCHANGED recalled
              ELSE recalled' = [recalled EXCEPT ![f] = @ + 1] /\ UNCHANGED got
           /\ chan' = [chan EXCEPT ![f] = Tail(@)]
           /\ UNCHANGED <<followers, closed, cursor, sent, fpc, room, chanClosed, replayed,
                          panicked, joined>>

\* A follower stops reading and calls Unfollow.
CallUnfollow(f) == /\ fpc[f] = "in"
                   /\ fpc' = [fpc EXCEPT ![f] = "leaving"]
                   /\ UNCHANGED <<followers, closed, cursor, sent, room, chan, chanClosed,
                                  replayed, panicked, got, recalled, joined>>

\* Mutant: the follower is closed and stays in the list.
NotRemoved(list, i) == list

\* The last follower takes the place of the i-th.
SwapRemoved(list, i) == Front([list EXCEPT ![i] = Last(list)])

\* Unfollow; a follower that is not found, after Close, changes nothing.
Unfollow(f) ==
    /\ fpc[f] = "leaving" /\ Unlocked
    /\ fpc' = [fpc EXCEPT ![f] = "left"]
    /\ IF Contains(followers, f)
       THEN /\ chanClosed' = [chanClosed EXCEPT ![f] = TRUE]
            /\ followers' = SwapRemoved(followers, CHOOSE i \in DOMAIN followers : followers[i] = f)
       ELSE UNCHANGED <<chanClosed, followers>>
    /\ UNCHANGED <<closed, cursor, sent, room, chan, replayed, panicked, got, recalled, joined>>

\* Send takes the mutex; closed, it returns an error and changes nothing.
Send == /\ Unlocked /\ ~closed /\ sent < MaxSends
        /\ sent' = sent + 1
        /\ cursor' = 1
        /\ UNCHANGED <<followers, closed, fpc, room, chan, chanClosed, replayed, panicked,
                       got, recalled, joined>>

\* follower <- value
SendToNext ==
    /\ cursor \in DOMAIN followers
    /\ LET f == followers[cursor] IN
         \/ /\ chanClosed[f]
            /\ panicked' = TRUE
            /\ UNCHANGED <<chan, cursor>>
         \/ /\ ~chanClosed[f] /\ Len(chan[f]) < room[f]
            /\ chan' = [chan EXCEPT ![f] = Append(@, sent)]
            /\ cursor' = cursor + 1
            /\ UNCHANGED panicked
    /\ UNCHANGED <<followers, closed, sent, fpc, room, chanClosed, replayed, got, recalled, joined>>

SendReturns == /\ cursor > Len(followers)
               /\ cursor' = 0
               /\ UNCHANGED <<followers, closed, sent, fpc, room, chan, chanClosed,
                              replayed, panicked, got, recalled, joined>>

\* Close, also the deferred one of the adapter whose source is closed.
Close == /\ Unlocked /\ ~closed
         /\ closed' = TRUE
         /\ chanClosed' = [f \in Followers |-> chanClosed[f] \/ Contains(followers, f)]
         /\ followers' = <<>>
         /\ UNCHANGED <<cursor, sent, fpc, room, chan, replayed, panicked, got, recalled, joined>>

\* What the goroutines do without being asked; the readers read.
Progress == \/ SendToNext \/ SendReturns
            \/ \E f \in Followers : Replay(f) \/ ReplayEnds(f) \/ Read(f) \/ Unfollow(f)

Next == /\ ~panicked
        /\ \/ Progress \/ Send \/ Close
           \/ \E f \in Followers : Follow(f) \/ FollowWithMemory(f) \/ CallUnfollow(f)

\* The goroutines are scheduled.  Between two values sent only so many of their
\* steps are possible, so that each one gets its turn.
Fairness == WF_vars(~panicked /\ Progress)

Spec == Init /\ [][Next]_vars /\ Fairness

-----------------------------------------------------------------------------
\* The types of the variables.
TypeOK ==
    /\ followers \in Seq(Followers)
    /\ closed \in BOOLEAN /\ panicked \in BOOLEAN
    /\ sent \in 0..MaxSends /\ cursor \in 0..(Len(followers) + 1)
    /\ fpc \in [Followers -> {"out", "replaying", "in", "leaving", "left"}]
    /\ chan \in [Followers -> Seq(Int)] /\ room \in [Followers -> {0, Capacity, MemoryCapacity}]
    /\ chanClosed \in [Followers -> BOOLEAN]
    /\ replayed \in [Followers -> 0..MemoryLen] /\ recalled \in [Followers -> 0..MemoryLen]
    /\ joined \in [Followers -> 0..sent] /\ got \in [Followers -> 0..sent]
    /\ \A f \in Followers : Len(chan[f]) <= room[f] /\ recalled[f] <= replayed[f]

\* However followers come and go, each gets the values sent while it follows,
\* in the order they were sent, every one of them, and its memory in order: only
\* how the two are mixed is left open.
FollowersGetAll == \A f \in Followers :
    LET ch == chan[f]
    IN /\ \E upto \in (joined[f] + got[f])..sent :
             /\ {v \in ToSet(ch) : v > 0} = (joined[f] + got[f] + 1)..upto
             /\ Contains(followers, f) /\ cursor = 0 => upto = sent
       /\ {v \in ToSet(ch) : v <= 0} = {-k : k \in (recalled[f] + 1)..replayed[f]}
       /\ \A i, j \in DOMAIN ch : i < j =>
             /\ ch[i] > 0 /\ ch[j] > 0 => ch[i] < ch[j]
             /\ ch[i] <= 0 /\ ch[j] <= 0 => ch[i] > ch[j]

\* The only send on a closed channel: Close while FollowWithMemory replays.
PanicOnlyInReplay == panicked => closed /\ \E f \in Followers : fpc[f] = "replaying"

\* Send waits for ever, and with the mutex every other call, only for a follower
\* with a full channel that stopped reading to call Unfollow, or that has not
\* got its channel because the replay waits for room as well.
Stuck(f) == fpc[f] \in {"leaving", "replaying"} /\ Len(chan[f]) = room[f]
SendReturnsOrStuck == cursor # 0 ~> (cursor = 0 \/ \E f \in Followers : Stuck(f))

\* FollowWithMemory returns if nothing is sent during the replay, whatever the
\* length of the memory; values sent meanwhile take the room it needs.  (A follower
\* replays once, so that in the end no replay waits for any other reason.)
ReplayReturns ==
    []<>(\A f \in Followers : fpc[f] # "replaying" \/ panicked \/ sent > joined[f])
=============================================================================
