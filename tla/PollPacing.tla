----------------------------- MODULE PollPacing -----------------------------
(***************************************************************************)
(* The pacing of the polling loop (proxy_rotating_poller.go:160-179 and    *)
(* 241-261): after each poll the loop sleeps for what is left of the       *)
(* polling interval, and the time it is behind is carried on as a debt     *)
(* that shortens the following sleeps.                                     *)
(*                                                                         *)
(* One poll is the start of a group's requests.  The wait before it is     *)
(* whatever held the loop up: the pool, the schedule, the scheduler.       *)
(***************************************************************************)
EXTENDS Integers

CONSTANTS Interval,    \* pollingInterval
          Waits,       \* how long the loop may be held up before a poll
          Overslept,   \* how much longer than asked a sleep may last
          StartDelays, \* what NextWorkSession says when the loop starts
          MaxPolls     \* bound: polls in one behaviour

ASSUME IntervalAssumption == Interval \in Nat \ {0}
ASSUME WaitAssumption == Waits \subseteq Nat /\ Overslept \subseteq Nat
ASSUME DelayAssumption == StartDelays \subseteq Int
ASSUME MaxPollsAssumption == MaxPolls \in Nat

VARIABLES now,                \* time since the loop started
          pc,                 \* "poll" or "sleep"
          lastPollStartTime,
          workDebt,
          sleepFor,           \* timeToSleepBeforeNextPoll
          polls,              \* history: polls started
          startDelay,         \* history: what NextWorkSession said
          idle                \* history: sum of the time overslept

vars == <<now, pc, lastPollStartTime, workDebt, sleepFor, polls,
          startDelay, idle>>

Positive(t) == IF t > 0 THEN t ELSE 0

\* lastPollStartTime := time.Now().Add(nextWorkSession); a positive delay is
\* slept off before the first poll, a negative one puts the start of a poll
\* that never was in the past.
Init == /\ startDelay \in StartDelays
        /\ now = Positive(startDelay) /\ lastPollStartTime = startDelay
        /\ pc = "poll" /\ workDebt = 0 /\ sleepFor = 0
        /\ polls = 0 /\ idle = 0

\* Mutant: the debt is not carried on.
NoDebt(elapsed) == Interval - elapsed

\* timeToSleepBeforeNextPoll, before it is cut at zero.
TimeToSleep(elapsed) == Interval - elapsed - workDebt

\* Mutant: the debt is not set to zero when it is paid.
StickyDebt(t) == IF t < 0 THEN -t ELSE workDebt

\* The debt that a time to sleep leaves.
DebtOf(t) == Positive(-t)

\* The sleep itself.
SleepOf(t) == Positive(t)

\* The poll starts after the wait w, and the next sleep is computed.
Poll(w) == LET t == TimeToSleep(now + w - lastPollStartTime) IN
    /\ pc = "poll"
    /\ polls < MaxPolls
    /\ now' = now + w
    /\ polls' = polls + 1
    /\ workDebt' = DebtOf(t)
    /\ sleepFor' = SleepOf(t)
    /\ pc' = "sleep"
    /\ UNCHANGED <<lastPollStartTime, startDelay, idle>>

\* The sleep, o too long, and lastPollStartTime = time.Now().
Sleep(o) == /\ pc = "sleep"
            /\ now' = now + sleepFor + o
            /\ lastPollStartTime' = now'
            /\ idle' = idle + o
            /\ pc' = "poll"
            /\ UNCHANGED <<workDebt, sleepFor, polls, startDelay>>

Next == (\E w \in Waits : Poll(w)) \/ (\E o \in Overslept : Sleep(o))

Spec == Init /\ [][Next]_vars

-----------------------------------------------------------------------------
\* The types of the variables.
TypeOK == /\ now \in Nat /\ polls \in 0..MaxPolls /\ idle \in Nat
          /\ pc \in {"poll", "sleep"}
          /\ lastPollStartTime \in Int /\ startDelay \in StartDelays
          /\ workDebt \in Nat /\ sleepFor \in Nat

\* Counted from the instant NextWorkSession named, polls are never ahead of the
\* target rate, however the loop is held up and however it catches up.  After
\* hours that instant is the end of the session, hours ago: so much the loop
\* may be ahead of a rate counted from its real start.
AheadOnlyByStartDelay == polls > 0 => (polls - 1) * Interval <= now - startDelay

\* The loop loses no poll: the time it is behind the target is the debt it
\* still carries, up to the time its sleeps lasted too long.
LagIsDebt ==
    /\ TypeOK
    /\ pc = "poll" /\ polls > 0 => now - startDelay = polls * Interval + workDebt + idle
=============================================================================
