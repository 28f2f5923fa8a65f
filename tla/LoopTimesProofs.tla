-------------------------- MODULE LoopTimesProofs ---------------------------
(***************************************************************************)
(* Proofs about the times of the polling loop.  PollPacing, for every      *)
(* interval, every length of the waits and of the time overslept, and      *)
(* every delay the loop may start with: the loop forgets no lag, and is    *)
(* ahead of its rate by no more than the delay it started with.            *)
(* WorkSchedule, for every week, every schedule and every wait for a group *)
(* of clients: the loop sleeps exactly till its hours, and polls before    *)
(* them only what it decided to poll on the day before.                    *)
(***************************************************************************)
EXTENDS PollPacing, WorkSchedule, TLAPS, WellFoundedInduction

(* PollPacing: the rate. *)

\* The account of the loop.  Before a poll, the start of the poll before it
\* lies behind the rate by the debt and by what was overslept; during a sleep
\* the same holds of the instant the sleep is to end.  A sleep is no longer
\* than an interval, as the wait it follows is not negative.
Account ==
    /\ pc = "poll" =>
         /\ lastPollStartTime - startDelay = polls * Interval + workDebt + idle
         /\ lastPollStartTime <= now
         /\ polls > 0 => lastPollStartTime = now
    /\ pc = "sleep" =>
         /\ polls > 0
         /\ now + sleepFor - startDelay = polls * Interval + workDebt + idle
         /\ sleepFor <= Interval

PacingInv == TypeOK /\ Account

LEMMA NextMultiple == \A n \in Nat : n * Interval \in Nat /\ (n + 1) * Interval = n * Interval + Interval
BY IntervalAssumption

LEMMA InitAccount == Init => PacingInv
BY IntervalAssumption, DelayAssumption, MaxPollsAssumption
   DEF Init, PacingInv, TypeOK, Account, Positive

LEMMA NextAccount == PacingInv /\ [Next]_vars => PacingInv'
<1> SUFFICES ASSUME PacingInv, [Next]_vars PROVE PacingInv'
  OBVIOUS
<1>0. /\ TypeOK /\ Account
      /\ Interval \in Nat /\ Interval > 0
      /\ startDelay \in Int
      /\ MaxPolls \in Nat
  BY IntervalAssumption, DelayAssumption, MaxPollsAssumption DEF PacingInv, TypeOK
<1>1. ASSUME NEW w \in Waits, Poll(w) PROVE PacingInv'
  <2> DEFINE t == TimeToSleep(now + w - lastPollStartTime)
             m == polls * Interval
  <2>1. w \in Nat
    BY WaitAssumption
  <2>2. /\ t \in Int
        /\ t = Interval - (now + w - lastPollStartTime) - workDebt
        /\ t <= Interval
    BY <1>0, <1>1, <2>1 DEF TypeOK, Account, TimeToSleep, Poll
  <2>3. /\ pc = "poll" /\ pc' = "sleep"
        /\ polls < MaxPolls /\ polls' = polls + 1
        /\ now' = now + w
        /\ workDebt' = (IF -t > 0 THEN -t ELSE 0)
        /\ sleepFor' = (IF t > 0 THEN t ELSE 0)
        /\ UNCHANGED <<lastPollStartTime, startDelay, idle>>
    BY <1>1 DEF Poll, DebtOf, SleepOf, Positive
  <2>4. m \in Nat /\ polls' * Interval = m + Interval
    BY <1>0, <2>3, NextMultiple DEF TypeOK
  <2>5. lastPollStartTime - startDelay = m + workDebt + idle
    BY <1>0, <2>3 DEF Account
  <2> HIDE DEF t, m
  <2>6. TypeOK'
    BY <1>0, <2>1, <2>2, <2>3 DEF TypeOK
  <2>7. now' + sleepFor' - startDelay' = polls' * Interval + workDebt' + idle'
    BY <1>0, <2>1, <2>2, <2>3, <2>4, <2>5 DEF TypeOK
  <2>8. polls' > 0 /\ sleepFor' <= Interval
    BY <1>0, <2>2, <2>3 DEF TypeOK
  <2> QED
    BY <2>3, <2>6, <2>7, <2>8 DEF PacingInv, Account
<1>2. ASSUME NEW o \in Overslept, Sleep(o) PROVE PacingInv'
  <2> DEFINE m == polls * Interval
  <2>1. o \in Nat
    BY WaitAssumption
  <2>2. /\ pc = "sleep" /\ pc' = "poll"
        /\ now' = now + sleepFor + o
        /\ lastPollStartTime' = now'
        /\ idle' = idle + o
        /\ UNCHANGED <<workDebt, sleepFor, polls, startDelay>>
    BY <1>2 DEF Sleep
  <2>3. m \in Nat /\ polls' * Interval = m
    BY <1>0, <2>2, NextMultiple DEF TypeOK
  <2>4. now + sleepFor - startDelay = m + workDebt + idle
    BY <1>0, <2>2 DEF Account
  <2> HIDE DEF m
  <2>5. TypeOK'
    BY <1>0, <2>1, <2>2 DEF TypeOK
  <2>6. lastPollStartTime' - startDelay' = polls' * Interval + workDebt' + idle'
    BY <1>0, <2>1, <2>2, <2>3, <2>4 DEF TypeOK
  <2>7. lastPollStartTime' <= now'
    BY <2>2, <2>5 DEF TypeOK
  <2> QED
    BY <2>2, <2>5, <2>6, <2>7 DEF PacingInv, Account
<1>3. CASE UNCHANGED vars
  BY <1>0, <1>3 DEF PacingInv, TypeOK, Account, vars
<1> QED
  BY <1>1, <1>2, <1>3 DEF Next

\* The account is kept in every behaviour.
THEOREM PacingInvariant == Spec => []PacingInv
<1> QED
  BY InitAccount, NextAccount, PTL DEF Spec

\* The time the loop is behind its rate is the debt it carries and the time its
\* sleeps lasted too long: no poll is ever lost.
THEOREM NoLagForgotten == Spec => []LagIsDebt
<1>1. PacingInv => LagIsDebt
  BY DEF PacingInv, Account, LagIsDebt
<1> QED
  BY <1>1, PacingInvariant, PTL

\* The loop is never ahead of its rate by more than the delay it began with.
THEOREM NeverAhead == Spec => []AheadOnlyByStartDelay
<1>1. ASSUME PacingInv, polls > 0 PROVE (polls - 1) * Interval <= now - startDelay
  <2> DEFINE m == (polls - 1) * Interval
  <2>1. /\ TypeOK /\ Account
        /\ Interval \in Nat /\ Interval > 0
        /\ startDelay \in Int
        /\ polls - 1 \in Nat /\ (polls - 1) + 1 = polls
    BY <1>1, IntervalAssumption, DelayAssumption, MaxPollsAssumption DEF PacingInv, TypeOK
  <2>2. m \in Nat /\ polls * Interval = m + Interval
    BY <2>1, NextMultiple
  <2> HIDE DEF m
  <2>3. CASE pc = "poll"
    BY <1>1, <2>1, <2>2, <2>3 DEF TypeOK, Account
  <2>4. CASE pc = "sleep"
    BY <1>1, <2>1, <2>2, <2>4 DEF TypeOK, Account
  <2>5. pc = "poll" \/ pc = "sleep"
    BY <2>1 DEF TypeOK
  <2> QED
    BY <2>3, <2>4, <2>5 DEF m
<1>2. PacingInv => AheadOnlyByStartDelay
  BY <1>1 DEF AheadOnlyByStartDelay
<1> QED
  BY <1>2, PacingInvariant, PTL

-----------------------------------------------------------------------------
(* WorkSchedule: the hours. *)

\* A loop that has slept on a work day is awake at or after the instant its
\* preparation begins; only a loop that is asleep has sleep left, and only one
\* that waits for its clients has waited.
RestedInv == /\ sleepLeft > 0 => loop = "asleep"
             /\ waited > 0 => loop = "acquire"
             /\ loop = "asleep" /\ sleepLeft = 0 /\ schedule[day] # NoWork =>
                   clock >= StartTime(day)

HoursInv == SleepsWell /\ RestedInv /\ NeverPollsEarly

LEMMA LeastOf ==
  ASSUME NEW S \in SUBSET Nat, S # {}
  PROVE  Min(S) \in S /\ \A y \in S : Min(S) <= y
<1> DEFINE R == OpToRel(<, Nat)
<1>1. IsWellFoundedOn(R, Nat)
  BY NatLessThanWellFounded, Zenon
<1> HIDE DEF R
<1>2. PICK x \in S : \A y \in S : ~ (<<y, x>> \in R)
  BY <1>1, WFMin
<1>3. \A y \in S : x <= y
  <2> SUFFICES ASSUME NEW y \in S, y < x PROVE FALSE
    OBVIOUS
  <2>1. <<y, x>> \in R
    BY DEF R, OpToRel
  <2> QED BY <2>1, <1>2
<1> QED BY <1>3 DEF Min

\* The first work day the loop over the week finds: today if today is one.
LEMMA FirstDay ==
  ASSUME HoursTypeOK, Offsets # {}
  PROVE  /\ FirstWorkDay \in Days
         /\ schedule[FirstWorkDay] # NoWork
         /\ schedule[day] # NoWork => FirstWorkDay = day
<1> DEFINE m == Min(Offsets)
<1>1. Offsets \in SUBSET Nat
  BY WeekAssumption DEF Offsets, Days
<1>2. m \in Offsets /\ \A y \in Offsets : m <= y
  BY <1>1, LeastOf
<1>3. /\ m \in Nat
      /\ day \in Nat /\ day < NumDays /\ NumDays \in Nat /\ NumDays > 0
  <2>1. m \in Nat
    BY <1>1, <1>2
  <2> QED BY <2>1, WeekAssumption DEF HoursTypeOK, Days
<1>4. (day + m) % NumDays \in Days
  BY <1>3 DEF Days
<1>5. schedule[(day + m) % NumDays] # NoWork
  BY <1>2 DEF Offsets
<1>6. ASSUME schedule[day] # NoWork PROVE (day + m) % NumDays = day
  <2>1. (day + 0) % NumDays = day /\ 0 \in Days
    BY <1>3 DEF Days
  <2>2. 0 \in Offsets
    BY <2>1, <1>6 DEF Offsets
  <2>3. m = 0
    BY <2>2, <1>2, <1>3
  <2> QED BY <2>1, <2>3
<1> HIDE DEF m
<1>7. FirstWorkDay = (day + m) % NumDays
  BY DEF FirstWorkDay, m
<1> QED BY <1>4, <1>5, <1>6, <1>7

\* The hours of a day, in the instants of today.
LEMMA Hours ==
  ASSUME HoursTypeOK,
         NEW d \in Days, schedule[d] # NoWork
  PROVE  /\ StartTime(d) \in Int /\ StartTime(d) < DayLength
         /\ EndTime(d) \in Int /\ StartTime(d) <= EndTime(d)
<1>1. schedule[d] \in Entries
  BY DEF HoursTypeOK
<1>2. /\ schedule[d].start \in 0..(DayLength - 1)
      /\ schedule[d].end \in schedule[d].start..(DayLength - 1)
      /\ schedule[d].preparation \in Nat
  BY <1>1, EntryAssumption
<1> DEFINE s == schedule[d].start  e == schedule[d].end  p == schedule[d].preparation
<1>3. s \in Int /\ e \in Int /\ p \in Nat /\ s <= e /\ s < DayLength
  BY <1>2, WeekAssumption
<1>4. StartTime(d) = s - p /\ EndTime(d) = e + p
  BY DEF StartTime, EndTime
<1> HIDE DEF s, e, p
<1> QED BY <1>3, <1>4, WeekAssumption

LEMMA InitHours ==
  ASSUME HoursInit PROVE HoursInv
BY MaxWaitAssumption
   DEF HoursInit, HoursInv, RestedInv, SleepsWell, HoursTypeOK, NeverOversleeps,
       WakesAtStart, NeverPollsEarly

\* Going to sleep, on a work day and on a day off.
LEMMA SleepHours ==
  ASSUME HoursInv, GoToSleep
  PROVE  HoursInv'
<1> DEFINE d == FirstWorkDay
           t == DistanceTo(d)
<1>1. /\ HoursTypeOK /\ loop = "check"
      /\ ~WorkNow /\ SessionFound
      /\ sleepLeft' = IF t > 0 THEN t ELSE 0
      /\ loop' = "asleep"
      /\ UNCHANGED <<schedule, day, clock, waited>>
      /\ ~(waited > 0)
  BY DEF HoursInv, SleepsWell, RestedInv, GoToSleep
<1>2. /\ d \in Days /\ schedule[d] # NoWork
      /\ schedule[day] # NoWork => d = day
  BY <1>1, FirstDay DEF SessionFound
<1>3. /\ StartTime(d) \in Int /\ StartTime(d) < DayLength
      /\ EndTime(d) \in Int /\ StartTime(d) <= EndTime(d)
  BY <1>1, <1>2, Hours
<1>4. clock \in Nat /\ clock < DayLength /\ DayLength \in Nat
  BY <1>1, WeekAssumption DEF HoursTypeOK
<1>5. t = IF InSession(d, clock) THEN 0
          ELSE IF clock < StartTime(d) THEN StartTime(d) - clock
               ELSE EndTime(d) - clock
  BY DEF DistanceTo
<1>6. InSession(d, clock) <=> clock > StartTime(d) /\ clock < EndTime(d)
  BY <1>2 DEF InSession
<1>7. InSession(d, clock) \/ clock \notin {StartTime(d), EndTime(d)}
  BY <1>1 DEF SessionFound
<1> HIDE DEF d, t
<1>8. t \in Int
  BY <1>3, <1>4, <1>5
<1>9. ASSUME t > 0 PROVE clock < StartTime(d) /\ clock + t = StartTime(d)
  BY <1>3, <1>4, <1>5, <1>6, <1>7, <1>9
<1>10. ASSUME ~(t > 0) PROVE clock >= StartTime(d)
  BY <1>3, <1>4, <1>5, <1>6, <1>7, <1>10
<1>11. sleepLeft' \in Nat /\ (sleepLeft' > 0 => t > 0 /\ sleepLeft' = t)
  BY <1>1, <1>8
<1>12. StartTime(day)' = StartTime(day)
  BY <1>1 DEF StartTime
<1>13. HoursTypeOK'
  BY <1>1, <1>11 DEF HoursTypeOK
<1>14. (NeverOversleeps /\ WakesAtStart)'
  <2> SUFFICES ASSUME sleepLeft' > 0
               PROVE  /\ ~WorkNow' /\ clock' + sleepLeft' < DayLength
                      /\ schedule'[day'] # NoWork => clock' + sleepLeft' = StartTime(day)'
    BY DEF NeverOversleeps, WakesAtStart
  <2>1. clock' + sleepLeft' = StartTime(d) /\ clock' < StartTime(d)
    BY <1>1, <1>9, <1>11
  <2>2. ~WorkNow'
    BY <1>1 DEF WorkNow, InSession, StartTime, EndTime
  <2> QED BY <2>1, <2>2, <1>1, <1>2, <1>3, <1>12
<1>15. RestedInv'
  <2>1. sleepLeft' = 0 => ~(t > 0)
    BY <1>1, <1>8
  <2> QED BY <2>1, <1>1, <1>2, <1>10, <1>12 DEF RestedInv
<1>16. NeverPollsEarly'
  BY <1>1 DEF NeverPollsEarly
<1> QED BY <1>13, <1>14, <1>15, <1>16 DEF HoursInv, SleepsWell

\* An instant of a sleep, of a wait for clients, of a pause between polls or of
\* a week without hours.
LEMMA TickHours ==
  ASSUME HoursInv, Tick
  PROVE  HoursInv'
<1>1. /\ HoursTypeOK /\ NeverOversleeps /\ WakesAtStart /\ RestedInv
      /\ clock' = (clock + 1) % DayLength
      /\ day' = IF clock + 1 = DayLength THEN NextDay(day) ELSE day
      /\ sleepLeft' = IF sleepLeft > 0 THEN sleepLeft - 1 ELSE 0
      /\ waited' = IF loop = "acquire" THEN waited + 1 ELSE waited
      /\ UNCHANGED <<schedule, loop>>
      /\ \/ loop = "asleep" /\ sleepLeft > 0
         \/ loop = "acquire" /\ waited < MaxWait
         \/ loop \in {"pacing", "check"}
      /\ NeverPollsEarly
  BY DEF HoursInv, SleepsWell, Tick, Failing
<1>2. /\ clock \in Nat /\ clock < DayLength /\ DayLength \in Nat /\ DayLength > 0
      /\ day \in Nat /\ day < NumDays /\ NumDays \in Nat /\ NumDays > 0
      /\ sleepLeft \in Nat /\ waited \in 0..MaxWait /\ MaxWait \in Nat
  BY <1>1, WeekAssumption, MaxWaitAssumption DEF HoursTypeOK, Days
<1>3. NextDay(day) \in Days
  BY <1>2 DEF NextDay, Days
<1>4. clock' \in 0..(DayLength - 1)
  BY <1>1, <1>2
<1>5. HoursTypeOK'
  BY <1>1, <1>2, <1>3, <1>4 DEF HoursTypeOK
<1>8. ASSUME loop = "acquire" PROVE NeverPollsEarly'
  <2>1. loop' = "acquire" /\ waited' = waited + 1 /\ schedule' = schedule
    BY <1>1, <1>8
  <2>2. CASE clock + 1 = DayLength
    <3>1. clock' = 0 /\ waited' > clock'
      BY <1>1, <1>2, <2>1, <2>2
    <3> QED BY <3>1 DEF NeverPollsEarly
  <2>3. CASE clock + 1 # DayLength
    <3>1. clock' = clock + 1 /\ day' = day
      BY <1>1, <1>2, <2>3
    <3>2. StartTime(day)' = StartTime(day)
      BY <2>1, <3>1 DEF StartTime
    <3> SUFFICES ASSUME schedule[day] # NoWork
                 PROVE  clock + 1 >= StartTime(day) \/ waited + 1 > clock + 1
      BY <2>1, <3>1, <3>2 DEF NeverPollsEarly
    <3>3. StartTime(day) \in Int
      BY <1>1, <1>2, Hours DEF Days
    <3>4. clock >= StartTime(day) \/ waited > clock
      BY <1>1, <1>8 DEF NeverPollsEarly
    <3> QED BY <1>2, <3>3, <3>4
  <2> QED BY <2>2, <2>3
<1>6. CASE sleepLeft > 0
  <2>1. loop = "asleep" /\ clock + sleepLeft < DayLength
    BY <1>1, <1>6 DEF RestedInv, NeverOversleeps
  <2>2. clock' = clock + 1 /\ day' = day /\ sleepLeft' = sleepLeft - 1
    BY <1>1, <1>2, <1>6, <2>1
  <2>3. StartTime(day)' = StartTime(day)
    BY <1>1, <2>2 DEF StartTime
  <2>4. schedule[day] # NoWork => clock + sleepLeft = StartTime(day)
    BY <1>1, <1>6 DEF WakesAtStart
  <2>5. clock' + sleepLeft' = clock + sleepLeft /\ clock' \in Nat /\ sleepLeft' \in Nat
    BY <1>2, <1>6, <2>2
  <2>6. WakesAtStart'
    BY <1>1, <2>2, <2>3, <2>4, <2>5 DEF WakesAtStart
  <2>7. sleepLeft' > 0 /\ schedule[day] # NoWork => clock' < StartTime(day)'
    BY <2>3, <2>4, <2>5
  <2>8. sleepLeft' > 0 => ~WorkNow'
    <3> SUFFICES ASSUME sleepLeft' > 0, InSession(day, clock)' PROVE FALSE
      BY DEF WorkNow
    <3>1. schedule[day] # NoWork /\ clock' > StartTime(day)'
      BY <1>1, <2>2 DEF InSession
    <3>2. schedule[day] \in Entries
      BY <1>1, <3>1 DEF HoursTypeOK
    <3>3. StartTime(day) \in Int
      BY <1>1, <1>2, <3>1, Hours DEF Days
    <3> QED BY <3>1, <3>3, <2>3, <2>5, <2>7
  <2>9. NeverOversleeps'
    BY <2>1, <2>5, <2>8 DEF NeverOversleeps
  <2>10. RestedInv'
    BY <1>1, <1>2, <2>1, <2>2, <2>3, <2>4, <2>5 DEF RestedInv
  <2>11. NeverPollsEarly'
    BY <1>1, <2>1 DEF NeverPollsEarly
  <2> QED BY <1>5, <2>6, <2>9, <2>10, <2>11 DEF HoursInv, SleepsWell
<1>7. CASE ~(sleepLeft > 0)
  <2>1. ~(sleepLeft' > 0) /\ loop # "asleep"
    BY <1>1, <1>2, <1>7
  <2>2. NeverOversleeps' /\ WakesAtStart'
    BY <2>1 DEF NeverOversleeps, WakesAtStart
  <2>3. RestedInv'
    BY <1>1, <2>1 DEF RestedInv
  <2>4. loop # "acquire" => NeverPollsEarly'
    BY <1>1 DEF NeverPollsEarly
  <2> QED BY <1>5, <1>8, <2>2, <2>3, <2>4 DEF HoursInv, SleepsWell
<1> QED BY <1>6, <1>7

\* The other steps leave the clock and the sleep alone.
LEMMA AwakeHours ==
  ASSUME HoursInv,
         GoToWork \/ WakeUp \/ PollOnce \/ Pace \/ UNCHANGED hoursVars
  PROVE  HoursInv'
<1>1. /\ HoursTypeOK /\ NeverOversleeps /\ WakesAtStart /\ RestedInv
      /\ NeverPollsEarly
      /\ UNCHANGED <<schedule, day, clock, sleepLeft>>
      /\ loop' \in {"check", "asleep", "acquire", "pacing"}
      /\ loop' = "asleep" => loop = "asleep"
      /\ sleepLeft > 0 => loop' = loop
      /\ waited' \in {waited, 0}
      /\ loop' = "acquire" => waited' = waited
      /\ waited' > 0 => loop' = "acquire"
      /\ loop' = "acquire" => \/ loop = "acquire"
                              \/ loop = "check" /\ WorkNow
                              \/ loop = "asleep" /\ sleepLeft = 0
  BY DEF HoursInv, SleepsWell, HoursTypeOK, RestedInv, GoToWork, WakeUp, PollOnce, Pace,
         hoursVars
<1>2. StartTime(day)' = StartTime(day) /\ (WorkNow' <=> WorkNow)
  BY <1>1 DEF StartTime, EndTime, WorkNow, InSession
<1>3. HoursTypeOK'
  BY <1>1, MaxWaitAssumption DEF HoursTypeOK
<1>4. (NeverOversleeps /\ WakesAtStart)'
  BY <1>1, <1>2 DEF NeverOversleeps, WakesAtStart
<1>5. RestedInv'
  BY <1>1, <1>2 DEF RestedInv
<1>6. NeverPollsEarly'
  <2> SUFFICES ASSUME loop' = "acquire", schedule[day] # NoWork
               PROVE  clock >= StartTime(day) \/ waited' > clock
    BY <1>1, <1>2 DEF NeverPollsEarly
  <2>1. StartTime(day) \in Int /\ clock \in Int
    BY <1>1, Hours DEF HoursTypeOK
  <2>2. WorkNow => clock > StartTime(day)
    BY DEF WorkNow, InSession
  <2> QED BY <1>1, <2>1, <2>2 DEF RestedInv, NeverPollsEarly
<1> QED BY <1>3, <1>4, <1>5, <1>6 DEF HoursInv, SleepsWell

\* For every week and every schedule whose sessions begin and end on their day:
\* the loop never sleeps into a session, and sleeps exactly till the
\* preparation for today's begins.
THEOREM LoopSleepsWell == HoursSpec => []SleepsWell
<1>1. HoursInit => HoursInv
  BY InitHours
<1>2. HoursInv /\ [HoursNext]_hoursVars => HoursInv'
  BY SleepHours, TickHours, AwakeHours DEF HoursNext
<1>3. HoursInv => SleepsWell
  BY DEF HoursInv
<1> QED BY <1>1, <1>2, <1>3, PTL DEF HoursSpec

\* The same invariant says that a poll on a work day comes after its
\* preparation has begun, or was decided on before that day began, however long
\* it waited for its clients.
THEOREM LoopNeverEarly == HoursSpec => []NeverPollsEarly
<1>1. HoursInit => HoursInv
  BY InitHours
<1>2. HoursInv /\ [HoursNext]_hoursVars => HoursInv'
  BY SleepHours, TickHours, AwakeHours DEF HoursNext
<1>3. HoursInv => NeverPollsEarly
  BY DEF HoursInv
<1> QED BY <1>1, <1>2, <1>3, PTL DEF HoursSpec
=============================================================================
