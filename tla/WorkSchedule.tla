---------------------------- MODULE WorkSchedule ----------------------------
(***************************************************************************)
(* WorkSchedule of internal/entity/work_schedule.go and the part of the    *)
(* polling loop that obeys it.  A week has NumDays days of DayLength       *)
(* instants; the schedule gives a day its hours, with a preparation time,  *)
(* or no work at all.  The time zone has no clock changes.                 *)
(*                                                                         *)
(* Time passes while the loop sleeps, paces itself, and waits for its      *)
(* clients: Acquire may have to wait for a group to come back and for the  *)
(* rest interval of the group.  The other steps, the messages of the       *)
(* notifier among them, take no time.                                      *)
(*                                                                         *)
(* The names of its behaviour are its own, so that one module of proofs    *)
(* can extend this module and PollPacing.                                  *)
(***************************************************************************)
EXTENDS Integers, FiniteSets, FiniteSetsExt

CONSTANTS NumDays,    \* days of the week
          DayLength,  \* instants of a day
          Entries,    \* the daily schedules in use: start, end, preparation
          NoWork,     \* a day without an entry
          MaxWait     \* bound: instants a poll waits for its clients

ASSUME WeekAssumption == NumDays \in Nat \ {0} /\ DayLength \in Nat \ {0}
ASSUME EntryAssumption ==
    \A e \in Entries : /\ e.start \in 0..(DayLength - 1)
                       /\ e.end \in e.start..(DayLength - 1)
                       /\ e.preparation \in Nat
ASSUME MaxWaitAssumption == MaxWait \in Nat

VARIABLES schedule,   \* ws.Schedule
          day, clock, \* the weekday, and the instant of the day
          loop,       \* the polling loop: "check", "asleep", "acquire", "pacing"
          sleepLeft,  \* what is left of its time.Sleep
          waited      \* instants since it decided on the poll it waits for

hoursVars == <<schedule, day, clock, loop, sleepLeft, waited>>

Days == 0..(NumDays - 1)

\* Weekday.Next
NextDay(d) == (d + 1) % NumDays

\* getTimesWithPreparation of a day, both on the date of today.
StartTime(d) == schedule[d].start - schedule[d].preparation
EndTime(d) == schedule[d].end + schedule[d].preparation

\* now.After(startTime) && now.Before(endTime), for the entry of day d.
InSession(d, t) == schedule[d] # NoWork /\ t > StartTime(d) /\ t < EndTime(d)

WorkNow == InSession(day, clock)

\* The first day with an entry that the loop of NextWorkSession comes to.
Offsets == {i \in Days : schedule[(day + i) % NumDays] # NoWork}
FirstWorkDay == (day + Min(Offsets)) % NumDays

\* Mutant: after hours the sleep lasts till that instant of the next day.
TillNextDay(d) == IF InSession(d, clock) THEN 0
                  ELSE IF clock < StartTime(d) THEN StartTime(d) - clock
                       ELSE StartTime(d) - clock + DayLength

\* Mutant: the preparation time is taken off twice.
PreparedTwice(d) == IF InSession(d, clock) THEN 0
                    ELSE IF clock < StartTime(d)
                         THEN StartTime(d) - clock - schedule[d].preparation
                         ELSE EndTime(d) - clock

\* The distance to the session of day d, as if it were today: negative when
\* its end has passed.
DistanceTo(d) == IF InSession(d, clock) THEN 0
                 ELSE IF clock < StartTime(d) THEN StartTime(d) - clock
                      ELSE EndTime(d) - clock

\* One of the three situations applies: not so at the very instant a session
\* begins or ends, when the loop looks at the same day till it gives up, and
\* in a week without work.
SessionFound == /\ Offsets # {}
                /\ \/ InSession(FirstWorkDay, clock)
                   \/ clock \notin {StartTime(FirstWorkDay), EndTime(FirstWorkDay)}

-----------------------------------------------------------------------------
HoursInit == /\ schedule \in [Days -> Entries \union {NoWork}]
             /\ day \in Days /\ clock \in 0..(DayLength - 1)
             /\ loop = "check" /\ sleepLeft = 0 /\ waited = 0

\* Working hours: the loop goes on to poll.
GoToWork == /\ loop = "check" /\ WorkNow
            /\ loop' = "acquire"
            /\ UNCHANGED <<schedule, day, clock, sleepLeft, waited>>

\* No work: time.Sleep returns at once for a duration that is not positive.
GoToSleep == /\ loop = "check" /\ ~WorkNow /\ SessionFound
             /\ sleepLeft' = LET d == DistanceTo(FirstWorkDay) IN IF d > 0 THEN d ELSE 0
             /\ loop' = "asleep"
             /\ UNCHANGED <<schedule, day, clock, waited>>

\* The loop goes on without another look at the schedule.
WakeUp == /\ loop = "asleep" /\ sleepLeft = 0
          /\ loop' = "acquire"
          /\ UNCHANGED <<schedule, day, clock, sleepLeft, waited>>

\* Acquire returns, whenever it does, and the poll begins.
PollOnce == /\ loop = "acquire"
            /\ loop' = "pacing"
            /\ waited' = 0
            /\ UNCHANGED <<schedule, day, clock, sleepLeft>>

\* The sleep before the next poll, however long, is over.
Pace == /\ loop = "pacing"
        /\ loop' = "check"
        /\ UNCHANGED <<schedule, day, clock, sleepLeft, waited>>

\* populateWithResponses returned because no session was found: it is called
\* again at once, till the clock has moved on.
Failing == loop = "check" /\ ~WorkNow /\ ~SessionFound

\* The clock moves while the loop sleeps, waits for its clients, paces itself
\* or fails over and over.
Tick == /\ \/ loop = "asleep" /\ sleepLeft > 0
           \/ loop = "acquire" /\ waited < MaxWait
           \/ loop = "pacing"
           \/ Failing
        /\ clock' = (clock + 1) % DayLength
        /\ day' = IF clock + 1 = DayLength THEN NextDay(day) ELSE day
        /\ sleepLeft' = IF sleepLeft > 0 THEN sleepLeft - 1 ELSE 0
        /\ waited' = IF loop = "acquire" THEN waited + 1 ELSE waited
        /\ UNCHANGED <<schedule, loop>>

HoursNext == GoToWork \/ GoToSleep \/ WakeUp \/ PollOnce \/ Pace \/ Tick

HoursSpec == HoursInit /\ [][HoursNext]_hoursVars

-----------------------------------------------------------------------------
\* The types of the variables.
HoursTypeOK == /\ schedule \in [Days -> Entries \union {NoWork}]
               /\ day \in Days /\ clock \in 0..(DayLength - 1)
               /\ loop \in {"check", "asleep", "acquire", "pacing"}
               /\ sleepLeft \in Nat
               /\ waited \in 0..MaxWait

\* The loop never oversleeps: while it has sleep left no session is on, on
\* whatever day of whatever schedule it went to sleep, and the sleep ends the
\* same day.
NeverOversleeps == sleepLeft > 0 => ~WorkNow /\ clock + sleepLeft < DayLength

\* Sent to sleep before the hours of a work day, the loop is back at the very
\* instant the preparation time begins.
WakesAtStart == sleepLeft > 0 /\ schedule[day] # NoWork => clock + sleepLeft = StartTime(day)

\* A sleep ends in time, whenever it began.
SleepsWell == HoursTypeOK /\ NeverOversleeps /\ WakesAtStart

\* A poll of a work day does not begin before the preparation for that day,
\* unless it was decided on the day before: Acquire may keep the loop over
\* midnight, and nobody asks the schedule again.
NeverPollsEarly ==
    loop = "acquire" /\ schedule[day] # NoWork => clock >= StartTime(day) \/ waited > clock
=============================================================================
