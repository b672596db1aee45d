------------------------------ MODULE Calendar ------------------------------
(***************************************************************************)
(* The calendar of framework/time_util.h: which day and week a time_t is   *)
(* in, how many days lie between two, and how long it is until a time of   *)
(* the day.  The clock ticks in seconds; a day has DaySeconds of them and  *)
(* the local time is Zone seconds ahead of UTC, all year.                  *)
(***************************************************************************)
EXTENDS Integers

CONSTANTS DaySeconds,   \* SECONDS_OF_DAY
          Zone,         \* -timezone, once init_timezone has run
          LastSecond    \* bound: where the clock stops

ASSUME CalendarAssumption ==
    /\ DaySeconds \in Nat \ {0} /\ LastSecond \in Nat
    /\ Zone \in 0..(DaySeconds - 1)

VARIABLES clock,    \* time(NULL)
          asked,    \* seconds_to_nearest_time is at work: the time of the day wanted, and
                    \* the second at which it read the clock first
          answer    \* what it is about to return

calendarVars == <<clock, asked, answer>>

NoQuestion == [wanted |-> -1, seen |-> -1]
NoAnswer == -1
IntMax == 2147483647
WeekSeconds == 7 * DaySeconds

\* What localtime_r makes of a time_t: the epoch was a Thursday.
LocalDay(t) == (t + Zone) \div DaySeconds
TimeOfDay(t) == (t + Zone) % DaySeconds
Weekday(t) == (LocalDay(t) + 4) % 7

ElapsedOfDay(t) == TimeOfDay(IF t = 0 THEN clock ELSE t)

ElapsedOfWeek(t) ==
    LET at == IF t = 0 THEN clock ELSE t
    IN Weekday(at) * DaySeconds + ElapsedOfDay(at)

SameDay(first, second) == (first + Zone) \div DaySeconds = (second + Zone) \div DaySeconds

SameWeek(first, second) ==
    /\ first # 0 /\ second # 0
    /\ first - second \in -WeekSeconds..WeekSeconds
    /\ \/ SameDay(first, second)
       \/ second < first /\ first - second <= ElapsedOfWeek(first)
       \/ second >= first /\ second - first <= WeekSeconds - ElapsedOfWeek(first)

\* A fault in the code that the property must catch: the day that has begun is not counted.
RoundedDown(seconds) == seconds \div DaySeconds

RoundedUp(seconds) == seconds \div DaySeconds + (IF seconds % DaySeconds > 0 THEN 1 ELSE 0)

\* get_passed_days_between; get_passed_days_since is the same up to the clock.
DaysBetween(last, end) ==
    CASE last < 0 -> IntMax
      [] last >= 0 /\ last > end -> 0
      [] last >= 0 /\ last = end -> 1
      [] last = 0 /\ last < end -> RoundedUp(end)
      [] OTHER ->
           LET left == DaySeconds - ElapsedOfDay(last)
           IN IF end - last < left THEN 1 ELSE RoundedUp(end - last - left) + 1

CalendarInit == clock = 0 /\ asked = NoQuestion /\ answer = NoAnswer

ClockTicks ==
    /\ answer = NoAnswer /\ clock < LastSecond
    /\ clock' = clock + 1
    /\ UNCHANGED <<asked, answer>>

\* seconds_to_nearest_time up to the comparison with the time it read.
AskNearest(wanted) ==
    /\ asked = NoQuestion
    /\ asked' = [wanted |-> wanted, seen |-> clock]
    /\ answer' = IF TimeOfDay(clock) > wanted THEN NoAnswer ELSE wanted - TimeOfDay(clock)
    /\ UNCHANGED clock

\* The wanted time is tomorrow's: the rest of today comes from a second reading.
AddRestOfDay ==
    /\ asked # NoQuestion /\ answer = NoAnswer
    /\ answer' = DaySeconds - ElapsedOfDay(0) + asked.wanted
    /\ UNCHANGED <<clock, asked>>

NearestReturns ==
    /\ answer # NoAnswer
    /\ asked' = NoQuestion /\ answer' = NoAnswer
    /\ UNCHANGED clock

CalendarNext ==
    \/ ClockTicks \/ AddRestOfDay \/ NearestReturns
    \/ \E wanted \in 0..(DaySeconds - 1) : AskNearest(wanted)

CalendarSpec == CalendarInit /\ [][CalendarNext]_calendarVars
-----------------------------------------------------------------------------
\* A week begins with the Sunday's first second.
WeekOf(t) == (LocalDay(t) + 4) \div 7

WeekBegins(t) == Weekday(t) = 0 /\ TimeOfDay(t) = 0

\* Two times in one week are found to be, whichever is later, and times in two weeks are
\* not.  The second a week begins with is asked about as the later one of the two only by
\* WeeksAsSaid (time_util.h:319-365).
WeeksRight ==
    \A t \in 1..LastSecond :
        ~(t < clock /\ WeekBegins(clock)) =>
            (SameWeek(t, clock) <=> clock # 0 /\ WeekOf(t) = WeekOf(clock))

\* The first day counts as one and each later one as one more, whatever the time of the
\* day at both ends; that an end may be a midnight only DaysAsSaid says (h:263-316).
DaysRight ==
    \A last \in 1..(clock - 1) :
        TimeOfDay(clock) # 0 =>
            DaysBetween(last, clock) = LocalDay(clock) - LocalDay(last) + 1

UntilNext(wanted) == CHOOSE n \in 0..(DaySeconds - 1) : TimeOfDay(clock + n) = wanted

\* Midnight passed between the two readings, and the time is still to come today.
WantedIsToday ==
    LocalDay(clock) # LocalDay(asked.seen) /\ TimeOfDay(clock) <= asked.wanted

\* What is returned leads to the next time that the clock shows the wanted time of the day,
\* also when midnight has passed between the two readings and the time with it; when it is
\* still to come, only NearestAsSaid says so (h:223-245).
NearestRight ==
    answer # NoAnswer /\ ~WantedIsToday => answer = UntilNext(asked.wanted)

\* Weeks, days and waits agree with the calendar at every pair of times, but at the three
\* boundaries where the code departs from its own comments (h:99-366).
CalendarRight == WeeksRight /\ DaysRight /\ NearestRight

\* What the comments say, without exception.  Two times are in one week if they are, which
\* begins on Sunday (h:318).
WeeksAsSaid ==
    \A t \in 1..LastSecond : SameWeek(t, clock) <=> clock # 0 /\ WeekOf(t) = WeekOf(clock)

\* The day of the first time is the first one, the day of the other is counted (h:290-291).
DaysAsSaid ==
    \A last \in 1..(clock - 1) : DaysBetween(last, clock) = LocalDay(clock) - LocalDay(last) + 1

\* The seconds left until the nearest time of the day that was asked for (h:221).
NearestAsSaid == answer # NoAnswer => answer = UntilNext(asked.wanted)
=============================================================================
