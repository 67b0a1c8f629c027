------------------------------- MODULE Windows -------------------------------
(* The time windows of app/core/windows.py: which concrete bucket a window     *)
(* names at a given moment, and how long a bucket is retained.  Time is        *)
(* counted in ticks from a Monday midnight (UTC); a day is DayLength ticks and *)
(* a week DaysPerWeek days.  Only the identity of a bucket matters, so a       *)
(* bucket is a pair <<prefix, number>> instead of the text of its suffix.      *)
EXTENDS Integers

CONSTANTS DayLength,    \* ticks in a UTC day
          DaysPerWeek,  \* days in an ISO week
          DailyTtl,     \* settings.daily_ttl_seconds, in ticks
          WeeklyTtl,    \* settings.weekly_ttl_seconds, in ticks
          MaxTime,      \* bound: the last tick a behaviour may reach
          MaxSkew       \* bound: how far the clocks of the API processes differ

ASSUME CalendarAssumption ==
    /\ DayLength \in Nat \ {0}
    /\ DaysPerWeek \in Nat \ {0}
    /\ MaxTime \in Nat
    /\ MaxSkew \in Nat

(* The defaults of app/core/config.py keep a day for 8 days and a week for 35. *)
ASSUME RetentionAssumption ==
    /\ DailyTtl \in Nat \ {0}
    /\ WeeklyTtl \in Nat \ {0}

Time == 0 .. MaxTime

(* What the clock of some API process may show while a behaviour lasts.        *)
Moment == 0 .. MaxTime + MaxSkew

(* Mutated forms of WindowOrder: the all-time board last, the week before the day. *)
AllTimeLast == <<"daily", "weekly", "all_time">>

WeekBeforeDay == <<"all_time", "weekly", "daily">>

(* class Window, in the order in which `for window in Window` visits it.       *)
WindowOrder == <<"all_time", "daily", "weekly">>

Window == {"all_time", "daily", "weekly"}

AllTimeBucket == <<"all", 0>>

WindowSuffix(window, at) ==
    CASE window = "all_time" -> AllTimeBucket
      [] window = "daily"    -> <<"d", at \div DayLength>>
      [] window = "weekly"   -> <<"w", at \div (DayLength * DaysPerWeek)>>

Bucket == {WindowSuffix(window, at) : window \in Window, at \in Moment}

(* ttl_for: None, "never expire", is NoTtl.                                    *)
NoTtl == -1

TtlFor(window) ==
    CASE window = "daily"    -> DailyTtl
      [] window = "weekly"   -> WeeklyTtl
      [] window = "all_time" -> NoTtl
==============================================================================
