------------------------------ MODULE Calendar ------------------------------
(***************************************************************************)
(* The calendar arithmetic of internal/model: the day number of a civil date *)
(* (time.go), the days a schedule runs on and the next run that is announced *)
(* for it (schedule.go).  A date is a record of year, month and day.  The    *)
(* civil calendar itself, which the code takes from Go's package time, is    *)
(* stated by the lengths of the months and by stepping from day to day.      *)
(***************************************************************************)
EXTENDS Integers, FiniteSets

DayMinutes    == 1440
MaxStartTimes == 4
MaxInterval   == 365
LookAhead     == 14   \* days NextRunAfter looks ahead

Leap(y) == y % 4 = 0 /\ (y % 100 # 0 \/ y % 400 = 0)

MonthLength(y, m) ==
  IF m = 2 THEN IF Leap(y) THEN 29 ELSE 28 ELSE IF m \in {4, 6, 9, 11} THEN 30 ELSE 31

Dates == [y : Nat, m : 1 .. 12, d : 1 .. 31]

Tomorrow(date) ==
  IF date.d < MonthLength(date.y, date.m) THEN [date EXCEPT !.d = @ + 1]
  ELSE IF date.m < 12 THEN [date EXCEPT !.d = 1, !.m = @ + 1]
  ELSE [y |-> date.y + 1, m |-> 1, d |-> 1]

\* time.Weekday, 0 being a Sunday.
Weekday(date) ==
  LET year  == IF date.m <= 2 THEN date.y - 1 ELSE date.y
      month == <<0, 3, 2, 5, 0, 3, 5, 1, 4, 6, 2, 4>>[date.m]
  IN (year + year \div 4 - year \div 100 + year \div 400 + month + date.d) % 7

\* AddDate(0, 0, n): n days on.
DaysOn(date, n) ==
  LET walk[i \in 0 .. n] == IF i = 0 THEN date ELSE Tomorrow(walk[i - 1]) IN walk[n]

\* The months before that of date, the last one of them being number 1.
MonthsAgo(date, k) ==
  LET index == date.y * 12 + date.m - 1 - k IN [y |-> index \div 12, m |-> (index % 12) + 1]

MonthsAgoLength(date, k) == MonthLength(MonthsAgo(date, k).y, MonthsAgo(date, k).m)

\* AddDate(0, -months, 0): how many days back that is.  A day the earlier month
\* does not have is a day of the month that follows it.
DaysBack(date, months) ==
  LET back[k \in 0 .. months] == IF k = 0 THEN 0 ELSE back[k - 1] + MonthsAgoLength(date, k)
  IN back[months]

-----------------------------------------------------------------------------
(* time.go.                                                                 *)

\* A slip: the rule for centuries is forgotten.
DaysFromCivilJulian(y, m, d) ==
  LET year == IF m <= 2 THEN y - 1 ELSE y
      era  == year \div 400
      yoe  == year - era * 400
      doy  == (153 * (IF m > 2 THEN m - 3 ELSE m + 9) + 2) \div 5 + d - 1
  IN era * 146097 + yoe * 365 + yoe \div 4 + doy - 719468

\* Years start in March, so that a leap day is the last of its year.
DaysFromCivil(y, m, d) ==
  LET year == IF m <= 2 THEN y - 1 ELSE y
      era  == year \div 400
      yoe  == year - era * 400
      doy  == (153 * (IF m > 2 THEN m - 3 ELSE m + 9) + 2) \div 5 + d - 1
  IN era * 146097 + yoe * 365 + yoe \div 4 - yoe \div 100 + doy - 719468

EpochDays(date) == DaysFromCivil(date.y, date.m, date.d)

-----------------------------------------------------------------------------
(* schedule.go.                                                             *)

\* What Validate lets through, of the fields that decide when a schedule starts.
IsSchedule(s) ==
  /\ s.enabled \in BOOLEAN /\ s.days \subseteq 0 .. 6 /\ s.restriction \in 0 .. 2
  /\ s.kind = "weekly" \/ (s.kind = "interval" /\ s.interval \in 1 .. MaxInterval)
  /\ s.starts \subseteq 0 .. DayMinutes - 1 /\ Cardinality(s.starts) <= MaxStartTimes

\* A slip: every N days of a month.
RunsOnOfMonth(s, date) ==
  /\ s.enabled
  /\ IF s.kind = "interval" THEN s.interval >= 1 /\ date.d % s.interval = 0
     ELSE /\ s.restriction # 0 => date.d % 2 = s.restriction % 2
          /\ Weekday(date) \in s.days

RunsOn(s, date) ==
  /\ s.enabled
  /\ IF s.kind = "interval" THEN s.interval >= 1 /\ EpochDays(date) % s.interval = 0
     ELSE /\ s.restriction # 0 => date.d % 2 = s.restriction % 2
          /\ Weekday(date) \in s.days

\* The start times of a day that are announced: of today only those to come.
TimesOn(s, date, minute, ahead) ==
  IF RunsOn(s, date) THEN {t \in s.starts : ahead > 0 \/ t > minute} ELSE {}

NoRun == [inDays |-> -1, times |-> {}]

\* A slip: a day whose starts are all over ends the search.
NextRunToday(s, date, minute) ==
  LET search[n \in 0 .. LookAhead + 1] ==
        IF n > LookAhead THEN NoRun
        ELSE IF RunsOn(s, DaysOn(date, n))
        THEN [inDays |-> n, times |-> TimesOn(s, DaysOn(date, n), minute, n)]
        ELSE search[n + 1]
  IN IF s.enabled /\ s.starts # {} THEN search[0] ELSE NoRun

\* Day after day, until one has a start that is still to come.
NextRunAfter(s, date, minute) ==
  LET search[n \in 0 .. LookAhead + 1] ==
        IF n > LookAhead THEN NoRun
        ELSE IF TimesOn(s, DaysOn(date, n), minute, n) # {}
        THEN [inDays |-> n, times |-> TimesOn(s, DaysOn(date, n), minute, n)]
        ELSE search[n + 1]
  IN IF s.enabled /\ s.starts # {} THEN search[0] ELSE NoRun
=============================================================================
