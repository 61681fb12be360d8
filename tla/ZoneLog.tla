------------------------------- MODULE ZoneLog -------------------------------
(***************************************************************************)
(* Days go by: the engine lists the starts of a schedule at midnight and     *)
(* waters when they come, every run leaves a row in the zone log of          *)
(* internal/store/logstore.go, the daemon prunes the log when it starts and  *)
(* every 24 hours after that, and the API announces the next run.  The clock *)
(* stops at the minutes named by Minutes and, whatever these are, at         *)
(* midnight, the starts of the schedule and the time of a pruning.           *)
(*                                                                          *)
(* Nothing waits or is cut short here (see module Engine), so that a run is  *)
(* its start; times are minutes since the first day of 1970.                 *)
(***************************************************************************)
EXTENDS Calendar

CONSTANTS
  Worlds,        \* first day, schedule and retention
  Retentions,    \* settings of the retention, in months, 0 = for ever
  Minutes,       \* minutes of a day at which the clock stops
  MaxDays,       \* bound: days that go by
  MaxEvents      \* bound: settings saved, restarts and announcements

ASSUME Parameters ==
  /\ \A w \in Worlds : /\ w.date \in Dates /\ w.date.d <= MonthLength(w.date.y, w.date.m)
                       /\ w.date.y >= 1970
                       /\ IsSchedule(w.schedule) /\ w.retention \in 0 .. 120
  /\ Retentions \subseteq 0 .. 120
  /\ Minutes \subseteq 0 .. DayMinutes - 1
  /\ {MaxDays, MaxEvents} \subseteq Nat

VARIABLES
  date,       \* today
  number,     \* history: its number, counted one by one from that of the first day
  minute,     \* the minute of the day
  schedule,   \* the schedule
  list,       \* the engine's list of starts still to come today
  retention,  \* the setting
  log,        \* the times of the rows
  pruneAt,    \* when the loop of main prunes next
  pruned,     \* history: the retention the log was last pruned by
  promise,    \* history: the last announcement and when it was given, for two weeks
  days, events   \* count towards the bounds

clock  == <<date, number, minute>>
counts == <<days, events>>
vars   == <<clock, schedule, list, retention, log, pruneAt, pruned, promise, counts>>

NoPromise == [at |-> -1, run |-> NoRun]

Now == number * DayMinutes + minute

\* rebuildPendingLocked at midnight takes all starts of the day, later only
\* those to come.
Listed(day, includePast, m) ==
  IF RunsOn(schedule, day) THEN {t \in schedule.starts : includePast \/ t > m} ELSE {}

\* A slip: a month is thirty days.
CutoffThirty(months) == Now - 30 * months * DayMinutes

\* Prune: DELETE ... WHERE date < cutoff.
Cutoff(months) == Now - DaysBack(date, months) * DayMinutes

Prune ==
  /\ pruneAt <= Now
  /\ log' = IF retention = 0 THEN log ELSE {t \in log : t >= Cutoff(retention)}
  /\ pruneAt' = Now + DayMinutes /\ pruned' = retention
  /\ UNCHANGED <<clock, schedule, list, retention, promise, counts>>

\* The tick at time m of day: the starts due are watered and logged.
Water(starts, m) ==
  /\ list' = {t \in starts : t > m}
  /\ log' = log \cup {number' * DayMinutes + t : t \in {t \in starts : t <= m}}

Stops == Minutes \cup schedule.starts \cup {pruneAt % DayMinutes}

\* The clock goes on to the next stop; a timer that is due is served first.
LaterToday ==
  /\ Now < pruneAt
  /\ \E m \in Stops : /\ m > minute /\ \A other \in Stops : other > minute => m <= other
                      /\ minute' = m /\ UNCHANGED <<date, number>>
                      /\ Water(list, m)
  /\ UNCHANGED <<schedule, retention, pruneAt, pruned, promise, counts>>

Midnight ==
  /\ Now < pruneAt /\ days < MaxDays /\ days' = days + 1
  /\ \A m \in Stops : m <= minute
  /\ date' = Tomorrow(date) /\ number' = number + 1 /\ minute' = 0
  /\ Water(Listed(date', TRUE, 0), 0)
  /\ promise' = IF number' > promise.at \div DayMinutes + LookAhead THEN NoPromise ELSE promise
  /\ UNCHANGED <<schedule, retention, pruneAt, pruned, events>>

SaveRetention ==
  /\ events < MaxEvents /\ events' = events + 1
  /\ retention' \in Retentions \ {retention}
  /\ UNCHANGED <<clock, schedule, list, log, pruneAt, pruned, promise, days>>

\* A new process: the first tick lists what is still to come, the log is pruned.
Restart ==
  /\ events < MaxEvents /\ events' = events + 1
  /\ list' = Listed(date, FALSE, minute) /\ pruneAt' = Now
  /\ UNCHANGED <<clock, schedule, retention, log, pruned, promise, days>>

\* The API shows the next run of the schedule.
Announce ==
  /\ events < MaxEvents /\ events' = events + 1
  /\ promise' = [at |-> Now, run |-> NextRunAfter(schedule, date, minute)]
  /\ UNCHANGED <<clock, schedule, list, retention, log, pruneAt, pruned, days>>

Init ==
  /\ \E w \in Worlds : date = w.date /\ schedule = w.schedule /\ retention = w.retention
  /\ number = EpochDays(date)
  /\ minute = 0 /\ list = Listed(date, FALSE, 0)
  /\ log = {} /\ pruneAt = Now /\ pruned = 0
  /\ promise = NoPromise
  /\ days = 0 /\ events = 0

Next == Prune \/ LaterToday \/ Midnight \/ SaveRetention \/ Restart \/ Announce

Spec == Init /\ [][Next]_vars

-----------------------------------------------------------------------------
(* Properties.                                                              *)

\* Types; the number time.go computes of a day is the count of the days that went
\* by, one after the other, since 1970, and the days of the week follow from it.
TypeOK ==
  /\ date \in Dates /\ date.d <= MonthLength(date.y, date.m)
  /\ number \in Nat /\ minute \in 0 .. DayMinutes - 1
  /\ number = EpochDays(date)
  /\ Weekday(date) = (number + 4) % 7     \* the first day of 1970 was a Thursday
  /\ schedule \in {w.schedule : w \in Worlds} /\ list \subseteq schedule.starts
  /\ {retention, pruned} \subseteq 0 .. 120
  /\ \A t \in log : t \in Nat /\ t <= Now
  /\ pruneAt \in Nat

Times(day) == {t \in log : t \div DayMinutes = day}

\* A schedule that runs every N days does so: where it watered, it watered N days
\* later and not in between, over the ends of months, years and centuries and
\* over leap days (time.go:13-31).  Rows are kept longer than any N looked at.
EveryNDays ==
  schedule.kind = "interval" =>
    \A t \in log : LET day == t \div DayMinutes IN
      /\ \A n \in 1 .. schedule.interval - 1 : Times(day + n) = {}
      /\ day + schedule.interval < number =>
           Cardinality(Times(day + schedule.interval)) = Cardinality(schedule.starts)

Announced == promise.run # NoRun
FirstDay  == promise.at \div DayMinutes + promise.run.inDays

\* What is announced is what happens: nothing is watered before the announced
\* day, nor for two weeks if nothing is announced, and on it at exactly the
\* announced times, of which there is one, whatever is restarted in between (schedule.go:134-161).
AnnouncementKept ==
  promise # NoPromise =>
    LET since == {t \in log : t > promise.at} IN
    IF Announced
    THEN /\ promise.run.times # {}
         /\ \A t \in since : t \div DayMinutes >= FirstDay
         /\ {t \in since : t \div DayMinutes = FirstDay}
              = {t \in {FirstDay * DayMinutes + m : m \in promise.run.times} : t <= Now}
    ELSE since = {}

\* The same day some months ago, or the last one of that month.
Anniversary(months) ==
  LET length == MonthsAgoLength(date, months) IN
  number - DaysBack(date, months) - (IF date.d > length THEN date.d - length ELSE 0)

\* Rows go when they are older than the retention says and not before, except
\* that up to three days go early where the month before is too short to have the
\* day it is; and, as long as the setting stays, none stays longer than from the
\* last day of a short month to the next first (config.go:72-74, logstore.go:73-91).
RetentionKept ==
  /\ [][\A t \in log \ log' :
          LET early == IF date.d > MonthsAgoLength(date, retention) THEN 3 ELSE 0 IN
          t < (Anniversary(retention) + early) * DayMinutes + minute]_vars
  /\ [](retention = pruned /\ retention > 0 =>
          \A t \in log : t >= (Anniversary(retention) - 4) * DayMinutes + minute)
=============================================================================
