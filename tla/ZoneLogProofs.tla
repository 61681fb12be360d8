--------------------------- MODULE ZoneLogProofs ---------------------------
(***************************************************************************)
(* The properties of module ZoneLog, for every first day from 1970 on, every   *)
(* schedule that Validate lets through, every retention and however long the   *)
(* days go by.                                                                 *)
(***************************************************************************)
EXTENDS ZoneLog, CalendarProofs, FiniteSetTheorems

\* The minutes of a schedule are minutes of a day.
LEMMA Starts ==
  ASSUME schedule \in {w.schedule : w \in Worlds}
  PROVE  \A t \in schedule.starts : t \in 0 .. DayMinutes - 1
  BY Parameters DEF IsSchedule

\* A day begins at an instant.
LEMMA DayStart ==
  ASSUME NEW n \in Nat
  PROVE  n * DayMinutes \in Nat
  BY SMT DEF DayMinutes

\* What a tick waters and logs has come by then.
LEMMA WaterTypes ==
  ASSUME NEW starts, NEW m \in 0 .. DayMinutes - 1, Water(starts, m),
         \A t \in starts : t \in 0 .. DayMinutes - 1,
         number' \in Nat, minute' = m, Now \in Nat, Now' \in Nat, Now <= Now',
         \A t \in log : t \in Nat /\ t <= Now
  PROVE  list' \subseteq starts /\ \A t \in log' : t \in Nat /\ t <= Now'
<1>1. list' \subseteq starts
  BY DEF Water
<1>2. ASSUME NEW t \in log' PROVE t \in Nat /\ t <= Now'
  <2>1. CASE t \in log
    BY <2>1, SMT
  <2>2. CASE \E s \in starts : s <= m /\ t = number' * DayMinutes + s
    <3>1. PICK s \in starts : s <= m /\ t = number' * DayMinutes + s
      BY <2>2
    <3>2. s \in 0 .. DayMinutes - 1
      BY <3>1
    <3>. DEFINE base == number' * DayMinutes
    <3>3. base \in Nat
      BY DayStart
    <3>4. Now' = base + m
      BY DEF Now
    <3>5. t = base + s
      BY <3>1
    <3>. HIDE DEF base
    <3>6. t \in Nat /\ t <= base + m
      BY ONLY <3>1, <3>2, <3>3, <3>5, SMT DEF DayMinutes
    <3>. QED BY <3>4, <3>6
  <2>. QED BY <2>1, <2>2 DEF Water
<1>. QED BY <1>1, <1>2

\* The first state has its types.
LEMMA InitTypes ==
  ASSUME Init
  PROVE  TypeOK
<1>1. PICK w \in Worlds : date = w.date /\ schedule = w.schedule /\ retention = w.retention
  BY DEF Init
<1>2. /\ date \in Dates /\ date.d <= MonthLength(date.y, date.m) /\ date.y >= 1970
      /\ retention \in 0 .. 120
  BY <1>1, Parameters
<1>3. number = EpochDays(date) /\ number \in Int /\ number >= 0
  BY <1>2, NumbersFrom1970 DEF Init
<1>4. Weekday(date) = (number + 4) % 7
  BY <1>2, <1>3, WeekdayOfNumber
<1>5. schedule \in {v.schedule : v \in Worlds} /\ list \subseteq schedule.starts
  BY <1>1 DEF Init, Listed
<1>6. /\ number \in Nat /\ minute \in 0 .. DayMinutes - 1 /\ pruneAt \in Nat
      /\ pruned \in 0 .. 120
  BY <1>3, SMT DEF Init, Now, DayMinutes
<1>7. log = {}
  BY DEF Init
<1>. QED BY <1>2, <1>3, <1>4, <1>5, <1>6, <1>7 DEF TypeOK

\* Every step keeps them.
LEMMA NextTypes ==
  ASSUME TypeOK, [Next]_vars
  PROVE  TypeOK'
<1>0. /\ number \in Nat /\ minute \in 0 .. DayMinutes - 1 /\ pruneAt \in Nat
      /\ \A t \in schedule.starts : t \in 0 .. DayMinutes - 1
  BY Starts DEF TypeOK
<1>1. Now \in Nat /\ \A t \in schedule.starts : t \in 0 .. DayMinutes - 1
  BY <1>0, SMT DEF Now, DayMinutes
<1>. USE DEF TypeOK
<1>2. CASE Prune
  <2>1. /\ UNCHANGED clock /\ UNCHANGED <<schedule, list, retention>>
        /\ log' \subseteq log /\ pruneAt' = Now + DayMinutes /\ pruned' = retention
    BY <1>2 DEF Prune
  <2>2. pruneAt' \in Nat /\ Now' = Now
    BY <1>1, <2>1, SMT DEF clock, Now, DayMinutes
  <2>. QED BY <2>1, <2>2 DEF clock
<1>3. CASE LaterToday
  <2>1. PICK m \in Stops : /\ m > minute /\ minute' = m /\ UNCHANGED <<date, number>>
                           /\ Water(list, m)
    BY <1>3 DEF LaterToday
  <2>2. UNCHANGED <<schedule, retention, pruneAt, pruned>>
    BY <1>3 DEF LaterToday
  <2>3. m \in 0 .. DayMinutes - 1
    <3>1. pruneAt % DayMinutes \in 0 .. DayMinutes - 1
      BY <1>0, SMT DEF DayMinutes
    <3>2. \A t \in Minutes : t \in 0 .. DayMinutes - 1
      BY Parameters
    <3>. HIDE DEF TypeOK
    <3>. QED BY <1>0, <3>1, <3>2 DEF Stops
  <2>4. Now' \in Nat /\ Now <= Now'
    <3>1. number' = number /\ Now' = number' * DayMinutes + minute'
      BY <2>1 DEF Now
    <3>2. minute' = m /\ m > minute /\ number \in Nat /\ minute \in 0 .. DayMinutes - 1
      BY <1>0, <2>1
    <3>. QED BY ONLY <2>3, <3>1, <3>2, SMT DEF Now, DayMinutes
  <2>5. list' \subseteq list /\ \A t \in log' : t \in Nat /\ t <= Now'
    BY <1>1, <2>1, <2>3, <2>4, WaterTypes
  <2>. QED BY <2>1, <2>2, <2>3, <2>5
<1>4. CASE Midnight
  <2>1. /\ date' = Tomorrow(date) /\ number' = number + 1 /\ minute' = 0
        /\ Water(Listed(date', TRUE, 0), 0)
        /\ UNCHANGED <<schedule, retention, pruneAt, pruned>>
    BY <1>4 DEF Midnight
  <2>2. date' \in Dates /\ (date.d <= MonthLength(date.y, date.m))' /\ number' \in Nat
    BY <2>1, TomorrowIsDate
  <2>3. number' = EpochDays(date')
    BY <2>1, NextDayNextNumber
  <2>4. Weekday(date') = (number' + 4) % 7
    BY <2>2, <2>3, WeekdayOfNumber
  <2>5. Now' \in Nat /\ Now <= Now' /\ 0 \in 0 .. DayMinutes - 1
    BY <1>1, <2>1, SMT DEF Now, DayMinutes
  <2>6. Listed(date', TRUE, 0) \subseteq schedule.starts
    BY DEF Listed
  <2>7. list' \subseteq schedule.starts /\ \A t \in log' : t \in Nat /\ t <= Now'
    BY <1>1, <2>1, <2>2, <2>5, <2>6, WaterTypes
  <2>. QED BY <2>1, <2>2, <2>3, <2>4, <2>5, <2>7
<1>5. CASE SaveRetention
  <2>1. /\ UNCHANGED clock /\ UNCHANGED <<schedule, list, log, pruneAt, pruned>>
        /\ retention' \in Retentions
    BY <1>5 DEF SaveRetention
  <2>. QED BY <2>1, Parameters DEF clock, Now
<1>6. CASE Restart
  <2>1. /\ UNCHANGED clock /\ UNCHANGED <<schedule, retention, log, pruned>>
        /\ list' = Listed(date, FALSE, minute) /\ pruneAt' = Now
    BY <1>6 DEF Restart
  <2>2. list' \subseteq schedule.starts
    BY <2>1 DEF Listed
  <2>. QED BY <1>1, <2>1, <2>2 DEF clock, Now
<1>7. CASE Announce
  BY <1>7 DEF Announce, clock, Now
<1>8. CASE UNCHANGED vars
  BY <1>8 DEF vars, clock, Now
<1>. QED BY <1>2, <1>3, <1>4, <1>5, <1>6, <1>7, <1>8 DEF Next

\* The day number of time.go is the count of the days and the days of the week
\* follow from it, on every day that comes; what is listed is a start of the
\* schedule and what is logged has been.
THEOREM TypeCorrect == Spec => []TypeOK
<1>1. Init => TypeOK
  BY InitTypes
<1>2. TypeOK /\ [Next]_vars => TypeOK'
  BY NextTypes
<1>. QED BY <1>1, <1>2, PTL DEF Spec

-----------------------------------------------------------------------------
(* What the clock going on means for the log.                               *)

\* A day and a minute of it are an instant,
LEMMA InstantOf ==
  ASSUME NEW n \in Int, NEW m \in 0 .. DayMinutes - 1
  PROVE  /\ n * DayMinutes + m \in Int /\ (n \in Nat => n * DayMinutes + m \in Nat)
         /\ (n * DayMinutes + m) \div DayMinutes = n /\ (n * DayMinutes + m) % DayMinutes = m
  BY SMT DEF DayMinutes

\* an instant is a day and a minute of it,
LEMMA DayOf ==
  ASSUME NEW t \in Int
  PROVE  /\ t \div DayMinutes \in Int /\ t % DayMinutes \in 0 .. DayMinutes - 1
         /\ t = (t \div DayMinutes) * DayMinutes + (t % DayMinutes)
         /\ t \in Nat => t \div DayMinutes \in Nat
  BY SMT DEF DayMinutes

\* and instants are ordered by their days first.
LEMMA InstantOrder ==
  ASSUME NEW n \in Int, NEW k \in Int,
         NEW m \in 0 .. DayMinutes - 1, NEW l \in 0 .. DayMinutes - 1
  PROVE  n * DayMinutes + m < k * DayMinutes + l <=> n < k \/ (n = k /\ m < l)
  BY SMT DEF DayMinutes

\* The engine's list is what the schedule has left of the day.
ListExact == list = Listed(date, FALSE, minute)

\* What a tick at minute m adds to the log.
LEMMA WaterAdds ==
  ASSUME NEW starts, NEW m \in 0 .. DayMinutes - 1, Water(starts, m),
         \A t \in starts : t \in 0 .. DayMinutes - 1, number' \in Nat
  PROVE  /\ log \subseteq log'
         /\ \A x \in log' \ log : /\ x \in Nat /\ x <= number' * DayMinutes + m
                                  /\ x \div DayMinutes = number' /\ x % DayMinutes \in starts
         /\ \A t \in starts : t <= m => number' * DayMinutes + t \in log'
<1>1. log' = log \cup {number' * DayMinutes + t : t \in {t \in starts : t <= m}}
  BY DEF Water
<1>2. ASSUME NEW x \in log' \ log
      PROVE  /\ x \in Nat /\ x <= number' * DayMinutes + m
             /\ x \div DayMinutes = number' /\ x % DayMinutes \in starts
  <2>1. PICK t \in starts : t <= m /\ x = number' * DayMinutes + t
    BY <1>1, <1>2
  <2>2. t \in 0 .. DayMinutes - 1 /\ number' \in Nat
    BY <2>1
  <2>3. x \in Nat /\ x \div DayMinutes = number' /\ x % DayMinutes = t
    <3>1. number' \in Int
      BY <2>2
    <3>. QED BY <2>1, <2>2, <3>1, InstantOf
  <2>4. x <= number' * DayMinutes + m
    <3>. DEFINE base == number' * DayMinutes
    <3>1. base \in Nat /\ x = base + t
      BY <2>1, <2>2, DayStart
    <3>. HIDE DEF base
    <3>2. t \in Int /\ m \in Int /\ t <= m
      BY <2>1, <2>2, SMT DEF DayMinutes
    <3>3. x <= base + m
      BY ONLY <3>1, <3>2, SMT
    <3>. QED BY <3>3 DEF base
  <2>. QED BY <2>1, <2>3, <2>4
<1>. QED BY <1>1, <1>2

\* When the clock goes on, the starts that have come are logged, and they are all on
\* the day that it then is.
LEMMA TimePasses ==
  ASSUME TypeOK, TypeOK', ListExact, LaterToday \/ Midnight
  PROVE  /\ schedule' = schedule /\ Now \in Nat /\ Now' \in Nat /\ Now < Now'
         /\ log \subseteq log'
         /\ \A x \in log' \ log : /\ x \in Nat /\ Now < x /\ x <= Now'
                                  /\ x \div DayMinutes = number'
                                  /\ x % DayMinutes \in schedule.starts
                                  /\ RunsOn(schedule, date')
         /\ \A n \in Int, m \in schedule.starts :
              Now < n * DayMinutes + m /\ n * DayMinutes + m <= Now'
                => /\ n = number'
                   /\ RunsOn(schedule, date') => n * DayMinutes + m \in log'
         /\ ListExact'
<1>0. /\ number \in Nat /\ minute \in 0 .. DayMinutes - 1
      /\ number' \in Nat /\ minute' \in 0 .. DayMinutes - 1
      /\ \A t \in schedule.starts : t \in 0 .. DayMinutes - 1
  BY Starts DEF TypeOK
<1>1. /\ Now = number * DayMinutes + minute /\ Now \in Nat
      /\ Now' = number' * DayMinutes + minute' /\ Now' \in Nat
  <2>1. Now = number * DayMinutes + minute /\ Now' = number' * DayMinutes + minute'
    BY DEF Now
  <2>2. number * DayMinutes + minute \in Nat /\ number' * DayMinutes + minute' \in Nat
    <3>1. number \in Int /\ number' \in Int
      BY <1>0
    <3>. QED BY <1>0, <3>1, InstantOf
  <2>. QED BY <2>1, <2>2
<1>2. CASE LaterToday
  <2>1. PICK m \in Stops : /\ m > minute /\ \A other \in Stops : other > minute => m <= other
                           /\ minute' = m /\ UNCHANGED <<date, number>>
                           /\ Water(list, m)
    BY <1>2 DEF LaterToday
  <2>2. schedule' = schedule
    BY <1>2 DEF LaterToday
  <2>3. m \in 0 .. DayMinutes - 1 /\ m > minute /\ minute' = m /\ number' = number
        /\ date' = date
    BY <1>0, <2>1
  <2>4. list = IF RunsOn(schedule, date) THEN {t \in schedule.starts : t > minute} ELSE {}
    BY DEF ListExact, Listed
  <2>5. \A t \in list : t \in 0 .. DayMinutes - 1
    BY <1>0, <2>4
  <2>6. /\ log \subseteq log'
        /\ \A x \in log' \ log : /\ x \in Nat /\ x <= number' * DayMinutes + m
                                 /\ x \div DayMinutes = number' /\ x % DayMinutes \in list
        /\ \A t \in list : t <= m => number' * DayMinutes + t \in log'
    BY <1>0, <2>1, <2>3, <2>5, WaterAdds
  <2>7. Now < Now'
    BY <1>0, <1>1, <2>3, SMT DEF DayMinutes
  <2>8. ASSUME NEW x \in log' \ log
        PROVE  /\ x \in Nat /\ Now < x /\ x <= Now' /\ x \div DayMinutes = number'
               /\ x % DayMinutes \in schedule.starts /\ RunsOn(schedule, date')
    <3>1. /\ x \in Nat /\ x <= Now' /\ x \div DayMinutes = number'
          /\ x % DayMinutes \in list
      BY <1>1, <2>3, <2>6
    <3>2. /\ x % DayMinutes \in schedule.starts /\ RunsOn(schedule, date')
          /\ x % DayMinutes > minute
      BY <2>3, <2>4, <3>1
    <3>3. Now < x
      BY ONLY <1>0, <1>1, <2>3, <3>1, <3>2, SMT DEF DayMinutes
    <3>. QED BY <3>1, <3>2, <3>3
  <2>9. ASSUME NEW n \in Int, NEW t \in schedule.starts,
               Now < n * DayMinutes + t, n * DayMinutes + t <= Now'
        PROVE  /\ n = number'
               /\ RunsOn(schedule, date') => n * DayMinutes + t \in log'
    <3>1. t \in 0 .. DayMinutes - 1
      BY <1>0
    <3>2. n = number /\ t > minute /\ t <= m
      BY ONLY n \in Int, <1>0, <1>1, <2>3, <2>9, <3>1, SMT DEF DayMinutes
    <3>3. RunsOn(schedule, date') => t \in list
      BY <2>3, <2>4, <3>2
    <3>. QED BY <2>3, <2>6, <3>2, <3>3
  <2>10. ListExact'
    <3>1. list' = {t \in list : t > m}
      BY <2>1 DEF Water
    <3>2. list' = IF RunsOn(schedule, date) THEN {t \in schedule.starts : t > m} ELSE {}
      <4>1. CASE RunsOn(schedule, date)
        <5>1. \A t \in schedule.starts : t > m => t > minute
          BY <1>0, <2>3
        <5>. QED BY <2>4, <3>1, <4>1, <5>1
      <4>2. CASE ~RunsOn(schedule, date)
        BY <2>4, <3>1, <4>2
      <4>. QED BY <4>1, <4>2
    <3>3. list' = IF RunsOn(schedule', date') THEN {t \in schedule'.starts : t > minute'}
                                              ELSE {}
      BY <2>2, <2>3, <3>2
    <3>. QED BY <3>3 DEF ListExact, Listed
  <2>. QED BY <1>1, <2>2, <2>6, <2>7, <2>8, <2>9, <2>10
<1>3. CASE Midnight
  <2>1. /\ \A m \in Stops : m <= minute
        /\ number' = number + 1 /\ minute' = 0 /\ Water(Listed(date', TRUE, 0), 0)
        /\ schedule' = schedule
    BY <1>3 DEF Midnight
  <2>2. \A t \in schedule.starts : t <= minute
    BY <2>1 DEF Stops
  <2>. DEFINE today == IF RunsOn(schedule, date') THEN schedule.starts ELSE {}
  <2>3. Listed(date', TRUE, 0) = today
    BY DEF Listed
  <2>4. \A t \in today : t \in 0 .. DayMinutes - 1
    BY <1>0
  <2>5. Water(today, 0) /\ 0 \in 0 .. DayMinutes - 1
    <3>1. Water(today, 0)
      BY <2>1, <2>3, Zenon
    <3>. QED BY <3>1, SMT DEF DayMinutes
  <2>6. /\ log \subseteq log'
        /\ \A x \in log' \ log : /\ x \in Nat /\ x <= number' * DayMinutes + 0
                                 /\ x \div DayMinutes = number' /\ x % DayMinutes \in today
        /\ \A t \in today : t <= 0 => number' * DayMinutes + t \in log'
    BY <1>0, <2>4, <2>5, WaterAdds
  <2>7. Now < Now'
    BY <1>0, <1>1, <2>1, SMT DEF DayMinutes
  <2>8. ASSUME NEW x \in log' \ log
        PROVE  /\ x \in Nat /\ Now < x /\ x <= Now' /\ x \div DayMinutes = number'
               /\ x % DayMinutes \in schedule.starts /\ RunsOn(schedule, date')
    <3>1. /\ x \in Nat /\ x <= number' * DayMinutes + 0 /\ x \div DayMinutes = number'
          /\ x % DayMinutes \in schedule.starts /\ RunsOn(schedule, date')
      BY <2>6
    <3>2. x <= Now' /\ Now < x
      BY ONLY <1>0, <1>1, <2>1, <3>1, SMT DEF DayMinutes
    <3>. QED BY <3>1, <3>2
  <2>9. ASSUME NEW n \in Int, NEW t \in schedule.starts,
               Now < n * DayMinutes + t, n * DayMinutes + t <= Now'
        PROVE  /\ n = number'
               /\ RunsOn(schedule, date') => n * DayMinutes + t \in log'
    <3>1. t \in 0 .. DayMinutes - 1 /\ t <= minute
      BY <1>0, <2>2
    <3>2. n = number' /\ t = 0
      BY ONLY n \in Int, <1>0, <1>1, <2>1, <2>9, <3>1, SMT DEF DayMinutes
    <3>3. ASSUME RunsOn(schedule, date') PROVE n * DayMinutes + t \in log'
      <4>1. t \in today /\ t <= 0
        BY <3>2, <3>3
      <4>. QED BY <2>6, <3>2, <4>1
    <3>. QED BY <3>2, <3>3
  <2>10. ListExact'
    <3>1. list' = {t \in today : t > 0}
      BY <2>5 DEF Water
    <3>2. list' = IF RunsOn(schedule, date') THEN {t \in schedule.starts : t > 0} ELSE {}
      BY <3>1
    <3>3. list' = IF RunsOn(schedule', date') THEN {t \in schedule'.starts : t > minute'}
                                              ELSE {}
      BY <2>1, <3>2
    <3>. QED BY <3>3 DEF ListExact, Listed
  <2>. QED BY <1>1, <2>1, <2>6, <2>7, <2>8, <2>9, <2>10
<1>. QED BY <1>2, <1>3

\* The other steps leave the clock alone; only a pruning takes rows away, and it keeps
\* the later ones of any two of which it keeps the earlier.
LEMMA TimeStands ==
  ASSUME TypeOK, ListExact, [Next]_vars, ~(LaterToday \/ Midnight)
  PROVE  /\ UNCHANGED <<date, number, minute, schedule>> /\ Now' = Now
         /\ log' \subseteq log
         /\ \A t \in log', x \in log : x >= t => x \in log'
         /\ ListExact'
<1>1. UNCHANGED <<date, number, minute, schedule>>
  BY DEF Next, Prune, SaveRetention, Restart, Announce, vars, clock
<1>2. list' = list \/ list' = Listed(date, FALSE, minute)
  BY DEF Next, Prune, SaveRetention, Restart, Announce, vars
<1>3. ListExact'
  BY <1>1, <1>2 DEF ListExact, Listed
<1>4. Now' = Now
  BY <1>1 DEF Now
<1>5. log' = log \/ \E at \in Int : log' = {t \in log : t >= at}
  <2>1. CASE Prune
    <3>1. CASE retention = 0
      BY <2>1, <3>1 DEF Prune
    <3>2. CASE retention # 0
      <4>1. log' = {t \in log : t >= Cutoff(retention)}
        BY <2>1, <3>2 DEF Prune
      <4>2. Cutoff(retention) \in Int
        <5>1. DaysBack(date, retention) \in Nat
          BY DaysBackTypes DEF TypeOK
        <5>2. number \in Nat /\ minute \in 0 .. DayMinutes - 1
          BY DEF TypeOK
        <5>. QED BY <5>1, <5>2 DEF Cutoff, Now, DayMinutes
      <4>. QED BY <4>1, <4>2
    <3>. QED BY <3>1, <3>2
  <2>2. CASE ~Prune
    BY <2>2 DEF Next, SaveRetention, Restart, Announce, vars
  <2>. QED BY <2>1, <2>2
<1>6. \A t \in log : t \in Nat
  BY DEF TypeOK
<1>7. log' \subseteq log /\ \A t \in log', x \in log : x >= t => x \in log'
  <2>1. CASE log' = log
    BY <2>1
  <2>2. CASE \E at \in Int : log' = {t \in log : t >= at}
    <3>1. PICK at \in Int : log' = {t \in log : t >= at}
      BY <2>2
    <3>2. ASSUME NEW t \in log', NEW x \in log, x >= t PROVE x >= at
      BY <1>6, <3>1, <3>2
    <3>. QED BY <3>1, <3>2
  <2>. QED BY <1>5, <2>1, <2>2
<1>. QED BY <1>1, <1>3, <1>4, <1>7

-----------------------------------------------------------------------------
(* Every N days.                                                            *)

\* The rows are starts of the schedule on days it runs on.
RowsRun ==
  \A t \in log : /\ schedule.enabled /\ t % DayMinutes \in schedule.starts
                 /\ schedule.kind = "interval" => (t \div DayMinutes) % schedule.interval = 0

\* After the day of a row that is kept, none of the starts that have come is missing.
RowsAll ==
  schedule.kind = "interval" =>
    \A t \in log, day \in Int, m \in schedule.starts :
      /\ t \div DayMinutes < day /\ day % schedule.interval = 0
      /\ day * DayMinutes + m <= Now
      => day * DayMinutes + m \in log

RowsInv == TypeOK /\ ListExact /\ RowsRun /\ RowsAll

\* An interval that is let through is a number of days.
LEMMA IntervalTypes ==
  ASSUME TypeOK, schedule.kind = "interval"
  PROVE  schedule.interval \in Nat \ {0}
<1>1. PICK w \in Worlds : schedule = w.schedule
  BY DEF TypeOK
<1>2. schedule.interval \in 1 .. MaxInterval
  BY <1>1, Parameters DEF IsSchedule
<1>. QED BY <1>2, SMT DEF MaxInterval

\* Where the clock goes on.
LEMMA RowsGoOn ==
  ASSUME RowsInv, TypeOK', LaterToday \/ Midnight
  PROVE  RowsRun' /\ RowsAll'
<1>. USE DEF RowsInv
<1>1. /\ schedule' = schedule /\ Now \in Nat /\ Now' \in Nat /\ Now < Now'
      /\ log \subseteq log'
      /\ \A x \in log' \ log : /\ x \in Nat /\ Now < x /\ x <= Now'
                               /\ x \div DayMinutes = number'
                               /\ x % DayMinutes \in schedule.starts
                               /\ RunsOn(schedule, date')
      /\ \A n \in Int, m \in schedule.starts :
           Now < n * DayMinutes + m /\ n * DayMinutes + m <= Now'
             => /\ n = number'
                /\ RunsOn(schedule, date') => n * DayMinutes + m \in log'
  BY TimePasses
<1>2. /\ number' = EpochDays(date') /\ number' \in Nat
      /\ \A m \in schedule.starts : m \in 0 .. DayMinutes - 1
      /\ \A t \in log : t \in Nat
  BY Starts DEF TypeOK
<1>3. schedule.kind = "interval" =>
        (RunsOn(schedule, date') <=> schedule.enabled /\ number' % schedule.interval = 0)
  BY <1>2, IntervalTypes DEF RunsOn
<1>4. RowsRun'
  <2>1. ASSUME NEW t \in log'
        PROVE  /\ schedule.enabled /\ t % DayMinutes \in schedule.starts
               /\ schedule.kind = "interval"
                    => (t \div DayMinutes) % schedule.interval = 0
    <3>1. CASE t \in log
      BY <3>1 DEF RowsRun
    <3>2. CASE t \notin log
      <4>1. /\ t \div DayMinutes = number' /\ t % DayMinutes \in schedule.starts
            /\ RunsOn(schedule, date')
        BY <1>1, <2>1, <3>2
      <4>2. schedule.enabled
        BY <4>1 DEF RunsOn
      <4>. QED BY <1>3, <4>1, <4>2
    <3>. QED BY <3>1, <3>2
  <2>. QED BY <1>1, <2>1 DEF RowsRun
<1>5. RowsAll'
  <2>. SUFFICES ASSUME schedule.kind = "interval", NEW t \in log', NEW day \in Int,
                       NEW m \in schedule.starts,
                       t \div DayMinutes < day, day % schedule.interval = 0,
                       day * DayMinutes + m <= Now'
                PROVE  day * DayMinutes + m \in log'
    BY <1>1 DEF RowsAll
  <2>. DEFINE x == day * DayMinutes + m
  <2>1. m \in 0 .. DayMinutes - 1 /\ x \in Int /\ x \div DayMinutes = day
    BY <1>2, InstantOf
  <2>2. CASE t \in log
    <3>1. CASE x <= Now
      <4>1. x \in log
        BY <2>2, <3>1 DEF RowsAll
      <4>. QED BY <1>1, <4>1
    <3>2. CASE ~(x <= Now)
      <4>1. Now < x
        BY <1>1, <2>1, <3>2
      <4>2. day = number' /\ (RunsOn(schedule, date') => x \in log')
        BY <1>1, <4>1
      <4>3. schedule.enabled
        BY <2>2 DEF RowsRun
      <4>. QED BY <1>3, <4>2, <4>3
    <3>. QED BY <3>1, <3>2
  <2>3. CASE t \notin log
    <3>1. t \div DayMinutes = number'
      BY <1>1, <2>3
    <3>2. number' + 1 <= day
      BY <1>2, <3>1
    <3>. HIDE DEF x
    <3>3. x >= day * DayMinutes
      <4>1. x = day * DayMinutes + m
        BY DEF x
      <4>. QED BY <2>1, <4>1, SMT DEF DayMinutes
    <3>4. Now' = number' * DayMinutes + minute' /\ minute' \in 0 .. DayMinutes - 1
      BY DEF Now, TypeOK
    <3>5. Now' < (number' + 1) * DayMinutes
      BY ONLY <1>2, <3>4, SMT DEF DayMinutes
    <3>6. (number' + 1) * DayMinutes <= day * DayMinutes
      BY ONLY <1>2, <3>2, day \in Int, SMT DEF DayMinutes
    <3>7. x <= Now'
      BY DEF x
    <3>8. FALSE
      <4>1. (number' + 1) * DayMinutes \in Int /\ day * DayMinutes \in Int
        BY ONLY <1>2, day \in Int, SMT DEF DayMinutes
      <4>. QED BY <1>1, <2>1, <3>3, <3>5, <3>6, <3>7, <4>1, SMT
    <3>. QED BY <3>8
  <2>. QED BY <2>2, <2>3
<1>. QED BY <1>4, <1>5

\* Every step keeps what the rows are.
LEMMA NextRowsInv ==
  ASSUME RowsInv, [Next]_vars
  PROVE  RowsInv'
<1>. USE DEF RowsInv
<1>0. TypeOK'
  BY NextTypes
<1>1. CASE LaterToday \/ Midnight
  <2>1. ListExact'
    BY <1>0, <1>1, TimePasses
  <2>. QED BY <1>0, <1>1, <2>1, RowsGoOn
<1>2. CASE ~(LaterToday \/ Midnight)
  <2>1. /\ UNCHANGED <<date, number, minute, schedule>> /\ Now' = Now
        /\ log' \subseteq log
        /\ \A t \in log', x \in log : x >= t => x \in log'
        /\ ListExact'
    BY <1>2, TimeStands
  <2>2. RowsRun'
    BY <2>1 DEF RowsRun
  <2>3. RowsAll'
    <3>. SUFFICES ASSUME schedule.kind = "interval", NEW t \in log', NEW day \in Int,
                         NEW m \in schedule.starts,
                         t \div DayMinutes < day, day % schedule.interval = 0,
                         day * DayMinutes + m <= Now
                  PROVE  day * DayMinutes + m \in log'
      BY <2>1 DEF RowsAll
    <3>1. t \in log /\ day * DayMinutes + m \in log
      BY <2>1 DEF RowsAll
    <3>2. t \in Nat /\ m \in 0 .. DayMinutes - 1
      BY <3>1, Starts DEF TypeOK
    <3>3. day * DayMinutes + m >= t
      BY ONLY <3>2, day \in Int, t \div DayMinutes < day, SMT DEF DayMinutes
    <3>. QED BY <2>1, <3>1, <3>3
  <2>. QED BY <1>0, <2>1, <2>2, <2>3
<1>. QED BY <1>1, <1>2

\* The starts of a day are as many as the schedule has.
LEMMA AsManyStarts ==
  ASSUME TypeOK, NEW day \in Int,
         NEW rows, rows = {day * DayMinutes + m : m \in schedule.starts}
  PROVE  Cardinality(rows) = Cardinality(schedule.starts)
<1>. DEFINE f == [m \in schedule.starts |-> day * DayMinutes + m]
<1>1. \A m \in schedule.starts : m \in 0 .. DayMinutes - 1
  BY Starts DEF TypeOK
<1>2. IsFiniteSet(schedule.starts)
  <2>1. 0 \in Int /\ DayMinutes - 1 \in Int
    BY DEF DayMinutes
  <2>2. IsFiniteSet(0 .. DayMinutes - 1)
    BY <2>1, FS_Interval
  <2>. QED BY <1>1, <2>2, FS_Subset
<1>3. f \in [schedule.starts -> rows]
  OBVIOUS
<1>4. \A m, l \in schedule.starts : f[m] = f[l] => m = l
  <2>. SUFFICES ASSUME NEW m \in schedule.starts, NEW l \in schedule.starts, f[m] = f[l]
                PROVE  m = l
    OBVIOUS
  <2>1. day * DayMinutes + m = day * DayMinutes + l
    OBVIOUS
  <2>2. /\ m \in 0 .. DayMinutes - 1 /\ l \in 0 .. DayMinutes - 1
    BY <1>1
  <2>. QED BY ONLY <2>1, <2>2, day \in Int, SMT DEF DayMinutes
<1>5. \A x \in rows : \E m \in schedule.starts : f[m] = x
  OBVIOUS
<1>6. ExistsBijection(schedule.starts, rows)
  <2>. HIDE DEF f
  <2>1. f \in Bijection(schedule.starts, rows)
    BY <1>3, <1>4, <1>5 DEF Bijection, Injection, Surjection, IsInjective
  <2>. QED BY <2>1 DEF ExistsBijection
<1>. QED BY <1>2, <1>6, FS_Bijection

\* What a schedule that runs every N days waters is watered N days later and not in
\* between, for every N and over all the months, years and leap days there are.
THEOREM RunsEveryNDays == Spec => []EveryNDays
<1>1. Init => RowsInv
  <2>. SUFFICES ASSUME Init PROVE RowsInv
    OBVIOUS
  <2>1. TypeOK
    BY InitTypes
  <2>2. log = {} /\ ListExact
    BY DEF Init, ListExact
  <2>. QED BY <2>1, <2>2 DEF RowsInv, RowsRun, RowsAll
<1>2. RowsInv /\ [Next]_vars => RowsInv'
  BY NextRowsInv
<1>3. RowsInv => EveryNDays
  <2>. SUFFICES ASSUME RowsInv, schedule.kind = "interval", NEW t \in log,
                       NEW day, day = t \div DayMinutes
                PROVE  /\ \A n \in 1 .. schedule.interval - 1 : Times(day + n) = {}
                       /\ day + schedule.interval < number =>
                            Cardinality(Times(day + schedule.interval))
                              = Cardinality(schedule.starts)
    BY DEF EveryNDays
  <2>. DEFINE N == schedule.interval
  <2>. USE DEF RowsInv
  <2>1. N \in Nat \ {0}
    BY IntervalTypes
  <2>2. day \in Int /\ day % N = 0
    <3>1. t \in Nat
      BY DEF TypeOK
    <3>. QED BY <3>1, DayOf DEF RowsRun
  <2>. HIDE DEF N
  <2>3. (\A n \in 1 .. N - 1 : (day + n) % N # 0) /\ (day + N) % N = 0
    BY <2>1, <2>2, NextMultiple
  <2>4. ASSUME NEW n \in 1 .. N - 1 PROVE Times(day + n) = {}
    BY <2>3 DEF Times, RowsRun, N
  <2>5. ASSUME day + N < number
        PROVE  Cardinality(Times(day + N)) = Cardinality(schedule.starts)
    <3>. DEFINE then == day + N
    <3>0. then \in Int /\ then < number /\ day < then /\ then % N = 0
      BY <2>1, <2>2, <2>3, <2>5
    <3>. HIDE DEF then
    <3>1. number \in Nat /\ minute \in 0 .. DayMinutes - 1
      BY DEF TypeOK
    <3>2. ASSUME NEW m \in schedule.starts
          PROVE  then * DayMinutes + m \in Times(then)
      <4>1. m \in 0 .. DayMinutes - 1
        BY Starts DEF TypeOK
      <4>2. then * DayMinutes + m <= Now
        BY ONLY <3>0, <3>1, <4>1, SMT DEF Now, DayMinutes
      <4>3. then * DayMinutes + m \in log
        BY <3>0, <4>2 DEF RowsAll, N
      <4>4. (then * DayMinutes + m) \div DayMinutes = then
        BY <3>0, <4>1, InstantOf
      <4>. QED BY <4>3, <4>4 DEF Times
    <3>3. ASSUME NEW x \in Times(then)
          PROVE  \E m \in schedule.starts : x = then * DayMinutes + m
      <4>1. x \in log /\ x \in Int /\ x \div DayMinutes = then
        BY DEF Times, TypeOK
      <4>2. x = then * DayMinutes + (x % DayMinutes) /\ x % DayMinutes \in schedule.starts
        BY <4>1, DayOf DEF RowsRun
      <4>. QED BY <4>2
    <3>4. Times(then) = {then * DayMinutes + m : m \in schedule.starts}
      BY <3>2, <3>3
    <3>5. Cardinality(Times(then)) = Cardinality(schedule.starts)
      BY <3>0, <3>4, AsManyStarts
    <3>. QED BY <3>5 DEF then
  <2>. QED BY <2>4, <2>5 DEF N
<1>. QED BY <1>1, <1>2, <1>3, PTL DEF Spec

-----------------------------------------------------------------------------
(* What is announced.                                                       *)

\* An announcement at an instant of a day holds, as the schedule is, for the days
\* that have come since: the rows since then are the starts of those days on which
\* the schedule runs, all of them so far.
Foreseen(day, at, run, plan, today, num, now, rows) ==
  /\ at \in Nat /\ at <= now
  /\ num - (at \div DayMinutes) \in 0 .. LookAhead
  /\ today = DaysOn(day, num - (at \div DayMinutes))
  /\ run = NextRunAfter(plan, day, at % DayMinutes)
  /\ \A t \in rows : t > at =>
       /\ t \div DayMinutes - (at \div DayMinutes) \in 0 .. num - (at \div DayMinutes)
       /\ t % DayMinutes \in plan.starts
       /\ RunsOn(plan, DaysOn(day, t \div DayMinutes - (at \div DayMinutes)))
  /\ \A n \in 0 .. num - (at \div DayMinutes), m \in plan.starts :
       /\ RunsOn(plan, DaysOn(day, n))
       /\ at < ((at \div DayMinutes) + n) * DayMinutes + m
       /\ ((at \div DayMinutes) + n) * DayMinutes + m <= now
       => ((at \div DayMinutes) + n) * DayMinutes + m \in rows

Foresight ==
  \/ promise = NoPromise
  \/ \E day, at, run :
       /\ day \in Dates
       /\ promise = [at |-> at, run |-> run]
       /\ Foreseen(day, at, run, schedule, date, number, Now, log)

PromiseInv == TypeOK /\ ListExact /\ Foresight

\* Where the clock goes on.
LEMMA ForeseenGoesOn ==
  ASSUME TypeOK, TypeOK', ListExact, LaterToday \/ Midnight,
         NEW day \in Dates, NEW at, NEW run,
         Foreseen(day, at, run, schedule, date, number, Now, log),
         number' - (at \div DayMinutes) \in 0 .. LookAhead
  PROVE  Foreseen(day, at, run, schedule', date', number', Now', log')
<1>. DEFINE a == at \div DayMinutes
<1>1. /\ at \in Nat /\ at <= Now /\ number - a \in 0 .. LookAhead
      /\ date = DaysOn(day, number - a) /\ run = NextRunAfter(schedule, day, at % DayMinutes)
      /\ \A t \in log : t > at => /\ t \div DayMinutes - a \in 0 .. number - a
                                  /\ t % DayMinutes \in schedule.starts
                                  /\ RunsOn(schedule, DaysOn(day, t \div DayMinutes - a))
      /\ \A n \in 0 .. number - a, m \in schedule.starts :
           /\ RunsOn(schedule, DaysOn(day, n))
           /\ at < (a + n) * DayMinutes + m /\ (a + n) * DayMinutes + m <= Now
           => (a + n) * DayMinutes + m \in log
  BY DEF Foreseen
<1>2. a \in Nat
  BY <1>1, DayOf
<1>3. number' - a \in 0 .. LookAhead
  OBVIOUS
<1>4. /\ schedule' = schedule /\ Now \in Nat /\ Now' \in Nat /\ Now < Now'
      /\ log \subseteq log'
      /\ \A x \in log' \ log : /\ x \in Nat /\ Now < x /\ x <= Now'
                               /\ x \div DayMinutes = number'
                               /\ x % DayMinutes \in schedule.starts
                               /\ RunsOn(schedule, date')
      /\ \A n \in Int, m \in schedule.starts :
           Now < n * DayMinutes + m /\ n * DayMinutes + m <= Now'
             => /\ n = number'
                /\ RunsOn(schedule, date') => n * DayMinutes + m \in log'
  BY TimePasses
<1>5. /\ number \in Nat /\ minute \in 0 .. DayMinutes - 1 /\ number' \in Nat
      /\ \A m \in schedule.starts : m \in 0 .. DayMinutes - 1
      /\ \A t \in log : t \in Nat
      /\ Now = number * DayMinutes + minute
  BY Starts DEF TypeOK, Now
<1>. HIDE DEF a
<1>6. number <= number' /\ date' = DaysOn(day, number' - a)
  <2>1. CASE LaterToday
    <3>1. date' = date /\ number' = number
      BY <2>1 DEF LaterToday
    <3>. QED BY <1>1, <1>5, <3>1
  <2>2. CASE Midnight
    <3>1. date' = Tomorrow(date) /\ number' = number + 1
      BY <2>2 DEF Midnight
    <3>. DEFINE k == number - a
    <3>2. k \in Nat /\ number' - a = k + 1
      BY <1>1, <1>2, <1>5, <3>1 DEF LookAhead
    <3>. HIDE DEF k
    <3>3. DaysOn(day, k + 1) = Tomorrow(DaysOn(day, k))
      BY <3>2, DaysOnSteps
    <3>4. date' = DaysOn(day, number' - a)
      BY <1>1, <3>1, <3>2, <3>3 DEF k
    <3>. QED BY <1>5, <3>1, <3>4
  <2>. QED BY <2>1, <2>2
<1>7. ASSUME NEW t \in log', t > at
      PROVE  /\ t \div DayMinutes - a \in 0 .. number' - a
             /\ t % DayMinutes \in schedule.starts
             /\ RunsOn(schedule, DaysOn(day, t \div DayMinutes - a))
  <2>1. CASE t \in log
    <3>1. /\ t \div DayMinutes - a \in 0 .. number - a
          /\ t % DayMinutes \in schedule.starts
          /\ RunsOn(schedule, DaysOn(day, t \div DayMinutes - a))
      BY <1>1, <1>7, <2>1
    <3>2. t \div DayMinutes - a \in 0 .. number' - a
      BY <1>2, <1>5, <1>6, <3>1
    <3>. QED BY <3>1, <3>2
  <2>2. CASE t \notin log
    <3>1. /\ t \div DayMinutes = number' /\ t % DayMinutes \in schedule.starts
          /\ RunsOn(schedule, date')
      BY <1>4, <1>7, <2>2
    <3>2. number' - a \in 0 .. number' - a
      BY <1>3
    <3>. QED BY <1>6, <3>1, <3>2
  <2>. QED BY <2>1, <2>2
<1>8. ASSUME NEW n \in 0 .. number' - a, NEW m \in schedule.starts,
             RunsOn(schedule, DaysOn(day, n)),
             at < (a + n) * DayMinutes + m, (a + n) * DayMinutes + m <= Now'
      PROVE  (a + n) * DayMinutes + m \in log'
  <2>. DEFINE x == (a + n) * DayMinutes + m
  <2>1. n \in Nat /\ a + n \in Nat /\ m \in 0 .. DayMinutes - 1
    BY <1>2, <1>5
  <2>2. x \in Int
    <3>1. a + n \in Int
      BY <2>1
    <3>. QED BY <2>1, <3>1, InstantOf
  <2>3. CASE x <= Now
    <3>1. a + n <= number
      <4>1. a + n \in Int /\ number \in Int
        BY <1>5, <2>1
      <4>2. Now < x <=> number < a + n \/ (number = a + n /\ minute < m)
        BY <1>5, <2>1, <4>1, InstantOrder
      <4>. HIDE DEF x
      <4>. QED BY <1>4, <2>2, <2>3, <4>1, <4>2
    <3>2. n \in 0 .. number - a
      BY <1>2, <1>5, <2>1, <3>1
    <3>3. x \in log
      BY <1>1, <1>8, <2>3, <3>2
    <3>. QED BY <1>4, <3>3
  <2>4. CASE ~(x <= Now)
    <3>1. Now < x /\ x <= Now' /\ a + n \in Int
      BY <1>4, <1>8, <2>1, <2>2, <2>4
    <3>2. a + n = number' /\ (RunsOn(schedule, date') => x \in log')
      BY <1>4, <3>1
    <3>3. n = number' - a
      BY <1>2, <2>1, <3>2
    <3>4. RunsOn(schedule, date')
      BY <1>6, <1>8, <3>3
    <3>. QED BY <3>2, <3>4
  <2>. QED BY <2>3, <2>4
<1>9. at <= Now'
  BY <1>1, <1>4
<1>. QED BY <1>1, <1>3, <1>4, <1>6, <1>7, <1>8, <1>9 DEF Foreseen, a

\* Where it stands.  A row of the last two weeks is younger than any retention.
LEMMA ForeseenStands ==
  ASSUME TypeOK, ListExact, [Next]_vars, ~(LaterToday \/ Midnight),
         NEW day \in Dates, NEW at, NEW run,
         Foreseen(day, at, run, schedule, date, number, Now, log)
  PROVE  Foreseen(day, at, run, schedule', date', number', Now', log')
<1>1. /\ UNCHANGED <<date, number, minute, schedule>> /\ Now' = Now /\ log' \subseteq log
  BY TimeStands
<1>2. ASSUME NEW x \in log, x > at PROVE x \in log'
  <2>1. CASE Prune
    <3>1. CASE retention = 0
      BY <2>1, <3>1 DEF Prune
    <3>2. CASE retention # 0
      <4>1. log' = {t \in log : t >= Cutoff(retention)}
        BY <2>1, <3>2 DEF Prune
      <4>2. /\ date \in Dates /\ retention \in Nat \ {0}
            /\ number \in Nat /\ minute \in 0 .. DayMinutes - 1 /\ x \in Nat
        BY <3>2 DEF TypeOK
      <4>. DEFINE back == DaysBack(date, retention)
                  a    == at \div DayMinutes
      <4>3. back \in Nat /\ back >= 28
        <5>1. back \in Nat /\ back >= 28 * retention
          BY <4>2, DaysBackTypes
        <5>. QED BY <4>2, <5>1
      <4>4. at \in Nat /\ number - a \in 0 .. 14
        BY DEF Foreseen, LookAhead
      <4>5. at >= a * DayMinutes /\ a \in Nat
        BY ONLY <4>4, SMT DEF DayMinutes
      <4>6. Cutoff(retention) = (number * DayMinutes + minute) - back * DayMinutes
        BY DEF Cutoff, Now
      <4>. HIDE DEF back, a
      <4>7. Cutoff(retention) <= x
        BY ONLY <1>2, <4>2, <4>3, <4>4, <4>5, <4>6, SMT DEF DayMinutes
      <4>8. Cutoff(retention) \in Int
        BY ONLY <4>2, <4>3, <4>6, SMT DEF DayMinutes
      <4>. QED BY <4>1, <4>2, <4>7, <4>8
    <3>. QED BY <3>1, <3>2
  <2>2. CASE ~Prune
    BY <2>2 DEF Next, SaveRetention, Restart, Announce, vars
  <2>. QED BY <2>1, <2>2
<1>. QED BY <1>1, <1>2 DEF Foreseen

\* An announcement is made for the days from today on.
LEMMA AnnounceForesees ==
  ASSUME TypeOK, Announce
  PROVE  Foresight'
<1>1. /\ promise' = [at |-> Now, run |-> NextRunAfter(schedule, date, minute)]
      /\ UNCHANGED <<date, number, minute, schedule, log>>
  BY DEF Announce, clock
<1>2. number \in Nat /\ minute \in 0 .. DayMinutes - 1 /\ date \in Dates
      /\ \A t \in log : t \in Nat /\ t <= Now
  BY DEF TypeOK
<1>3. Now \in Nat /\ Now \div DayMinutes = number /\ Now % DayMinutes = minute
  BY <1>2, InstantOf DEF Now
<1>4. number - number = 0 /\ 0 \in 0 .. LookAhead /\ Now <= Now
  BY <1>2, <1>3 DEF LookAhead
<1>5. DaysOn(date, 0) = date
  BY DaysOnSteps
<1>. DEFINE run == NextRunAfter(schedule, date, minute)
<1>6. \A t \in log : ~(t > Now)
  BY <1>2, <1>3
<1>7. ASSUME NEW n \in 0 .. number - number, NEW m \in schedule.starts,
             Now < (number + n) * DayMinutes + m, (number + n) * DayMinutes + m <= Now
      PROVE  FALSE
  <2>1. n = 0 /\ m \in 0 .. DayMinutes - 1
    BY <1>2, Starts DEF TypeOK
  <2>. DEFINE x == (number + n) * DayMinutes + m
  <2>2. x \in Int
    BY <1>2, <2>1, InstantOf
  <2>3. Now < x /\ x <= Now
    BY <1>7
  <2>. HIDE DEF x
  <2>. QED BY <1>3, <2>2, <2>3
<1>. HIDE DEF run
<1>8. Foreseen(date, Now, run, schedule, date, number, Now, log)
  <2>1. run = NextRunAfter(schedule, date, Now % DayMinutes)
    BY <1>3 DEF run
  <2>. QED BY <1>3, <1>4, <1>5, <1>6, <1>7, <2>1 DEF Foreseen
<1>9. Now' = Now
  BY <1>1 DEF Now
<1>. QED BY <1>1, <1>2, <1>8, <1>9 DEF Foresight, run

\* Every step keeps what was announced true so far.
LEMMA NextPromiseInv ==
  ASSUME PromiseInv, [Next]_vars
  PROVE  PromiseInv'
<1>. USE DEF PromiseInv
<1>0. TypeOK'
  BY NextTypes
<1>1. ListExact'
  BY <1>0, TimePasses, TimeStands
<1>2. CASE Announce
  BY <1>0, <1>1, <1>2, AnnounceForesees
<1>3. CASE ~Announce
  <2>1. promise' \in {promise, NoPromise}
    BY <1>3 DEF Next, Prune, LaterToday, Midnight, SaveRetention, Restart, vars
  <2>2. CASE promise' = NoPromise
    BY <1>0, <1>1, <2>2 DEF Foresight
  <2>3. CASE promise' = promise /\ promise # NoPromise
    <3>1. PICK day, at, run :
            /\ day \in Dates
            /\ promise = [at |-> at, run |-> run]
            /\ Foreseen(day, at, run, schedule, date, number, Now, log)
      BY <2>3 DEF Foresight
    <3>2. Foreseen(day, at, run, schedule', date', number', Now', log')
      <4>1. CASE LaterToday \/ Midnight
        <5>. DEFINE a == at \div DayMinutes
        <5>1. number - a \in 0 .. LookAhead /\ at \in Nat /\ number \in Nat
          BY <3>1 DEF Foreseen, TypeOK
        <5>2. a \in Nat
          BY <5>1, DayOf
        <5>3. number' - a \in 0 .. LookAhead
          <6>1. CASE LaterToday
            BY <5>1, <6>1 DEF LaterToday
          <6>2. CASE Midnight
            <7>1. /\ number' = number + 1
                  /\ promise' = IF number' > promise.at \div DayMinutes + LookAhead
                                THEN NoPromise ELSE promise
              BY <6>2 DEF Midnight
            <7>2. ~(number' > promise.at \div DayMinutes + LookAhead)
              BY <2>3, <7>1
            <7>3. promise.at \div DayMinutes = a
              BY <3>1
            <7>. HIDE DEF a
            <7>. QED BY <5>1, <5>2, <7>1, <7>2, <7>3 DEF LookAhead
          <6>. QED BY <4>1, <6>1, <6>2
        <5>. QED BY <1>0, <3>1, <4>1, <5>3, ForeseenGoesOn
      <4>2. CASE ~(LaterToday \/ Midnight)
        BY <3>1, <4>2, ForeseenStands
      <4>. QED BY <4>1, <4>2
    <3>3. Foresight'
      BY <2>3, <3>1, <3>2 DEF Foresight
    <3>. QED BY <1>0, <1>1, <3>3
  <2>. QED BY <2>1, <2>2, <2>3
<1>. QED BY <1>2, <1>3

\* What is announced is what happens: nothing runs before the announced day, and on it
\* the announced starts do, at least one; if nothing is announced, nothing runs for
\* two weeks.
THEOREM AnnouncementsKept == Spec => []AnnouncementKept
<1>1. Init => PromiseInv
  <2>. SUFFICES ASSUME Init PROVE PromiseInv
    OBVIOUS
  <2>1. TypeOK
    BY InitTypes
  <2>2. promise = NoPromise /\ ListExact
    BY DEF Init, ListExact
  <2>. QED BY <2>1, <2>2 DEF PromiseInv, Foresight
<1>2. PromiseInv /\ [Next]_vars => PromiseInv'
  BY NextPromiseInv
<1>3. PromiseInv => AnnouncementKept
  <2>. SUFFICES ASSUME PromiseInv, promise # NoPromise PROVE AnnouncementKept
    BY DEF AnnouncementKept
  <2>. USE DEF PromiseInv
  <2>1. PICK day, at, run :
          /\ day \in Dates
          /\ promise = [at |-> at, run |-> run]
          /\ Foreseen(day, at, run, schedule, date, number, Now, log)
    BY DEF Foresight
  <2>. DEFINE a == at \div DayMinutes
              m0 == at % DayMinutes
              ahead == AheadDays(schedule, day, m0)
              since == {t \in log : t > promise.at}
  <2>2. promise.at = at /\ promise.run = run
    BY <2>1
  <2>3. /\ at \in Nat /\ number - a \in 0 .. LookAhead
        /\ run = NextRunAfter(schedule, day, m0)
        /\ \A t \in log : t > at => /\ t \div DayMinutes - a \in 0 .. number - a
                                    /\ t % DayMinutes \in schedule.starts
                                    /\ RunsOn(schedule, DaysOn(day, t \div DayMinutes - a))
        /\ \A n \in 0 .. number - a, m \in schedule.starts :
             /\ RunsOn(schedule, DaysOn(day, n))
             /\ at < (a + n) * DayMinutes + m /\ (a + n) * DayMinutes + m <= Now
             => (a + n) * DayMinutes + m \in log
    BY <2>1 DEF Foreseen
  <2>4. /\ a \in Nat /\ m0 \in 0 .. DayMinutes - 1 /\ at = a * DayMinutes + m0
    BY <2>3, DayOf
  <2>5. /\ number \in Nat /\ minute \in 0 .. DayMinutes - 1
        /\ Now = number * DayMinutes + minute
        /\ \A t \in log : t \in Nat
        /\ \A m \in schedule.starts : m \in 0 .. DayMinutes - 1
    BY Starts DEF TypeOK, Now
  <2>. HIDE DEF a, m0
  <2>6. /\ run = NoRun <=> ahead = {}
        /\ run # NoRun =>
             /\ run.inDays \in ahead /\ \A n \in ahead : run.inDays <= n
             /\ run.times = TimesOn(schedule, DaysOn(day, run.inDays), m0, run.inDays)
    <3>1. run = NextRunAfter(schedule, day, m0)
      BY <2>3
    <3>. QED BY <3>1, AnnouncesTheFirst
  <2>6a. ahead = {n \in 0 .. LookAhead : TimesOn(schedule, DaysOn(day, n), m0, n) # {}}
    BY DEF AheadDays
  <2>7. ASSUME NEW t \in since
        PROVE  /\ t \in log /\ t \in Int /\ t \div DayMinutes - a \in ahead
               /\ t % DayMinutes
                    \in TimesOn(schedule, DaysOn(day, t \div DayMinutes - a), m0,
                                t \div DayMinutes - a)
    <3>. DEFINE n == t \div DayMinutes - a
                m == t % DayMinutes
    <3>1. t \in log /\ t > at /\ t \in Int /\ t \in Nat
      BY <2>2, <2>5
    <3>2. n \in 0 .. number - a /\ m \in schedule.starts /\ RunsOn(schedule, DaysOn(day, n))
      BY <2>3, <3>1
    <3>3. n \in 0 .. LookAhead
      BY <2>3, <2>4, <2>5, <3>2 DEF LookAhead
    <3>4. n > 0 \/ m > m0
      <4>1. /\ t \div DayMinutes \in Int /\ m \in 0 .. DayMinutes - 1
            /\ t = (t \div DayMinutes) * DayMinutes + m
        BY <3>1, DayOf
      <4>2. a \in Int /\ at < t
        BY <2>3, <2>4, <3>1
      <4>3. a < t \div DayMinutes \/ (a = t \div DayMinutes /\ m0 < m)
        <5>. HIDE DEF m
        <5>1. a * DayMinutes + m0 < (t \div DayMinutes) * DayMinutes + m
          BY <2>4, <4>1, <4>2
        <5>. QED BY <2>4, <4>1, <4>2, <5>1, InstantOrder
      <4>. HIDE DEF m
      <4>. QED BY <2>4, <4>1, <4>2, <4>3
    <3>. HIDE DEF n, m
    <3>5. m \in TimesOn(schedule, DaysOn(day, n), m0, n)
      BY <3>2, <3>4 DEF TimesOn
    <3>6. n \in ahead
      BY <2>6a, <3>3, <3>5
    <3>. QED BY <3>1, <3>5, <3>6 DEF n, m
  <2>8. CASE run = NoRun
    <3>1. since = {}
      BY <2>6, <2>7, <2>8
    <3>. QED BY <2>2, <2>8, <3>1 DEF AnnouncementKept, Announced
  <2>9. CASE run # NoRun
    <3>. DEFINE n0 == run.inDays
                first == a + n0
                times == TimesOn(schedule, DaysOn(day, n0), m0, n0)
    <3>1. n0 \in ahead /\ (\A n \in ahead : n0 <= n) /\ run.times = times
      BY <2>6, <2>9
    <3>2. n0 \in 0 .. LookAhead /\ times # {}
      BY <2>6a, <3>1
    <3>3. FirstDay = first /\ first \in Int /\ n0 \in Nat
      <4>1. n0 \in Nat
        BY <3>2 DEF LookAhead
      <4>2. FirstDay = first
        BY <2>2 DEF FirstDay, a
      <4>. QED BY <2>4, <4>1, <4>2
    <3>4. /\ RunsOn(schedule, DaysOn(day, n0))
          /\ times = {m \in schedule.starts : n0 > 0 \/ m > m0}
      BY <3>2 DEF TimesOn
    <3>. HIDE DEF n0, first, times, ahead
    <3>5. ASSUME NEW t \in since PROVE t \div DayMinutes >= first
      <4>1. t \in Int /\ t \div DayMinutes - a \in ahead
        BY <2>7
      <4>2. t \div DayMinutes \in Int
        BY <4>1, DayOf
      <4>3. n0 <= t \div DayMinutes - a
        BY <3>1, <4>1
      <4>. QED BY <2>4, <3>3, <4>2, <4>3 DEF first
    <3>6. ASSUME NEW t \in since, t \div DayMinutes = first
          PROVE  \E m \in times : t = first * DayMinutes + m
      <4>1. /\ t \in Int
            /\ t % DayMinutes
                 \in TimesOn(schedule, DaysOn(day, t \div DayMinutes - a), m0,
                             t \div DayMinutes - a)
        BY <2>7
      <4>2. t \div DayMinutes - a = n0
        BY <2>4, <3>3, <3>6 DEF first
      <4>3. t % DayMinutes \in times
        BY <4>1, <4>2 DEF times
      <4>4. t = first * DayMinutes + (t % DayMinutes)
        BY <3>6, <4>1, DayOf
      <4>. QED BY <4>3, <4>4
    <3>7. ASSUME NEW m \in times, first * DayMinutes + m <= Now
          PROVE  /\ first * DayMinutes + m \in since
                 /\ (first * DayMinutes + m) \div DayMinutes = first
      <4>. DEFINE x == first * DayMinutes + m
      <4>1. m \in schedule.starts /\ m \in 0 .. DayMinutes - 1 /\ (n0 > 0 \/ m > m0)
        BY <2>5, <3>4
      <4>2. x \in Int /\ x \div DayMinutes = first
        BY <3>3, <4>1, InstantOf
      <4>3. a \in Int /\ (a < first \/ (a = first /\ m0 < m))
        BY <2>4, <3>3, <4>1 DEF first
      <4>4. at < x
        BY <2>4, <3>3, <4>1, <4>3, InstantOrder
      <4>5. first <= number
        <5>1. number \in Int /\ Now \in Int
          BY <2>5, InstantOf
        <5>2. number * DayMinutes + minute < x
                <=> number < first \/ (number = first /\ minute < m)
          BY <2>5, <3>3, <4>1, <5>1, InstantOrder
        <5>3. x <= Now
          BY <3>7
        <5>. HIDE DEF x
        <5>. QED BY <2>5, <3>3, <4>2, <5>1, <5>2, <5>3
      <4>6. n0 \in 0 .. number - a
        BY <2>4, <2>5, <3>3, <4>5 DEF first
      <4>7. x \in log
        BY <2>3, <3>4, <3>7, <4>1, <4>4, <4>6 DEF first
      <4>8. x > promise.at
        BY <2>2, <2>3, <4>2, <4>4
      <4>. QED BY <4>2, <4>7, <4>8
    <3>8. {t \in since : t \div DayMinutes = first}
            = {t \in {first * DayMinutes + m : m \in times} : t <= Now}
      <4>1. \A t \in since : t <= Now
        BY DEF TypeOK
      <4>. HIDE DEF since
      <4>. QED BY <3>6, <3>7, <4>1
    <3>9. /\ promise.run # NoRun /\ promise.run.times = times
      BY <2>2, <2>9, <3>1
    <3>. QED BY <3>2, <3>3, <3>5, <3>8, <3>9, Zenon DEF AnnouncementKept, Announced
  <2>. QED BY <2>8, <2>9
<1>. QED BY <1>1, <1>2, <1>3, PTL DEF Spec

-----------------------------------------------------------------------------
(* Retention.                                                               *)

\* The day and the instant of the last pruning: today or yesterday, within the last
\* 24 hours, with the next one due no later than 24 hours after it, and nothing in the
\* log that was too old for it.
PrunedOn(day, at, today, num, now, next, months, rows) ==
  /\ at \in Nat /\ at <= now /\ now <= at + DayMinutes /\ next <= at + DayMinutes
  /\ \/ today = day /\ at \div DayMinutes = num
     \/ today = Tomorrow(day) /\ at \div DayMinutes = num - 1
  /\ \A t \in rows : t >= at - DaysBack(day, months) * DayMinutes

PrunedRecently ==
  pruned > 0 =>
    \E day \in Dates, at \in Nat :
      PrunedOn(day, at, date, number, Now, pruneAt, pruned, log)

PrunedInv == TypeOK /\ ListExact /\ PrunedRecently

\* The clock does not go on beyond the time of a pruning.
LEMMA StopsAtPruning ==
  ASSUME TypeOK, TypeOK', ListExact, LaterToday \/ Midnight
  PROVE  Now' <= pruneAt /\ pruneAt' = pruneAt
<1>0. /\ number \in Nat /\ minute \in 0 .. DayMinutes - 1 /\ pruneAt \in Nat
      /\ minute' \in 0 .. DayMinutes - 1 /\ number' \in Nat
  BY DEF TypeOK
<1>. DEFINE p == pruneAt \div DayMinutes
            q == pruneAt % DayMinutes
<1>1. p \in Nat /\ q \in 0 .. DayMinutes - 1 /\ pruneAt = p * DayMinutes + q
  BY <1>0, DayOf
<1>2. q \in Stops
  BY DEF Stops
<1>3. Now < pruneAt /\ pruneAt' = pruneAt
  BY DEF LaterToday, Midnight
<1>4. Now = number * DayMinutes + minute /\ Now' = number' * DayMinutes + minute'
  BY DEF Now
<1>. HIDE DEF p, q
<1>5. number < p \/ (number = p /\ minute < q)
  <2>1. number \in Int /\ p \in Int
    BY <1>0, <1>1
  <2>2. number * DayMinutes + minute < p * DayMinutes + q
    BY <1>1, <1>3, <1>4
  <2>. QED BY <1>0, <1>1, <2>1, <2>2, InstantOrder
<1>6. number' < p \/ (number' = p /\ minute' <= q)
  <2>1. CASE LaterToday
    <3>1. /\ number' = number
          /\ q > minute => minute' <= q
      BY <1>2, <2>1 DEF LaterToday
    <3>. QED BY <1>0, <1>1, <1>5, <3>1
  <2>2. CASE Midnight
    <3>1. number' = number + 1 /\ minute' = 0 /\ q <= minute
      BY <1>2, <2>2 DEF Midnight
    <3>. QED BY <1>0, <1>1, <1>5, <3>1, SMT DEF DayMinutes
  <2>. QED BY <2>1, <2>2
<1>7. ~(pruneAt < Now')
  <2>1. p \in Int /\ number' \in Int
    BY <1>0, <1>1
  <2>2. pruneAt < Now' <=> p < number' \/ (p = number' /\ q < minute')
    BY <1>0, <1>1, <1>4, <2>1, InstantOrder
  <2>3. minute' \in Int /\ q \in Int
    BY <1>0, <1>1
  <2>. QED BY <1>6, <2>1, <2>2, <2>3
<1>8. Now' \in Int
  <2>1. number' \in Int
    BY <1>0
  <2>. QED BY <1>0, <1>4, <2>1, InstantOf
<1>. QED BY <1>0, <1>3, <1>7, <1>8

\* Where the clock goes on: a second midnight would be beyond the next pruning.
LEMMA PrunedGoesOn ==
  ASSUME TypeOK, TypeOK', ListExact, LaterToday \/ Midnight, pruned > 0,
         NEW day \in Dates, NEW at \in Nat,
         PrunedOn(day, at, date, number, Now, pruneAt, pruned, log)
  PROVE  PrunedOn(day, at, date', number', Now', pruneAt', pruned', log')
<1>1. /\ at <= Now /\ pruneAt <= at + DayMinutes
      /\ \/ date = day /\ at \div DayMinutes = number
         \/ date = Tomorrow(day) /\ at \div DayMinutes = number - 1
      /\ \A t \in log : t >= at - DaysBack(day, pruned) * DayMinutes
  BY DEF PrunedOn
<1>2. Now' <= pruneAt /\ pruneAt' = pruneAt /\ pruneAt \in Nat
  BY StopsAtPruning DEF TypeOK
<1>3. /\ Now \in Nat /\ Now' \in Nat /\ Now < Now'
      /\ \A x \in log' \ log : x \in Nat /\ Now < x
  BY TimePasses
<1>4. pruned' = pruned /\ pruned \in Nat
  <2>1. pruned' = pruned
    BY DEF LaterToday, Midnight
  <2>2. pruned \in 0 .. 120
    BY DEF TypeOK
  <2>. QED BY <2>1, <2>2
<1>5. at <= Now' /\ Now' <= at + DayMinutes /\ pruneAt' <= at + DayMinutes
  BY <1>1, <1>2, <1>3, SMT DEF DayMinutes
<1>6. \/ date' = day /\ at \div DayMinutes = number'
      \/ date' = Tomorrow(day) /\ at \div DayMinutes = number' - 1
  <2>1. CASE LaterToday
    <3>1. date' = date /\ number' = number
      BY <2>1 DEF LaterToday
    <3>. QED BY <1>1, <3>1
  <2>2. CASE Midnight
    <3>1. date' = Tomorrow(date) /\ number' = number + 1 /\ minute' = 0 /\ number \in Nat
      BY <2>2 DEF Midnight, TypeOK
    <3>2. at \div DayMinutes # number - 1
      <4>. SUFFICES ASSUME at \div DayMinutes = number - 1 PROVE FALSE
        OBVIOUS
      <4>1. Now' = (number + 1) * DayMinutes + 0
        BY <3>1 DEF Now
      <4>2. at + DayMinutes < (number + 1) * DayMinutes
        BY ONLY <3>1, at \in Nat, at \div DayMinutes = number - 1, SMT DEF DayMinutes
      <4>. QED BY <1>5, <3>1, <4>1, <4>2, SMT DEF DayMinutes
    <3>3. date = day /\ at \div DayMinutes = number
      BY <1>1, <3>2
    <3>. QED BY <3>1, <3>3
  <2>. QED BY <2>1, <2>2
<1>7. ASSUME NEW t \in log' PROVE t >= at - DaysBack(day, pruned) * DayMinutes
  <2>1. CASE t \in log
    BY <1>1, <2>1
  <2>2. CASE t \notin log
    <3>. DEFINE back == DaysBack(day, pruned)
    <3>1. back \in Nat
      BY <1>4, DaysBackTypes
    <3>2. t \in Nat /\ Now < t
      BY <1>3, <2>2
    <3>. HIDE DEF back
    <3>3. back * DayMinutes \in Nat
      BY <3>1, DayStart
    <3>4. t >= at - back * DayMinutes
      BY <1>1, <1>3, <3>2, <3>3
    <3>. QED BY <3>4 DEF back
  <2>. QED BY <2>1, <2>2
<1>. QED BY <1>4, <1>5, <1>6, <1>7 DEF PrunedOn

\* What a pruning leaves is not too old for it.
LEMMA PruneLeaves ==
  ASSUME TypeOK, Prune
  PROVE  PrunedRecently'
<1>1. /\ UNCHANGED <<date, number, minute>>
      /\ log' = IF retention = 0 THEN log ELSE {t \in log : t >= Cutoff(retention)}
      /\ pruneAt' = Now + DayMinutes /\ pruned' = retention
  BY DEF Prune, clock
<1>2. /\ number \in Nat /\ minute \in 0 .. DayMinutes - 1 /\ date \in Dates
      /\ retention \in 0 .. 120
  BY DEF TypeOK
<1>3. Now \in Nat /\ Now \div DayMinutes = number /\ Now' = Now
  BY <1>1, <1>2, InstantOf DEF Now
<1>. SUFFICES ASSUME retention > 0
              PROVE  PrunedOn(date, Now, date', number', Now', pruneAt', pruned', log')
  BY <1>1, <1>2, <1>3 DEF PrunedRecently
<1>4. Now <= Now /\ Now <= Now + DayMinutes /\ Now + DayMinutes <= Now + DayMinutes
  BY <1>3 DEF DayMinutes
<1>5. \A t \in log' : t >= Now - DaysBack(date, retention) * DayMinutes
  BY <1>1, <1>2 DEF Cutoff
<1>. QED BY <1>1, <1>3, <1>4, <1>5 DEF PrunedOn

\* Every step keeps what the last pruning did.
LEMMA NextPrunedInv ==
  ASSUME PrunedInv, [Next]_vars
  PROVE  PrunedInv'
<1>. USE DEF PrunedInv
<1>0. TypeOK'
  BY NextTypes
<1>1. ListExact'
  BY <1>0, TimePasses, TimeStands
<1>2. CASE Prune
  BY <1>0, <1>1, <1>2, PruneLeaves
<1>3. CASE LaterToday \/ Midnight
  <2>1. pruned' = pruned
    BY <1>3 DEF LaterToday, Midnight
  <2>2. ASSUME pruned > 0 PROVE PrunedRecently'
    <3>1. PICK day \in Dates, at \in Nat :
            PrunedOn(day, at, date, number, Now, pruneAt, pruned, log)
      BY <2>2 DEF PrunedRecently
    <3>2. PrunedOn(day, at, date', number', Now', pruneAt', pruned', log')
      BY <1>0, <1>3, <2>2, <3>1, PrunedGoesOn
    <3>. QED BY <3>2 DEF PrunedRecently
  <2>3. PrunedRecently'
    BY <2>1, <2>2 DEF PrunedRecently
  <2>. QED BY <1>0, <1>1, <2>3
<1>4. CASE ~Prune /\ ~(LaterToday \/ Midnight)
  <2>1. /\ UNCHANGED <<date, number, minute, log, pruned>> /\ Now' = Now
        /\ pruneAt' \in {pruneAt, Now}
    BY <1>4, TimeStands DEF Next, SaveRetention, Restart, Announce, vars
  <2>2. ASSUME pruned > 0 PROVE PrunedRecently'
    <3>1. PICK day \in Dates, at \in Nat :
            PrunedOn(day, at, date, number, Now, pruneAt, pruned, log)
      BY <2>2 DEF PrunedRecently
    <3>2. PrunedOn(day, at, date', number', Now', pruneAt', pruned', log')
      BY <2>1, <3>1 DEF PrunedOn
    <3>. QED BY <3>2 DEF PrunedRecently
  <2>3. PrunedRecently'
    BY <2>1, <2>2 DEF PrunedRecently
  <2>. QED BY <1>0, <1>1, <2>3
<1>. QED BY <1>2, <1>3, <1>4

\* How far the same day some months ago is from as many months of days back.
LEMMA AnniversaryDistance ==
  ASSUME TypeOK, NEW months \in Nat
  PROVE  LET early == IF date.d > MonthsAgoLength(date, months) THEN 3 ELSE 0 IN
         /\ Anniversary(months) \in Int /\ DaysBack(date, months) \in Nat
         /\ number - DaysBack(date, months) - early <= Anniversary(months)
         /\ Anniversary(months) <= number - DaysBack(date, months)
<1>1. /\ date \in Dates /\ number \in Nat /\ date.d \in 1 .. 31
  BY DEF TypeOK, Dates
<1>2. DaysBack(date, months) \in Nat /\ MonthsAgoLength(date, months) \in 28 .. 31
  BY <1>1, DaysBackTypes, LengthTypes
<1>. QED BY <1>1, <1>2 DEF Anniversary

\* Rows go when they are older than the retention, up to three days early where a month
\* is too short; and none of a log that was pruned by the setting there is stays on for
\* more than four days beyond it.
THEOREM RetentionIsKept == Spec => RetentionKept
<1>1. Init => PrunedInv
  <2>. SUFFICES ASSUME Init PROVE PrunedInv
    OBVIOUS
  <2>1. TypeOK
    BY InitTypes
  <2>2. pruned = 0 /\ ListExact
    BY DEF Init, ListExact
  <2>. QED BY <2>1, <2>2 DEF PrunedInv, PrunedRecently
<1>2. PrunedInv /\ [Next]_vars => PrunedInv'
  BY NextPrunedInv
<1>3. PrunedInv /\ [Next]_vars =>
        [\A t \in log \ log' :
           LET early == IF date.d > MonthsAgoLength(date, retention) THEN 3 ELSE 0 IN
           t < (Anniversary(retention) + early) * DayMinutes + minute]_vars
  <2>. SUFFICES ASSUME PrunedInv, [Next]_vars, NEW t \in log \ log',
                       NEW early, early = IF date.d > MonthsAgoLength(date, retention)
                                          THEN 3 ELSE 0
                PROVE  t < (Anniversary(retention) + early) * DayMinutes + minute
    OBVIOUS
  <2>0. TypeOK'
    BY NextTypes DEF PrunedInv
  <2>1. Prune
    <3>1. ~(LaterToday \/ Midnight)
      BY <2>0, TimePasses DEF PrunedInv
    <3>. QED BY <3>1 DEF Next, SaveRetention, Restart, Announce, vars
  <2>2. t < Cutoff(retention) /\ t \in Nat
    <3>1. t \in Nat
      BY DEF PrunedInv, TypeOK
    <3>2. ~(t >= Cutoff(retention))
      BY <2>1 DEF Prune
    <3>3. Cutoff(retention) \in Int
      <4>1. /\ DaysBack(date, retention) \in Nat
            /\ number \in Nat /\ minute \in 0 .. DayMinutes - 1
        BY DaysBackTypes DEF PrunedInv, TypeOK
      <4>. QED BY <4>1, SMT DEF Cutoff, Now, DayMinutes
    <3>. QED BY <3>1, <3>2, <3>3
  <2>. DEFINE back == DaysBack(date, retention)
              then == Anniversary(retention)
  <2>3. /\ then \in Int /\ back \in Nat /\ number - back - early <= then
        /\ number \in Nat /\ minute \in 0 .. DayMinutes - 1 /\ early \in 0 .. 3
    <3>1. retention \in Nat
      BY DEF PrunedInv, TypeOK
    <3>. QED BY <3>1, AnniversaryDistance DEF PrunedInv, TypeOK
  <2>4. Cutoff(retention) = (number * DayMinutes + minute) - back * DayMinutes
    BY DEF Cutoff, Now
  <2>. HIDE DEF back, then
  <2>5. t < (then + early) * DayMinutes + minute
    BY ONLY <2>2, <2>3, <2>4, SMT DEF DayMinutes
  <2>. QED BY <2>5 DEF then
<1>4. PrunedInv =>
        (retention = pruned /\ retention > 0 =>
           \A t \in log : t >= (Anniversary(retention) - 4) * DayMinutes + minute)
  <2>. SUFFICES ASSUME PrunedInv, retention = pruned, retention > 0, NEW t \in log
                PROVE  t >= (Anniversary(retention) - 4) * DayMinutes + minute
    OBVIOUS
  <2>1. PICK day \in Dates, at \in Nat :
          PrunedOn(day, at, date, number, Now, pruneAt, retention, log)
    BY DEF PrunedInv, PrunedRecently
  <2>2. /\ Now <= at + DayMinutes
        /\ date = day \/ date = Tomorrow(day)
        /\ t >= at - DaysBack(day, retention) * DayMinutes
    BY <2>1 DEF PrunedOn
  <2>3. /\ date \in Dates /\ retention \in Nat /\ number \in Nat
        /\ minute \in 0 .. DayMinutes - 1 /\ t \in Nat
    BY DEF PrunedInv, TypeOK
  <2>. DEFINE then == Anniversary(retention)
              back == DaysBack(date, retention)
              was  == DaysBack(day, retention)
  <2>4. then \in Int /\ back \in Nat /\ was \in Nat /\ then <= number - back
    BY <2>3, AnniversaryDistance, DaysBackTypes DEF PrunedInv
  <2>5. was - back <= 3
    <3>1. CASE date = day
      BY <2>4, <3>1
    <3>2. CASE date = Tomorrow(day)
      BY <2>3, <3>2, NextDayBack
    <3>. QED BY <2>2, <3>1, <3>2
  <2>6. number * DayMinutes + minute <= at + DayMinutes
    BY <2>2 DEF Now
  <2>7. t >= at - was * DayMinutes
    BY <2>2
  <2>. HIDE DEF then, back, was
  <2>8. t >= (then - 4) * DayMinutes + minute
    BY ONLY <2>3, <2>4, <2>5, <2>6, <2>7, at \in Nat, SMT DEF DayMinutes
  <2>. QED BY <2>8 DEF then
<1>. QED BY <1>1, <1>2, <1>3, <1>4, PTL DEF Spec, RetentionKept
=============================================================================



