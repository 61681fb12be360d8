--------------------------- MODULE CalendarProofs ---------------------------
(***************************************************************************)
(* The day numbers of module Calendar for every date there is.               *)
(***************************************************************************)
EXTENDS Calendar, WellFoundedInduction, TLAPS

\* The days of the years, counted from March, up to the first of March of year.
DaysUpTo(year) ==
  LET era == year \div 400
      yoe == year - era * 400
  IN era * 146097 + yoe * 365 + yoe \div 4 - yoe \div 100

\* A year from March to March is as long as the February in it makes it.
LEMMA YearLength ==
  ASSUME NEW y \in Nat
  PROVE  DaysUpTo(y) = DaysUpTo(y - 1) + 337 + MonthLength(y, 2)
<1>1. CASE y % 400 = 0
  BY <1>1, SMT DEF DaysUpTo, MonthLength, Leap
<1>2. CASE y % 400 # 0 /\ y % 100 = 0
  BY <1>2, SMT DEF DaysUpTo, MonthLength, Leap
<1>3. CASE y % 100 # 0 /\ y % 4 = 0
  BY <1>3, SMT DEF DaysUpTo, MonthLength, Leap
<1>4. CASE y % 100 # 0 /\ y % 4 # 0
  BY <1>4, SMT DEF DaysUpTo, MonthLength, Leap
<1>. QED BY <1>1, <1>2, <1>3, <1>4

\* The count of the days before a year is a number.
LEMMA DaysUpToInt ==
  ASSUME NEW year \in Int
  PROVE  DaysUpTo(year) \in Int
  BY SMT DEF DaysUpTo

\* The days of a year before the first of a month, again from March.
DaysBefore(m) == (153 * (IF m > 2 THEN m - 3 ELSE m + 9) + 2) \div 5

YearFromMarch(y, m) == IF m <= 2 THEN y - 1 ELSE y

\* The day number of time.go is that of the year and that of the day in the year.
LEMMA DayNumber ==
  ASSUME NEW y \in Nat, NEW m \in 1 .. 12, NEW d \in 1 .. 32
  PROVE  DaysFromCivil(y, m, d) =
           DaysUpTo(YearFromMarch(y, m)) + DaysBefore(m) + d - 1 - 719468
  BY SMT DEF DaysFromCivil, DaysUpTo, DaysBefore, YearFromMarch

\* Within a month the number goes up with the day.
LEMMA SameMonth ==
  ASSUME NEW y \in Nat, NEW m \in 1 .. 12, NEW d \in 1 .. 31
  PROVE  DaysFromCivil(y, m, d + 1) = DaysFromCivil(y, m, d) + 1
  BY SMT DEF DaysFromCivil

\* The code's formula for the months has the lengths of the months in it.
LEMMA NextMonth ==
  ASSUME NEW y \in Nat, NEW m \in 1 .. 11
  PROVE  DaysFromCivil(y, m + 1, 1) = DaysFromCivil(y, m, MonthLength(y, m)) + 1
<1>1. /\ MonthLength(y, m) \in 1 .. 31 /\ m + 1 \in 1 .. 12 /\ m \in 1 .. 12
      /\ 1 \in 1 .. 32
  BY SMT DEF MonthLength
<1>2. /\ YearFromMarch(y, m) \in Int /\ YearFromMarch(y, m + 1) \in Int
      /\ DaysBefore(m) \in Int /\ DaysBefore(m + 1) \in Int
  BY SMT DEF YearFromMarch, DaysBefore
<1>3. DaysFromCivil(y, m + 1, 1)
        = DaysUpTo(YearFromMarch(y, m + 1)) + DaysBefore(m + 1) + 1 - 1 - 719468
  BY <1>1, DayNumber, SMT
<1>4. DaysFromCivil(y, m, MonthLength(y, m))
        = DaysUpTo(YearFromMarch(y, m)) + DaysBefore(m) + MonthLength(y, m) - 1 - 719468
  BY <1>1, DayNumber, SMT
<1>5. DaysUpTo(YearFromMarch(y, m + 1)) + DaysBefore(m + 1)
        = DaysUpTo(YearFromMarch(y, m)) + DaysBefore(m) + MonthLength(y, m)
  <2>1. CASE m = 2
    <3>1. YearFromMarch(y, m + 1) = y /\ YearFromMarch(y, m) = y - 1
      BY <2>1, SMT DEF YearFromMarch
    <3>2. DaysBefore(m + 1) = 0 /\ DaysBefore(m) = 337
      BY <2>1, SMT DEF DaysBefore
    <3>3. DaysUpTo(y) \in Int /\ DaysUpTo(y - 1) \in Int
      BY DaysUpToInt, SMT
    <3>4. DaysUpTo(y) = DaysUpTo(y - 1) + 337 + MonthLength(y, 2)
      BY YearLength
    <3>. QED BY <1>1, <2>1, <3>1, <3>2, <3>3, <3>4, SMT
  <2>2. CASE m # 2
    <3>1. YearFromMarch(y, m + 1) = YearFromMarch(y, m)
      BY <2>2, SMT DEF YearFromMarch
    <3>2. DaysBefore(m + 1) = DaysBefore(m) + MonthLength(y, m)
      BY <2>2, SMT DEF DaysBefore, MonthLength
    <3>3. DaysUpTo(YearFromMarch(y, m)) \in Int
      BY <1>2, DaysUpToInt, SMT
    <3>. QED BY <1>1, <1>2, <3>1, <3>2, <3>3, SMT
  <2>. QED BY <2>1, <2>2
<1>6. DaysUpTo(YearFromMarch(y, m)) \in Int /\ DaysUpTo(YearFromMarch(y, m + 1)) \in Int
  BY <1>2, DaysUpToInt, SMT
<1>. QED BY <1>1, <1>2, <1>3, <1>4, <1>5, <1>6, SMT

\* The first of January follows the last of December.
LEMMA NextYear ==
  ASSUME NEW y \in Nat
  PROVE  DaysFromCivil(y + 1, 1, 1) = DaysFromCivil(y, 12, 31) + 1
  BY SMT DEF DaysFromCivil

\* The number of every day is one more than that of the day before: over the ends
\* of months, of years, of Februaries long and short, and of centuries
\* (time.go:14-31).
THEOREM NextDayNextNumber ==
  ASSUME NEW date \in Dates, date.d <= MonthLength(date.y, date.m)
  PROVE  EpochDays(Tomorrow(date)) = EpochDays(date) + 1
<1>1. date.y \in Nat /\ date.m \in 1 .. 12 /\ date.d \in 1 .. 31
  BY SMT DEF Dates
<1>2. MonthLength(date.y, date.m) \in Nat
  BY <1>1, SMT DEF MonthLength
<1>3. CASE date.d < MonthLength(date.y, date.m)
  <2>1. EpochDays(Tomorrow(date)) = DaysFromCivil(date.y, date.m, date.d + 1)
    BY <1>3, SMT DEF Tomorrow, EpochDays, Dates
  <2>. QED BY <1>1, <2>1, SameMonth DEF EpochDays
<1>4. CASE date.d = MonthLength(date.y, date.m) /\ date.m < 12
  <2>1. EpochDays(Tomorrow(date)) = DaysFromCivil(date.y, date.m + 1, 1)
    BY <1>4, SMT DEF Tomorrow, EpochDays, Dates
  <2>2. date.m \in 1 .. 11
    BY <1>1, <1>4, SMT
  <2>. QED BY <1>1, <1>4, <2>1, <2>2, NextMonth DEF EpochDays
<1>5. CASE date.d = MonthLength(date.y, date.m) /\ date.m = 12
  <2>1. EpochDays(Tomorrow(date)) = DaysFromCivil(date.y + 1, 1, 1)
    BY <1>5, SMT DEF Tomorrow, EpochDays, Dates
  <2>2. date.d = 31
    BY <1>5, SMT DEF MonthLength
  <2>. QED BY <1>1, <1>5, <2>1, <2>2, NextYear DEF EpochDays
<1>. QED BY <1>1, <1>2, <1>3, <1>4, <1>5, SMT

\* From 1970 on the numbers are those of Unix days: none is negative.
LEMMA Since1970 ==
  ASSUME NEW y \in Nat, y >= 1969
  PROVE  DaysUpTo(y) >= 719162 /\ (y >= 1970 => DaysUpTo(y) >= 719468)
<1>. DEFINE era == y \div 400
            yoe == y - era * 400
<1>1. era \in Nat /\ yoe \in 0 .. 399 /\ era >= 4 /\ (era = 4 => yoe = y - 1600)
  BY SMT
<1>2. yoe \div 4 \in Nat /\ yoe \div 100 \in 0 .. 3 /\ (yoe >= 369 => yoe \div 4 >= 92)
  BY <1>1, SMT
<1>3. DaysUpTo(y) = era * 146097 + yoe * 365 + yoe \div 4 - yoe \div 100
  BY DEF DaysUpTo
<1>. HIDE DEF era, yoe
<1>. QED BY <1>1, <1>2, <1>3, SMT

\* March is where a year and its days begin.
LEMMA MonthFromMarch ==
  ASSUME NEW y \in Nat, NEW m \in 1 .. 12
  PROVE  /\ YearFromMarch(y, m) \in Int /\ DaysBefore(m) \in Nat
         /\ m <= 2 => YearFromMarch(y, m) = y - 1 /\ DaysBefore(m) >= 306
         /\ m > 2 => YearFromMarch(y, m) = y
<1>1. YearFromMarch(y, m) \in Int /\ (m <= 2 => YearFromMarch(y, m) = y - 1)
      /\ (m > 2 => YearFromMarch(y, m) = y)
  BY SMT DEF YearFromMarch
<1>2. DaysBefore(m) \in Nat /\ (m <= 2 => DaysBefore(m) >= 306)
  BY SMT DEF DaysBefore
<1>. QED BY <1>1, <1>2

\* The count starts with the first day of 1970, and no later day is before it.
THEOREM NumbersFrom1970 ==
  ASSUME NEW date \in Dates
  PROVE  /\ EpochDays(date) \in Int
         /\ date.y >= 1970 => EpochDays(date) >= 0
         /\ date = [y |-> 1970, m |-> 1, d |-> 1] => EpochDays(date) = 0
<1>. DEFINE Y == YearFromMarch(date.y, date.m)
<1>1. date.y \in Nat /\ date.m \in 1 .. 12 /\ date.d \in 1 .. 32
  BY SMT DEF Dates
<1>2. EpochDays(date) = DaysUpTo(Y) + DaysBefore(date.m) + date.d - 1 - 719468
  BY <1>1, DayNumber DEF EpochDays
<1>3. /\ Y \in Int /\ DaysBefore(date.m) \in Nat
      /\ date.m <= 2 => Y = date.y - 1 /\ DaysBefore(date.m) >= 306
      /\ date.m > 2 => Y = date.y
  BY <1>1, MonthFromMarch
<1>4. DaysUpTo(Y) \in Int
  BY <1>3, DaysUpToInt
<1>. HIDE DEF Y
<1>5. EpochDays(date) \in Int
  BY <1>1, <1>2, <1>3, <1>4, SMT
<1>6. ASSUME date.y >= 1970 PROVE EpochDays(date) >= 0
  <2>1. Y \in Nat /\ Y >= 1969 /\ (date.m > 2 => Y >= 1970)
    BY <1>1, <1>3, <1>6, SMT
  <2>2. DaysUpTo(Y) >= 719162 /\ (Y >= 1970 => DaysUpTo(Y) >= 719468)
    BY <2>1, Since1970
  <2>. QED BY <1>1, <1>2, <1>3, <1>4, <2>1, <2>2, SMT
<1>7. ASSUME date = [y |-> 1970, m |-> 1, d |-> 1] PROVE EpochDays(date) = 0
  <2>1. DaysFromCivil(1970, 1, 1) = 0
    BY SMT DEF DaysFromCivil
  <2>. QED BY <1>7, <2>1 DEF EpochDays
<1>. QED BY <1>5, <1>6, <1>7

\* Whole weeks do not change the day of the week.
LEMMA ModSeven ==
  ASSUME NEW a \in Int, NEW k \in Int
  PROVE  (a + 7 * k) % 7 = a % 7
  BY SMT

\* The years of Weekday and of the day number differ by whole weeks.
LEMMA WeeksOfYears ==
  ASSUME NEW y \in Int
  PROVE  \E k \in Int :
           DaysUpTo(y) = y + y \div 4 - y \div 100 + y \div 400 + 7 * k
<1>. DEFINE era == y \div 400
            yoe == y - era * 400
<1>1. era \in Int /\ yoe \in 0 .. 399 /\ y = 400 * era + yoe
  BY SMT
<1>2. y \div 4 = 100 * era + yoe \div 4 /\ y \div 100 = 4 * era + yoe \div 100
  BY <1>1, SMT
<1>3. DaysUpTo(y) = era * 146097 + yoe * 365 + yoe \div 4 - yoe \div 100
  BY DEF DaysUpTo
<1>4. yoe \div 4 \in Int /\ yoe \div 100 \in Int /\ y \div 400 = era
  BY <1>1, SMT
<1>. HIDE DEF era, yoe
<1>5. DaysUpTo(y) = y + y \div 4 - y \div 100 + y \div 400 + 7 * (20800 * era + 52 * yoe)
  BY <1>1, <1>2, <1>3, <1>4, SMT
<1>6. 20800 * era + 52 * yoe \in Int
  BY <1>1, SMT
<1>. DEFINE weeks == 20800 * era + 52 * yoe
<1>. HIDE DEF weeks
<1>7. weeks \in Int /\ DaysUpTo(y) = y + y \div 4 - y \div 100 + y \div 400 + 7 * weeks
  BY <1>5, <1>6 DEF weeks
<1>. QED BY <1>7

\* So do the days before a month, from the table of Weekday.
LEMMA WeeksOfMonths ==
  ASSUME NEW m \in 1 .. 12
  PROVE  /\ <<0, 3, 2, 5, 0, 3, 5, 1, 4, 6, 2, 4>>[m] \in Int
         /\ \E k \in Int :
              DaysBefore(m) = <<0, 3, 2, 5, 0, 3, 5, 1, 4, 6, 2, 4>>[m] + 5 + 7 * k
<1>. DEFINE t == <<0, 3, 2, 5, 0, 3, 5, 1, 4, 6, 2, 4>>
            w == <<43, 47, -1, 3, 8, 12, 16, 21, 25, 29, 34, 38>>
<1>1. /\ DaysBefore(1) = 306 /\ DaysBefore(2) = 337 /\ DaysBefore(3) = 0
      /\ DaysBefore(4) = 31 /\ DaysBefore(5) = 61 /\ DaysBefore(6) = 92
      /\ DaysBefore(7) = 122 /\ DaysBefore(8) = 153 /\ DaysBefore(9) = 184
      /\ DaysBefore(10) = 214 /\ DaysBefore(11) = 245 /\ DaysBefore(12) = 275
  BY SMT DEF DaysBefore
<1>2. /\ t[1] = 0 /\ t[2] = 3 /\ t[3] = 2 /\ t[4] = 5 /\ t[5] = 0 /\ t[6] = 3
      /\ t[7] = 5 /\ t[8] = 1 /\ t[9] = 4 /\ t[10] = 6 /\ t[11] = 2 /\ t[12] = 4
  OBVIOUS
<1>3. /\ w[1] = 43 /\ w[2] = 47 /\ w[3] = -1 /\ w[4] = 3 /\ w[5] = 8 /\ w[6] = 12
      /\ w[7] = 16 /\ w[8] = 21 /\ w[9] = 25 /\ w[10] = 29 /\ w[11] = 34 /\ w[12] = 38
  OBVIOUS
<1>. HIDE DEF t, w
<1>4. /\ m = 1 \/ m = 2 \/ m = 3 \/ m = 4 \/ m = 5 \/ m = 6
         \/ m = 7 \/ m = 8 \/ m = 9 \/ m = 10 \/ m = 11 \/ m = 12
  BY SMT
<1>5. t[m] \in Int /\ w[m] \in Int /\ DaysBefore(m) = t[m] + 5 + 7 * w[m]
  BY <1>1, <1>2, <1>3, <1>4, SMT
<1>6. t[m] \in Int /\ \E k \in Int : DaysBefore(m) = t[m] + 5 + 7 * k
  BY <1>5
<1>. QED BY <1>6 DEF t

\* The number of a day tells which day of the week it is: the first day of 1970
\* was a Thursday.
THEOREM WeekdayOfNumber ==
  ASSUME NEW date \in Dates
  PROVE  Weekday(date) = (EpochDays(date) + 4) % 7
<1>. DEFINE Y == YearFromMarch(date.y, date.m)
            t == <<0, 3, 2, 5, 0, 3, 5, 1, 4, 6, 2, 4>>[date.m]
            S == Y + Y \div 4 - Y \div 100 + Y \div 400 + t + date.d
<1>1. date.y \in Nat /\ date.m \in 1 .. 12 /\ date.d \in 1 .. 32 /\ Y \in Int
  BY SMT DEF Dates, YearFromMarch
<1>2. EpochDays(date) = DaysUpTo(Y) + DaysBefore(date.m) + date.d - 1 - 719468
  BY <1>1, DayNumber DEF EpochDays
<1>3. Weekday(date) = S % 7
  BY DEF Weekday, YearFromMarch
<1>4. PICK a \in Int : DaysUpTo(Y) = Y + Y \div 4 - Y \div 100 + Y \div 400 + 7 * a
  BY <1>1, WeeksOfYears
<1>5. t \in Int /\ \E b \in Int : DaysBefore(date.m) = t + 5 + 7 * b
  BY <1>1, WeeksOfMonths
<1>6. PICK b \in Int : DaysBefore(date.m) = t + 5 + 7 * b
  BY <1>5
<1>7. Y \div 4 \in Int /\ Y \div 100 \in Int /\ Y \div 400 \in Int
  BY <1>1, SMT
<1>. HIDE DEF Y, t
<1>8. S \in Int /\ EpochDays(date) + 4 = S + 7 * (a + b - 102780)
  BY <1>1, <1>2, <1>4, <1>5, <1>6, <1>7, SMT
<1>9. (EpochDays(date) + 4) % 7 = S % 7
  BY <1>8, ModSeven, SMT
<1>. QED BY <1>3, <1>9

-----------------------------------------------------------------------------
(* Counting up, without an operator to be instantiated: a set of naturals    *)
(* that has 0, and with every number the next, is all of them.               *)

\* A set of naturals that is not empty has a least element.
LEMMA LeastOf ==
  ASSUME NEW T, T \subseteq Nat, T # {}
  PROVE  \E x \in T : \A y \in T : x <= y
<1>. DEFINE R == OpToRel(<, Nat)
<1>1. IsWellFoundedOn(R, Nat)
  BY NatLessThanWellFounded
<1>2. \A x, y \in Nat : x < y => <<x, y>> \in R
  BY DEF OpToRel
<1>. HIDE DEF R
<1>3. PICK x \in T : \A y \in T : ~(<<y, x>> \in R)
  BY <1>1, WFMin
<1>4. ASSUME NEW y \in T PROVE x <= y
  <2>1. ~(y < x)
    BY <1>2, <1>3, Zenon
  <2>. QED BY <2>1
<1>. QED BY <1>4

\* Induction over the naturals, as a fact about sets.
LEMMA CountingUp ==
  ASSUME NEW S, 0 \in S, \A n \in Nat : n \in S => n + 1 \in S
  PROVE  Nat \subseteq S
<1>. SUFFICES ASSUME Nat \ S # {} PROVE FALSE
  OBVIOUS
<1>1. PICK x \in Nat \ S : \A y \in Nat \ S : x <= y
  BY LeastOf
<1>2. x # 0 /\ x - 1 \in Nat
  BY <1>1
<1>3. x - 1 \in S
  BY <1>1, <1>2
<1>. QED BY <1>1, <1>2, <1>3

-----------------------------------------------------------------------------
(* Walking from day to day and from month to month.                         *)

IsWalk(w, n, date) == w = [i \in 0 .. n |-> IF i = 0 THEN date ELSE Tomorrow(w[i - 1])]

\* There are walks of any length,
LEMMA WalkExists ==
  ASSUME NEW date
  PROVE  \A n \in Nat : \E w : IsWalk(w, n, date)
<1>. DEFINE S == {n \in Nat : \E w : IsWalk(w, n, date)}
<1>1. 0 \in S
  <2>1. IsWalk([i \in 0 .. 0 |-> date], 0, date)
    BY DEF IsWalk
  <2>. QED BY <2>1
<1>2. ASSUME NEW n \in Nat, n \in S PROVE n + 1 \in S
  <2>1. PICK w : IsWalk(w, n, date)
    BY <1>2
  <2>. DEFINE v == [i \in 0 .. n + 1 |-> IF i = n + 1 THEN Tomorrow(w[n]) ELSE w[i]]
  <2>2. \A i \in 0 .. n : v[i] = w[i] /\ v[i] = IF i = 0 THEN date ELSE Tomorrow(w[i - 1])
    BY <2>1 DEF IsWalk
  <2>3. v[n + 1] = Tomorrow(v[n])
    BY <2>2
  <2>4. \A i \in 0 .. n + 1 : v[i] = IF i = 0 THEN date ELSE Tomorrow(v[i - 1])
    <3>. SUFFICES ASSUME NEW i \in 0 .. n + 1
                  PROVE  v[i] = IF i = 0 THEN date ELSE Tomorrow(v[i - 1])
      OBVIOUS
    <3>1. CASE i = n + 1
      BY <2>3, <3>1
    <3>2. CASE i \in 0 .. n
      <4>1. i # 0 => i - 1 \in 0 .. n
        BY <3>2
      <4>. QED BY <2>2, <3>2, <4>1
    <3>. QED BY <3>1, <3>2
  <2>5. IsWalk(v, n + 1, date)
    BY <2>4 DEF IsWalk
  <2>. QED BY <2>5
<1>. HIDE DEF S
<1>3. Nat \subseteq S
  BY <1>1, <1>2, CountingUp
<1>. QED BY <1>3 DEF S

\* and a longer one begins as a shorter one.
LEMMA WalksAgree ==
  ASSUME NEW date, NEW n \in Nat, NEW w, NEW v, IsWalk(w, n, date), IsWalk(v, n + 1, date)
  PROVE  w[n] = v[n]
<1>. DEFINE S == {i \in Nat : i <= n => w[i] = v[i]}
<1>0. /\ \A i \in 0 .. n : w[i] = IF i = 0 THEN date ELSE Tomorrow(w[i - 1])
      /\ \A i \in 0 .. n + 1 : v[i] = IF i = 0 THEN date ELSE Tomorrow(v[i - 1])
  BY DEF IsWalk
<1>1. 0 \in S
  BY <1>0
<1>2. ASSUME NEW i \in Nat, i \in S PROVE i + 1 \in S
  <2>. SUFFICES ASSUME i + 1 <= n PROVE w[i + 1] = v[i + 1]
    OBVIOUS
  <2>1. w[i] = v[i]
    BY <1>2
  <2>2. w[i + 1] = Tomorrow(w[i]) /\ v[i + 1] = Tomorrow(v[i])
    BY <1>0
  <2>. QED BY <2>1, <2>2
<1>. HIDE DEF S
<1>3. Nat \subseteq S
  BY <1>1, <1>2, CountingUp
<1>. QED BY <1>3 DEF S

\* n days on is a day further than n - 1 days on.
LEMMA DaysOnSteps ==
  ASSUME NEW date, NEW n \in Nat
  PROVE  DaysOn(date, 0) = date /\ DaysOn(date, n + 1) = Tomorrow(DaysOn(date, n))
<1>. DEFINE W(k) == CHOOSE w : IsWalk(w, k, date)
<1>1. \A k \in Nat : IsWalk(W(k), k, date)
  BY WalkExists
<1>2. \A k \in Nat : DaysOn(date, k) = W(k)[k]
  BY DEF DaysOn, IsWalk
<1>. HIDE DEF W
<1>3. \A k \in Nat : \A i \in 0 .. k :
        W(k)[i] = IF i = 0 THEN date ELSE Tomorrow(W(k)[i - 1])
  BY <1>1 DEF IsWalk
<1>4. W(n)[n] = W(n + 1)[n]
  BY <1>1, WalksAgree
<1>5. W(0)[0] = date
  BY <1>3
<1>6. W(n + 1)[n + 1] = Tomorrow(W(n + 1)[n])
  BY <1>3
<1>. QED BY <1>2, <1>4, <1>5, <1>6

IsTally(w, n, date) ==
  w = [k \in 0 .. n |-> IF k = 0 THEN 0 ELSE w[k - 1] + MonthsAgoLength(date, k)]

\* The same for the lengths of the months before a date: there are such sums
LEMMA TallyExists ==
  ASSUME NEW date
  PROVE  \A n \in Nat : \E w : IsTally(w, n, date)
<1>. DEFINE S == {n \in Nat : \E w : IsTally(w, n, date)}
<1>1. 0 \in S
  <2>1. IsTally([k \in 0 .. 0 |-> 0], 0, date)
    BY DEF IsTally
  <2>. QED BY <2>1
<1>2. ASSUME NEW n \in Nat, n \in S PROVE n + 1 \in S
  <2>1. PICK w : IsTally(w, n, date)
    BY <1>2
  <2>. DEFINE v == [k \in 0 .. n + 1 |-> IF k = n + 1 THEN w[n] + MonthsAgoLength(date, n + 1)
                                         ELSE w[k]]
  <2>2. \A k \in 0 .. n :
          v[k] = w[k] /\ v[k] = IF k = 0 THEN 0 ELSE w[k - 1] + MonthsAgoLength(date, k)
    BY <2>1 DEF IsTally
  <2>3. v[n + 1] = v[n] + MonthsAgoLength(date, n + 1)
    BY <2>2
  <2>4. \A k \in 0 .. n + 1 :
          v[k] = IF k = 0 THEN 0 ELSE v[k - 1] + MonthsAgoLength(date, k)
    <3>. SUFFICES ASSUME NEW k \in 0 .. n + 1
                  PROVE  v[k] = IF k = 0 THEN 0 ELSE v[k - 1] + MonthsAgoLength(date, k)
      OBVIOUS
    <3>1. CASE k = n + 1
      BY <2>3, <3>1
    <3>2. CASE k \in 0 .. n
      <4>1. k # 0 => k - 1 \in 0 .. n
        BY <3>2
      <4>. QED BY <2>2, <3>2, <4>1
    <3>. QED BY <3>1, <3>2
  <2>5. IsTally(v, n + 1, date)
    BY <2>4 DEF IsTally
  <2>. QED BY <2>5
<1>. HIDE DEF S
<1>3. Nat \subseteq S
  BY <1>1, <1>2, CountingUp
<1>. QED BY <1>3 DEF S

\* and they agree.
LEMMA TalliesAgree ==
  ASSUME NEW date, NEW n \in Nat, NEW w, NEW v, IsTally(w, n, date), IsTally(v, n + 1, date)
  PROVE  w[n] = v[n]
<1>. DEFINE S == {k \in Nat : k <= n => w[k] = v[k]}
<1>0. /\ \A k \in 0 .. n : w[k] = IF k = 0 THEN 0 ELSE w[k - 1] + MonthsAgoLength(date, k)
      /\ \A k \in 0 .. n + 1 : v[k] = IF k = 0 THEN 0 ELSE v[k - 1] + MonthsAgoLength(date, k)
  BY DEF IsTally
<1>1. 0 \in S
  BY <1>0
<1>2. ASSUME NEW k \in Nat, k \in S PROVE k + 1 \in S
  <2>. SUFFICES ASSUME k + 1 <= n PROVE w[k + 1] = v[k + 1]
    OBVIOUS
  <2>1. w[k] = v[k]
    BY <1>2
  <2>2. /\ w[k + 1] = w[k] + MonthsAgoLength(date, k + 1)
        /\ v[k + 1] = v[k] + MonthsAgoLength(date, k + 1)
    BY <1>0
  <2>. QED BY <2>1, <2>2
<1>. HIDE DEF S
<1>3. Nat \subseteq S
  BY <1>1, <1>2, CountingUp
<1>. QED BY <1>3 DEF S

\* One month more goes back by that month's length.
LEMMA DaysBackSteps ==
  ASSUME NEW date, NEW n \in Nat
  PROVE  /\ DaysBack(date, 0) = 0
         /\ DaysBack(date, n + 1) = DaysBack(date, n) + MonthsAgoLength(date, n + 1)
<1>. DEFINE W(k) == CHOOSE w : IsTally(w, k, date)
<1>1. \A k \in Nat : IsTally(W(k), k, date)
  BY TallyExists
<1>2. \A k \in Nat : DaysBack(date, k) = W(k)[k]
  BY DEF DaysBack, IsTally
<1>. HIDE DEF W
<1>3. \A k \in Nat : \A i \in 0 .. k :
        W(k)[i] = IF i = 0 THEN 0 ELSE W(k)[i - 1] + MonthsAgoLength(date, i)
  BY <1>1 DEF IsTally
<1>4. W(n)[n] = W(n + 1)[n]
  BY <1>1, TalliesAgree
<1>5. W(0)[0] = 0
  BY <1>3
<1>6. W(n + 1)[n + 1] = W(n + 1)[n] + MonthsAgoLength(date, n + 1)
  BY <1>3
<1>. QED BY <1>2, <1>4, <1>5, <1>6

\* A month before a date is as long as a month is.
LEMMA LengthTypes ==
  ASSUME NEW date \in Dates
  PROVE  /\ MonthLength(date.y, date.m) \in 28 .. 31
         /\ \A k \in Nat : MonthsAgoLength(date, k) \in 28 .. 31
  BY DEF MonthsAgoLength, MonthLength

\* So many months are at least so many times 28 days.
LEMMA DaysBackTypes ==
  ASSUME NEW date \in Dates
  PROVE  \A n \in Nat : DaysBack(date, n) \in Nat /\ DaysBack(date, n) >= 28 * n
<1>. DEFINE S == {n \in Nat : DaysBack(date, n) \in Nat /\ DaysBack(date, n) >= 28 * n}
<1>1. 0 \in S
  BY DaysBackSteps
<1>2. ASSUME NEW n \in Nat, n \in S PROVE n + 1 \in S
  <2>1. DaysBack(date, n + 1) = DaysBack(date, n) + MonthsAgoLength(date, n + 1)
    BY DaysBackSteps
  <2>2. MonthsAgoLength(date, n + 1) \in 28 .. 31
    BY LengthTypes
  <2>. QED BY <1>2, <2>1, <2>2
<1>. HIDE DEF S
<1>3. Nat \subseteq S
  BY <1>1, <1>2, CountingUp
<1>. QED BY <1>3 DEF S

\* The months before the days of a month are the same.
LEMMA SameMonthsBack ==
  ASSUME NEW date \in Dates, NEW other \in Dates, other.y = date.y, other.m = date.m
  PROVE  \A n \in Nat : DaysBack(other, n) = DaysBack(date, n)
<1>. DEFINE S == {n \in Nat : DaysBack(other, n) = DaysBack(date, n)}
<1>1. 0 \in S
  BY DaysBackSteps
<1>2. ASSUME NEW n \in Nat, n \in S PROVE n + 1 \in S
  <2>1. MonthsAgoLength(other, n + 1) = MonthsAgoLength(date, n + 1)
    BY DEF MonthsAgoLength, MonthsAgo
  <2>. QED BY <1>2, <2>1, DaysBackSteps
<1>. HIDE DEF S
<1>3. Nat \subseteq S
  BY <1>1, <1>2, CountingUp
<1>. QED BY <1>3 DEF S

\* After the last of a month the count of the months goes on by one.
LEMMA MonthsShift ==
  ASSUME NEW date \in Dates, ~(date.d < MonthLength(date.y, date.m))
  PROVE  /\ MonthsAgoLength(date, 0) = MonthLength(date.y, date.m)
         /\ \A n \in Nat : MonthsAgoLength(Tomorrow(date), n + 1) = MonthsAgoLength(date, n)
<1>0. date.y \in Nat /\ date.m \in 1 .. 12
  BY DEF Dates
<1>. DEFINE index == date.y * 12 + date.m - 1
<1>1. Tomorrow(date).y * 12 + Tomorrow(date).m - 1 = index + 1
  <2>1. CASE date.m < 12
    <3>1. Tomorrow(date).y = date.y /\ Tomorrow(date).m = date.m + 1
      BY <2>1 DEF Tomorrow, Dates
    <3>. QED BY <1>0, <3>1
  <2>2. CASE ~(date.m < 12)
    <3>1. Tomorrow(date).y = date.y + 1 /\ Tomorrow(date).m = 1
      BY <2>2 DEF Tomorrow
    <3>2. date.m = 12
      BY <1>0, <2>2
    <3>. QED BY <1>0, <3>1, <3>2
  <2>. QED BY <2>1, <2>2
<1>2. index \in Nat /\ index \div 12 = date.y /\ (index % 12) + 1 = date.m
  BY <1>0
<1>. DEFINE month(i) == [y |-> i \div 12, m |-> (i % 12) + 1]
<1>3. MonthsAgo(date, 0) = [y |-> date.y, m |-> date.m]
  <2>1. MonthsAgo(date, 0) = month(date.y * 12 + date.m - 1 - 0)
    BY Zenon DEF MonthsAgo
  <2>2. date.y * 12 + date.m - 1 - 0 = index
    BY <1>0
  <2>. HIDE DEF index
  <2>. QED BY <1>2, <2>1, <2>2
<1>4. MonthsAgoLength(date, 0) = MonthLength(date.y, date.m)
  BY <1>3 DEF MonthsAgoLength
<1>5. ASSUME NEW n \in Nat
      PROVE  MonthsAgoLength(Tomorrow(date), n + 1) = MonthsAgoLength(date, n)
  <2>1. Tomorrow(date).y * 12 + Tomorrow(date).m - 1 - (n + 1)
          = date.y * 12 + date.m - 1 - n
    <3>1. Tomorrow(date).y \in Int /\ Tomorrow(date).m \in Int
      BY <1>0 DEF Tomorrow, Dates
    <3>. QED BY <1>0, <1>1, <3>1
  <2>2. MonthsAgo(Tomorrow(date), n + 1)
          = month(Tomorrow(date).y * 12 + Tomorrow(date).m - 1 - (n + 1))
    BY Zenon DEF MonthsAgo
  <2>3. MonthsAgo(date, n) = month(date.y * 12 + date.m - 1 - n)
    BY Zenon DEF MonthsAgo
  <2>. HIDE DEF index, month
  <2>4. MonthsAgo(Tomorrow(date), n + 1) = MonthsAgo(date, n)
    BY <2>1, <2>2, <2>3, Zenon
  <2>. QED BY <2>4 DEF MonthsAgoLength
<1>. QED BY <1>4, <1>5

\* So, over the end of a month, months back become longer by that month and shorter
\* by the one that drops out.
LEMMA NextMonthsBack ==
  ASSUME NEW date \in Dates, ~(date.d < MonthLength(date.y, date.m)),
         Tomorrow(date) \in Dates
  PROVE  \A n \in Nat : DaysBack(Tomorrow(date), n) + MonthsAgoLength(date, n)
                          = DaysBack(date, n) + MonthLength(date.y, date.m)
<1>. DEFINE e == Tomorrow(date)
            L == MonthLength(date.y, date.m)
            S == {n \in Nat : DaysBack(e, n) + MonthsAgoLength(date, n) = DaysBack(date, n) + L}
<1>0. L \in Nat /\ MonthsAgoLength(date, 0) = L
  BY LengthTypes, MonthsShift
<1>1. 0 \in S
  BY <1>0, DaysBackSteps
<1>2. ASSUME NEW n \in Nat, n \in S PROVE n + 1 \in S
  <2>1. /\ DaysBack(e, n + 1) = DaysBack(e, n) + MonthsAgoLength(e, n + 1)
        /\ DaysBack(date, n + 1) = DaysBack(date, n) + MonthsAgoLength(date, n + 1)
        /\ MonthsAgoLength(e, n + 1) = MonthsAgoLength(date, n)
    BY DaysBackSteps, MonthsShift
  <2>2. /\ DaysBack(e, n) \in Nat /\ DaysBack(date, n) \in Nat
        /\ MonthsAgoLength(date, n) \in Nat /\ MonthsAgoLength(date, n + 1) \in Nat
    BY DaysBackTypes, LengthTypes
  <2>3. DaysBack(e, n) + MonthsAgoLength(date, n) = DaysBack(date, n) + L
    BY <1>2
  <2>. HIDE DEF e, L
  <2>4. DaysBack(e, n + 1) + MonthsAgoLength(date, n + 1) = DaysBack(date, n + 1) + L
    BY <1>0, <2>1, <2>2, <2>3
  <2>. QED BY <2>4
<1>. HIDE DEF S
<1>3. Nat \subseteq S
  BY <1>1, <1>2, CountingUp
<1>. QED BY <1>3 DEF S

\* A day later, the months back are at most three days less.
LEMMA NextDayBack ==
  ASSUME NEW date \in Dates, Tomorrow(date) \in Dates, NEW n \in Nat
  PROVE  DaysBack(date, n) - DaysBack(Tomorrow(date), n) <= 3
<1>0. DaysBack(date, n) \in Nat /\ DaysBack(Tomorrow(date), n) \in Nat
  BY DaysBackTypes
<1>1. CASE date.d < MonthLength(date.y, date.m)
  <2>1. Tomorrow(date).y = date.y /\ Tomorrow(date).m = date.m
    BY <1>1 DEF Tomorrow, Dates
  <2>2. DaysBack(Tomorrow(date), n) = DaysBack(date, n)
    BY <2>1, SameMonthsBack
  <2>. QED BY <1>0, <2>2
<1>2. CASE ~(date.d < MonthLength(date.y, date.m))
  <2>1. DaysBack(Tomorrow(date), n) + MonthsAgoLength(date, n)
          = DaysBack(date, n) + MonthLength(date.y, date.m)
    BY <1>2, NextMonthsBack
  <2>2. MonthsAgoLength(date, n) \in 28 .. 31 /\ MonthLength(date.y, date.m) \in 28 .. 31
    BY LengthTypes
  <2>. QED BY <1>0, <2>1, <2>2
<1>. QED BY <1>1, <1>2

\* The day after a day is a day.
LEMMA TomorrowIsDate ==
  ASSUME NEW day \in Dates, day.d <= MonthLength(day.y, day.m)
  PROVE  /\ Tomorrow(day) \in Dates
         /\ Tomorrow(day).d <= MonthLength(Tomorrow(day).y, Tomorrow(day).m)
<1>1. day.y \in Nat /\ day.m \in 1 .. 12 /\ day.d \in 1 .. 31
  BY SMT DEF Dates
<1>2. \A y \in Nat, m \in 1 .. 12 : MonthLength(y, m) \in 28 .. 31
  BY SMT DEF MonthLength
<1>3. CASE day.d < MonthLength(day.y, day.m)
  <2>1. /\ Tomorrow(day).y = day.y /\ Tomorrow(day).m = day.m /\ Tomorrow(day).d = day.d + 1
        /\ Tomorrow(day) = [day EXCEPT !.d = @ + 1]
    BY <1>3, SMT DEF Tomorrow, Dates
  <2>2. day.d + 1 \in 1 .. 31
    BY <1>1, <1>2, <1>3, SMT
  <2>3. Tomorrow(day) \in Dates
    BY <1>1, <2>1, <2>2 DEF Dates
  <2>. QED BY <1>1, <1>2, <1>3, <2>1, <2>3, SMT
<1>4. CASE ~(day.d < MonthLength(day.y, day.m)) /\ day.m < 12
  <2>1. /\ Tomorrow(day) = [day EXCEPT !.d = 1, !.m = @ + 1]
        /\ Tomorrow(day).y = day.y /\ Tomorrow(day).m = day.m + 1 /\ Tomorrow(day).d = 1
    BY <1>4, SMT DEF Tomorrow, Dates
  <2>2. day.m + 1 \in 1 .. 12
    BY <1>1, <1>4, SMT
  <2>3. Tomorrow(day) \in Dates
    <3>1. [day EXCEPT !.d = 1] \in Dates
      BY SMT DEF Dates
    <3>2. Tomorrow(day) = [[day EXCEPT !.d = 1] EXCEPT !.m = day.m + 1]
      BY <2>1
    <3>. QED BY <2>2, <3>1, <3>2 DEF Dates
  <2>. QED BY <1>1, <1>2, <2>1, <2>2, <2>3, SMT
<1>5. CASE ~(day.d < MonthLength(day.y, day.m)) /\ ~(day.m < 12)
  <2>1. /\ Tomorrow(day) = [y |-> day.y + 1, m |-> 1, d |-> 1]
    BY <1>5 DEF Tomorrow
  <2>2. /\ Tomorrow(day).y = day.y + 1 /\ Tomorrow(day).m = 1 /\ Tomorrow(day).d = 1
        /\ day.y + 1 \in Nat
    BY <1>1, <2>1, SMT
  <2>3. Tomorrow(day) \in Dates
    BY <2>1, <2>2, SMT DEF Dates
  <2>4. 1 <= MonthLength(day.y + 1, 1)
    BY <2>2, SMT DEF MonthLength
  <2>. QED BY <2>2, <2>3, <2>4
<1>. QED BY <1>3, <1>4, <1>5

\* Stepping from day to day, the day numbers of time.go count the steps.
THEOREM NumbersCountDays ==
  ASSUME NEW date \in Dates, date.d <= MonthLength(date.y, date.m)
  PROVE  \A n \in Nat :
           /\ DaysOn(date, n) \in Dates
           /\ DaysOn(date, n).d <= MonthLength(DaysOn(date, n).y, DaysOn(date, n).m)
           /\ EpochDays(DaysOn(date, n)) = EpochDays(date) + n
<1>. DEFINE Good(day, n) == /\ day \in Dates /\ day.d <= MonthLength(day.y, day.m)
                            /\ EpochDays(day) = EpochDays(date) + n
            S == {n \in Nat : Good(DaysOn(date, n), n)}
<1>0. EpochDays(date) \in Int
  BY NumbersFrom1970
<1>1. 0 \in S
  BY <1>0, DaysOnSteps
<1>2. ASSUME NEW n \in Nat, n \in S PROVE n + 1 \in S
  <2>. DEFINE day == DaysOn(date, n)
  <2>1. Good(day, n) /\ DaysOn(date, n + 1) = Tomorrow(day)
    BY <1>2, DaysOnSteps
  <2>. HIDE DEF day
  <2>2. /\ Tomorrow(day) \in Dates
        /\ Tomorrow(day).d <= MonthLength(Tomorrow(day).y, Tomorrow(day).m)
    BY <2>1, TomorrowIsDate
  <2>3. EpochDays(Tomorrow(day)) = EpochDays(day) + 1
    BY <2>1, NextDayNextNumber
  <2>4. Good(Tomorrow(day), n + 1)
    BY <1>0, <2>1, <2>2, <2>3
  <2>. QED BY <2>1, <2>4
<1>. HIDE DEF S
<1>3. Nat \subseteq S
  BY <1>1, <1>2, CountingUp
<1>. QED BY <1>3 DEF S

-----------------------------------------------------------------------------
(* Every N days.                                                            *)

\* A number and what it is divided by.
LEMMA Division ==
  ASSUME NEW a \in Int, NEW k \in Nat \ {0}
  PROVE  a = (k * (a \div k)) + (a % k) /\ a \div k \in Int /\ a % k \in 0 .. k - 1
  BY SMT

\* A multiple that is not 0 is not less than what it is a multiple of.
LEMMA Multiples ==
  ASSUME NEW k \in Nat \ {0}, NEW p \in Int, NEW q \in Int,
         NEW n \in 0 .. k - 1, n = k * q - k * p
  PROVE  n = 0
<1>1. n = k * (q - p)
  OBVIOUS
<1>2. CASE q - p <= 0
  <2>1. k * (q - p) <= 0
    BY <1>2
  <2>. QED BY <1>1, <2>1
<1>3. CASE q - p >= 1
  <2>1. k * (q - p) >= k
    BY <1>3
  <2>. QED BY <1>1, <2>1
<1>. QED BY <1>2, <1>3

\* From a multiple of N the next one is N further and none is between.
LEMMA NextMultiple ==
  ASSUME NEW a \in Int, NEW k \in Nat \ {0}, a % k = 0
  PROVE  /\ \A n \in 1 .. k - 1 : (a + n) % k # 0
         /\ (a + k) % k = 0
<1>. DEFINE p == a \div k
<1>1. a = k * p /\ p \in Int
  BY Division
<1>. HIDE DEF p
<1>2. ASSUME NEW n \in 1 .. k - 1, (a + n) % k = 0 PROVE FALSE
  <2>. DEFINE q == (a + n) \div k
  <2>1. a + n = k * q /\ q \in Int
    BY <1>2, Division
  <2>. HIDE DEF q
  <2>2. n = k * q - k * p
    BY <1>1, <2>1
  <2>3. n \in 0 .. k - 1 /\ n # 0
    BY <1>2
  <2>4. n = 0
    BY <1>1, <2>1, <2>2, <2>3, Multiples, SMTT(20)
  <2>. QED BY <2>3, <2>4
<1>3. (a + k) % k = 0
  <2>. DEFINE q == (a + k) \div k
              r == (a + k) % k
  <2>0. a + k \in Int
    OBVIOUS
  <2>1. a + k = (k * q) + r /\ q \in Int /\ r \in 0 .. k - 1
    BY <2>0, Division, Zenon
  <2>. HIDE DEF q, r
  <2>. DEFINE s == p + 1
  <2>2. r = k * s - k * q /\ s \in Int
    BY <1>1, <2>1
  <2>. HIDE DEF s
  <2>3. r = 0
    BY <2>1, <2>2, Multiples, SMTT(20)
  <2>. QED BY <2>3 DEF r
<1>. QED BY <1>2, <1>3

\* Some day of the next N has a number that N divides.
LEMMA MultipleAhead ==
  ASSUME NEW a \in Int, NEW k \in Nat \ {0}
  PROVE  \E n \in 1 .. k : (a + n) % k = 0
<1>. DEFINE r == a % k
            p == a \div k
            n == k - r
<1>1. a = (k * p) + r /\ p \in Int /\ r \in 0 .. k - 1
  BY Division
<1>. HIDE DEF r, p
<1>2. n \in 1 .. k /\ a + n = (k * p) + k
  BY <1>1
<1>. DEFINE q == (k * p) + k
            s == q % k
            d == q \div k
            e == p + 1
<1>3. q \in Int /\ e \in Int
  BY <1>1
<1>4. q = (k * d) + s /\ d \in Int /\ s \in 0 .. k - 1
  BY <1>3, Division, Zenon
<1>. HIDE DEF s, d
<1>5. s = k * e - k * d
  BY <1>1, <1>4
<1>. HIDE DEF e
<1>6. s = 0
  BY <1>3, <1>4, <1>5, Multiples
<1>7. (a + n) % k = 0
  BY <1>2, <1>6 DEF s
<1>. QED BY <1>2, <1>7

\* A schedule that runs every N days runs N days after a day it runs on and on no day
\* in between, wherever the month or the year ends (schedule.go:112-129).
THEOREM IntervalRuns ==
  ASSUME NEW s, s.kind = "interval", s.interval \in Nat \ {0},
         NEW date \in Dates, date.d <= MonthLength(date.y, date.m), RunsOn(s, date)
  PROVE  /\ \A n \in 1 .. s.interval - 1 : ~RunsOn(s, DaysOn(date, n))
         /\ RunsOn(s, DaysOn(date, s.interval))
<1>1. EpochDays(date) \in Int /\ s.enabled /\ EpochDays(date) % s.interval = 0
  BY NumbersFrom1970 DEF RunsOn
<1>2. \A n \in Nat : RunsOn(s, DaysOn(date, n)) <=> (EpochDays(date) + n) % s.interval = 0
  BY <1>1, NumbersCountDays DEF RunsOn
<1>3. /\ \A n \in 1 .. s.interval - 1 : (EpochDays(date) + n) % s.interval # 0
      /\ (EpochDays(date) + s.interval) % s.interval = 0
  BY <1>1, NextMultiple
<1>. QED BY <1>2, <1>3

-----------------------------------------------------------------------------
(* The run that is announced.                                               *)

\* The days, of those looked at, that have a start to announce.
AheadDays(plan, day, m) ==
  {n \in 0 .. LookAhead : TimesOn(plan, DaysOn(day, n), m, n) # {}}

\* What is announced of a day.
RunOfDay(plan, day, m, n) == [inDays |-> n, times |-> TimesOn(plan, DaysOn(day, n), m, n)]

\* What the loop returns from its turn for a day on.
IsSearch(f, plan, day, m) ==
  f = [n \in 0 .. LookAhead + 1 |->
         IF n > LookAhead THEN NoRun
         ELSE IF TimesOn(plan, DaysOn(day, n), m, n) # {}
         THEN [inDays |-> n, times |-> TimesOn(plan, DaysOn(day, n), m, n)]
         ELSE f[n + 1]]

\* There is such a function, since the turn for a day only needs those for later days.
LEMMA SearchExists ==
  ASSUME NEW plan, NEW day, NEW m
  PROVE  \E f : IsSearch(f, plan, day, m)
<1>. DEFINE Times(n) == TimesOn(plan, DaysOn(day, n), m, n)
            later(n) == {k \in AheadDays(plan, day, m) : n <= k}
            next(n)  == CHOOSE k \in later(n) : \A j \in later(n) : k <= j
            First(T) == IF T = {} THEN NoRun
                        ELSE RunOfDay(plan, day, m, CHOOSE k \in T : \A j \in T : k <= j)
            f        == [n \in 0 .. LookAhead + 1 |-> First(later(n))]
<1>1. \A n : later(n) \subseteq 0 .. LookAhead /\ later(n) \subseteq Nat
  BY DEF AheadDays, LookAhead
<1>2. \A n : later(n) # {} => next(n) \in later(n) /\ \A j \in later(n) : next(n) <= j
  <2>. SUFFICES ASSUME NEW n, later(n) # {}
                PROVE  next(n) \in later(n) /\ \A j \in later(n) : next(n) <= j
    OBVIOUS
  <2>. DEFINE T == later(n)
  <2>1. T \subseteq Nat /\ T # {}
    BY <1>1
  <2>. HIDE DEF T
  <2>2. \E k \in T : \A j \in T : k <= j
    BY <2>1, LeastOf
  <2>3. (CHOOSE k \in T : \A j \in T : k <= j) \in T
          /\ \A j \in T : (CHOOSE k \in T : \A i \in T : k <= i) <= j
    BY <2>2
  <2>. QED BY <2>3 DEF T
<1>3. ASSUME NEW n \in 0 .. LookAhead + 1
      PROVE  f[n] = IF n > LookAhead THEN NoRun
                    ELSE IF Times(n) # {} THEN [inDays |-> n, times |-> Times(n)]
                    ELSE f[n + 1]
  <2>1. CASE n > LookAhead
    <3>1. later(n) = {}
      BY <1>1, <2>1 DEF LookAhead
    <3>. QED BY <2>1, <3>1
  <2>2. CASE n \in 0 .. LookAhead /\ Times(n) # {}
    <3>1. n \in later(n) /\ n \in Nat
      BY <2>2 DEF AheadDays, LookAhead
    <3>2. next(n) = n
      <4>1. next(n) \in later(n) /\ next(n) <= n
        BY <1>2, <3>1
      <4>2. next(n) \in Nat /\ n <= next(n)
        BY <1>1, <4>1
      <4>. HIDE DEF next
      <4>. QED BY <3>1, <4>1, <4>2
    <3>3. f[n] = RunOfDay(plan, day, m, next(n))
      BY <3>1
    <3>. HIDE DEF f, next
    <3>4. f[n] = [inDays |-> n, times |-> Times(n)]
      BY <3>2, <3>3 DEF RunOfDay
    <3>. QED BY <2>2, <3>4 DEF LookAhead
  <2>3. CASE n \in 0 .. LookAhead /\ Times(n) = {}
    <3>1. n \notin AheadDays(plan, day, m) /\ n + 1 \in 0 .. LookAhead + 1
      BY <2>3 DEF AheadDays, LookAhead
    <3>2. \A k \in AheadDays(plan, day, m) : k \in Nat
      BY DEF AheadDays, LookAhead
    <3>3. later(n) = later(n + 1)
      BY <3>1, <3>2
    <3>. HIDE DEF later, First
    <3>4. f[n] = First(later(n)) /\ f[n + 1] = First(later(n + 1))
      BY <3>1
    <3>. HIDE DEF f
    <3>. QED BY <2>3, <3>3, <3>4 DEF LookAhead
  <2>. QED BY <2>1, <2>2, <2>3 DEF LookAhead
<1>. HIDE DEF f
<1>4. f = [n \in 0 .. LookAhead + 1 |-> f[n]]
  BY DEF f
<1>5. IsSearch(f, plan, day, m)
  BY <1>3, <1>4, Zenon DEF IsSearch
<1>. QED BY <1>5

\* The loop gets from a day without a start to come to the next day, and so from the
\* first of any such days to the one after the last.
LEMMA SearchSkips ==
  ASSUME NEW plan, NEW day, NEW m, NEW f, IsSearch(f, plan, day, m),
         NEW n \in 0 .. LookAhead + 1, \A k \in 0 .. n - 1 : k \notin AheadDays(plan, day, m)
  PROVE  f[0] = f[n]
<1>. DEFINE S == {k \in Nat : k <= n => f[0] = f[k]}
<1>1. 0 \in S
  OBVIOUS
<1>2. ASSUME NEW k \in Nat, k \in S PROVE k + 1 \in S
  <2>. SUFFICES ASSUME k + 1 <= n PROVE f[k] = f[k + 1]
    BY <1>2
  <2>1. k \in 0 .. LookAhead + 1 /\ ~(k > LookAhead) /\ k \in 0 .. n - 1 /\ k \in 0 .. LookAhead
    BY DEF LookAhead
  <2>2. TimesOn(plan, DaysOn(day, k), m, k) = {}
    BY <2>1 DEF AheadDays
  <2>. QED BY <2>1, <2>2 DEF IsSearch
<1>. HIDE DEF S
<1>3. Nat \subseteq S
  BY <1>1, <1>2, CountingUp
<1>4. n \in S
  BY <1>3 DEF LookAhead
<1>. QED BY <1>4 DEF S

\* The loop of NextRunAfter, which goes from day to day, returns at the first day that
\* has a start to come, with all of these and no other, and gives up only if no day of
\* the two weeks has one (schedule.go:134-161).
THEOREM AnnouncesTheFirst ==
  ASSUME NEW plan, NEW day, NEW m, NEW run, run = NextRunAfter(plan, day, m)
  PROVE  /\ run = NoRun <=> AheadDays(plan, day, m) = {}
         /\ run # NoRun =>
              /\ run.inDays \in AheadDays(plan, day, m)
              /\ \A n \in AheadDays(plan, day, m) : run.inDays <= n
              /\ run.times = TimesOn(plan, DaysOn(day, run.inDays), m, run.inDays)
<1>. DEFINE ahead == AheadDays(plan, day, m)
<1>1. CASE ~(plan.enabled /\ plan.starts # {})
  <2>1. run = NoRun
    BY <1>1, Zenon DEF NextRunAfter
  <2>2. \A n : TimesOn(plan, DaysOn(day, n), m, n) = {}
    BY <1>1 DEF TimesOn, RunsOn
  <2>. QED BY <2>1, <2>2 DEF AheadDays
<1>2. CASE plan.enabled /\ plan.starts # {}
  <2>. DEFINE f == CHOOSE g : IsSearch(g, plan, day, m)
  <2>1. IsSearch(f, plan, day, m)
    BY SearchExists
  <2>2. run = f[0]
    BY <1>2, Zenon DEF NextRunAfter, IsSearch
  <2>. HIDE DEF f
  <2>3. CASE ahead = {}
    <3>1. f[0] = f[LookAhead + 1]
      BY <2>1, <2>3, SearchSkips DEF LookAhead
    <3>2. f[LookAhead + 1] = NoRun
      BY <2>1 DEF IsSearch, LookAhead
    <3>. QED BY <2>2, <2>3, <3>1, <3>2
  <2>4. CASE ahead # {}
    <3>1. ahead \subseteq 0 .. LookAhead /\ ahead \subseteq Nat
      BY DEF AheadDays, LookAhead
    <3>2. PICK n0 \in ahead : \A n \in ahead : n0 <= n
      BY <2>4, <3>1, LeastOf
    <3>3. n0 \in 0 .. LookAhead /\ n0 \in 0 .. LookAhead + 1 /\ ~(n0 > LookAhead)
      BY <3>1 DEF LookAhead
    <3>4. \A k \in 0 .. n0 - 1 : k \notin ahead
      BY <3>2, <3>3 DEF LookAhead
    <3>5. f[0] = f[n0]
      BY <2>1, <3>3, <3>4, SearchSkips
    <3>6. TimesOn(plan, DaysOn(day, n0), m, n0) # {}
      BY <3>2 DEF AheadDays
    <3>7. f[n0] = RunOfDay(plan, day, m, n0)
      BY <2>1, <3>3, <3>6 DEF IsSearch, RunOfDay
    <3>8. run.inDays = n0 /\ run.times = TimesOn(plan, DaysOn(day, n0), m, n0)
      BY <2>2, <3>5, <3>7 DEF RunOfDay
    <3>9. run # NoRun
      <4>1. n0 # -1
        BY <3>3 DEF LookAhead
      <4>2. NoRun.inDays = -1
        BY DEF NoRun
      <4>. QED BY <3>8, <4>1, <4>2
    <3>. QED BY <2>4, <3>2, <3>8, <3>9
  <2>. QED BY <2>3, <2>4
<1>. QED BY <1>1, <1>2

\* Two weeks are enough to find a run of every enabled schedule that runs by the days
\* of the week, whatever day of the month, or every N days up to 14.
THEOREM FoundInTwoWeeks ==
  ASSUME NEW s, s.enabled, s.starts # {},
         \/ s.kind = "interval" /\ s.interval \in 1 .. LookAhead
         \/ s.kind = "weekly" /\ s.restriction = 0 /\ s.days \cap 0 .. 6 # {},
         NEW date \in Dates, date.d <= MonthLength(date.y, date.m), NEW minute
  PROVE  NextRunAfter(s, date, minute) # NoRun
<1>. DEFINE a == EpochDays(date)
<1>0. a \in Int
  BY NumbersFrom1970
<1>1. \A n \in Nat : /\ DaysOn(date, n) \in Dates /\ EpochDays(DaysOn(date, n)) = a + n
  BY NumbersCountDays
<1>. HIDE DEF a
<1>2. \E n \in 1 .. LookAhead : RunsOn(s, DaysOn(date, n))
  <2>1. CASE s.kind = "interval"
    <3>1. s.interval \in Nat \ {0} /\ s.interval \in 1 .. LookAhead
      BY <2>1 DEF LookAhead
    <3>2. PICK n \in 1 .. s.interval : (a + n) % s.interval = 0
      BY <1>0, <3>1, MultipleAhead
    <3>3. n \in 1 .. LookAhead /\ n \in Nat
      BY <3>1 DEF LookAhead
    <3>4. RunsOn(s, DaysOn(date, n))
      BY <1>1, <2>1, <3>1, <3>2, <3>3 DEF RunsOn
    <3>. QED BY <3>3, <3>4
  <2>2. CASE s.kind = "weekly"
    <3>1. PICK w \in 0 .. 6 : w \in s.days
      BY <2>2
    <3>2. PICK n \in 1 .. 7 : (a + n + 4) % 7 = w
      <4>. DEFINE u == (a + 4) % 7
                  n == IF w > u THEN w - u ELSE (w - u) + 7
      <4>1. n \in 1 .. 7 /\ (a + n + 4) % 7 = w
        BY <1>0, SMT
      <4>. QED BY <4>1
    <3>3. n \in Nat /\ n \in 1 .. LookAhead
      BY DEF LookAhead
    <3>4. Weekday(DaysOn(date, n)) = ((a + n) + 4) % 7
      BY <1>1, <3>3, WeekdayOfNumber
    <3>5. Weekday(DaysOn(date, n)) \in s.days
      BY <1>0, <3>1, <3>2, <3>3, <3>4
    <3>. QED BY <2>2, <3>3, <3>5 DEF RunsOn
  <2>. QED BY <2>1, <2>2
<1>3. PICK n \in 1 .. LookAhead : RunsOn(s, DaysOn(date, n))
  BY <1>2
<1>4. n \in 0 .. LookAhead /\ n > 0
  BY DEF LookAhead
<1>5. TimesOn(s, DaysOn(date, n), minute, n) = s.starts
  BY <1>3, <1>4 DEF TimesOn
<1>6. n \in AheadDays(s, date, minute)
  BY <1>4, <1>5 DEF AheadDays
<1>. QED BY <1>6, AnnouncesTheFirst
=============================================================================
