----------------------------- MODULE AlgorithmsProofs -----------------------
(***************************************************************************)
(* Theorems about Calendar, for every day from 1970 on: the conversions    *)
(* are each other's inverse and agree with the calendar, and the RTC keeps *)
(* a date; and about the Base32 decoder of TotpEngine, for every text.     *)
(* The walk is that of MCAlgorithms, whatever year and length it ends in.  *)
(***************************************************************************)
EXTENDS MCAlgorithms, DataLemmas, TLAPS

-----------------------------------------------------------------------------
(***************************************************************************)
(* Years and months.                                                       *)
(***************************************************************************)
\* Days from the era's epoch to the first of March of year u (days_from_civil).
DaysBefore(u) ==
    LET yoe == u % 400
    IN (u \div 400) * 146097 + yoe * 365 + yoe \div 4 - yoe \div 100

\* A year by era, century, leap-year cycle and year of the cycle.
LEMMA Parts ==
  ASSUME NEW u \in Int
  PROVE  \E e \in Int, c \in 0..3, q \in 0..24, r \in 0..3 :
           /\ u = 400 * e + 100 * c + 4 * q + r
           /\ u \div 400 = e /\ u % 400 = 100 * c + 4 * q + r
<1> DEFINE e == u \div 400
           yoe == u % 400
           c == yoe \div 100
           q == (yoe % 100) \div 4
           r == yoe % 4
<1>1. e \in Int /\ yoe \in 0..399 /\ u = 400 * e + yoe
  OBVIOUS
<1> HIDE DEF e, yoe
<1>2. c \in 0..3 /\ q \in 0..24 /\ r \in 0..3 /\ yoe = 100 * c + 4 * q + r
  BY <1>1
<1> HIDE DEF c, q, r
<1>3. QED BY <1>1, <1>2 DEF e, yoe

\* From March to March there are 365 days, or 366 around a leap day.
LEMMA YearDays ==
  ASSUME NEW u \in Int
  PROVE  DaysBefore(u + 1) = DaysBefore(u) + (IF Leap(u + 1) THEN 366 ELSE 365)
BY DEF DaysBefore, Leap

\* The quotient by which civil_from_days finds the year of the era from the day
\* of the era: the three corrections take away exactly the leap days.
LEMMA YearIs ==
  ASSUME NEW c \in Int, NEW q \in Int, NEW r \in Int, NEW doy \in Int,
         0 <= c, c <= 3, 0 <= q, q <= 24, 0 <= r, r <= 3, 0 <= doy, doy <= 365,
         NEW doe \in Int, doe = 36524 * c + 1461 * q + 365 * r + doy,
         doy = 365 => r = 3 /\ (q = 24 => c = 3)
  PROVE  /\ 0 <= doe /\ doe <= 146096
         /\ (doe - doe \div 1460 + doe \div 36524 - doe \div 146096) \div 365 = 100 * c + 4 * q + r
<1>1. 0 <= doe /\ doe <= 146096
  OBVIOUS
<1>2. doe \div 36524 - doe \div 146096 = c
  <2>1. CASE doe = 146096
    <3>1. c = 3
      BY <2>1
    <3>2. QED BY <2>1, <3>1
  <2>2. CASE doe < 146096
    <3>1. doe \div 146096 = 0
      BY <1>1, <2>2
    <3>2. 36524 * c <= doe /\ doe < 36524 * c + 36524
      BY <2>2
    <3>3. doe \div 36524 = c
      BY <1>1, <3>2
    <3>4. QED BY <3>1, <3>3
  <2>3. QED BY <1>1, <2>1, <2>2
<1> DEFINE n == 25 * c + q
           over == 24 * c + q + 365 * r + doy
           p == doe \div 1460
<1>3. doe = 1460 * n + over /\ over \in Int /\ 0 <= over /\ over <= 2000 /\ n \in Nat /\ p \in Int
  BY <1>1
<1>4. p = IF over < 1460 THEN n ELSE n + 1
  <2> HIDE DEF n, over
  <2> QED BY <1>3
<1>5. over < 1460 => doy <= 364
  OBVIOUS
<1>6. over >= 1460 => doy >= 1
  OBVIOUS
<1> DEFINE rest == IF over < 1460 THEN doy ELSE doy - 1
           y == 100 * c + 4 * q + r
<1>7. doe - p + c = 365 * y + rest
  BY <1>4
<1>8. rest \in Int /\ 0 <= rest /\ rest <= 364 /\ y \in Int
  <2> HIDE DEF over
  <2> QED BY <1>3, <1>5, <1>6
<1>9. (365 * y + rest) \div 365 = y
  <2> HIDE DEF rest, y
  <2> QED BY <1>8
<1>10. doe - doe \div 1460 + doe \div 36524 - doe \div 146096 = doe - p + c
  <2> DEFINE k == doe \div 36524
             l == doe \div 146096
  <2>1. k \in Int /\ l \in Int /\ k - l = c
    BY <1>1, <1>2
  <2> HIDE DEF k, l, n, over
  <2>2. doe - p + k - l = doe - p + c
    <3> HIDE DEF p
    <3> QED BY <1>1, <1>3, <2>1
  <2>3. QED BY <2>2 DEF k, l, p
<1>11. QED BY <1>1, <1>7, <1>9, <1>10

\* Days of a month counted from March, February at its longest; day of a year
\* that begins in March; the month and year of such a calendar.
Length(mp) == IF mp \in {1, 3, 6, 8} THEN 30 ELSE IF mp = 11 THEN 29 ELSE 31
Doy(mp, d) == (153 * mp + 2) \div 5 + d - 1
Mp(m) == IF m > 2 THEN m - 3 ELSE m + 9
Year(y, m) == IF m <= 2 THEN y - 1 ELSE y

\* The rounding of 153 / 5 days per month puts the first of a month after the
\* last of the month before.
LEMMA NextMonth ==
  ASSUME NEW mp \in 0..10
  PROVE  Doy(mp + 1, 1) = Doy(mp, Length(mp)) + 1
BY DEF Length, Doy

-----------------------------------------------------------------------------
(***************************************************************************)
(* Dates.                                                                  *)
(***************************************************************************)
\* dt is a date of the calendar.
IsDate(dt) ==
    /\ dt = [year |-> dt.year, month |-> dt.month, day |-> dt.day]
    /\ dt.year \in Int /\ dt.month \in 1..12
    /\ dt.day \in 1..MonthDays(dt.year, dt.month)

\* Length is the length of the month, but for February of a common year.
LEMMA MonthLength ==
  ASSUME NEW y \in Int, NEW m \in 1..12
  PROVE  /\ MonthDays(y, m) = IF m = 2 /\ ~Leap(y) THEN 28 ELSE Length(Mp(m))
         /\ MonthDays(y, m) \in 1..Length(Mp(m)) /\ Mp(m) \in 0..11
         /\ (IF Mp(m) < 10 THEN Mp(m) + 3 ELSE Mp(m) - 9) = m
<1>1. m \in {1, 2, 3, 4, 5, 6, 7, 8, 9, 10, 11, 12}
  OBVIOUS
<1>2. QED BY <1>1 DEF MonthDays, KDays, Length, Mp

\* 1 March 0000 to 1 January 1970, as a name: the provers write numbers out.
Epoch == 719468

\* days_from_civil is a sum of the year's part and the day's part.
LEMMA InParts ==
  ASSUME NEW y \in Int, NEW m \in 1..12, NEW d \in Int
  PROVE  /\ DaysFromCivil(y, m, d) = DaysBefore(Year(y, m)) + Doy(Mp(m), d) - Epoch /\ Epoch \in Int
         /\ Year(y, m) \in Int /\ Mp(m) \in Int /\ Doy(Mp(m), d) \in Int /\ DaysBefore(Year(y, m)) \in Int
<1>1. Year(y, m) \in Int /\ Mp(m) \in Int
  BY DEF Year, Mp
<1>2. DaysBefore(Year(y, m)) \in Int
  BY <1>1 DEF DaysBefore
<1>3. Doy(Mp(m), d) \in Int
  BY <1>1 DEF Doy
<1> DEFINE u == Year(y, m)
           e == (u \div 400) * 146097
           yoe == u % 400
           f == yoe * 365
           g == yoe \div 4
           h == yoe \div 100
           doy == Doy(Mp(m), d)
<1>4. DaysFromCivil(y, m, d) = e + (f + g - h + doy) - 719468
  BY DEF DaysFromCivil, Year, Doy, Mp
<1>5. DaysBefore(u) = e + f + g - h
  BY DEF DaysBefore
<1>6. e \in Int /\ f \in Int /\ g \in Int /\ h \in Int /\ doy \in Int
  BY <1>1, <1>3
<1>7. e + (f + g - h + doy) - 719468 = (e + f + g - h) + doy - 719468
  <2> HIDE DEF e, f, g, h, doy
  <2> QED BY <1>6
<1>8. QED BY <1>1, <1>2, <1>3, <1>4, <1>5, <1>7 DEF Epoch

\* The day number of a date.
Days(dt) == DaysFromCivil(dt.year, dt.month, dt.day)

\* The day after a date is a date and has the next number, at the end of a
\* month, of February and of a year too.
LEMMA DayAfter ==
  ASSUME NEW dt, IsDate(dt)
  PROVE  IsDate(Tomorrow(dt)) /\ Days(Tomorrow(dt)) = Days(dt) + 1
<1> DEFINE y == dt.year
           m == dt.month
           d == dt.day
<1>1. /\ y \in Int /\ m \in 1..12 /\ d \in 1..MonthDays(y, m)
      /\ dt = [year |-> y, month |-> m, day |-> d]
  BY DEF IsDate
<1>2. /\ MonthDays(y, m) = IF m = 2 /\ ~Leap(y) THEN 28 ELSE Length(Mp(m))
      /\ MonthDays(y, m) \in 1..Length(Mp(m)) /\ Mp(m) \in 0..11
  BY <1>1, MonthLength
<1>3. Length(Mp(m)) \in Int /\ MonthDays(y, m) \in Int /\ d \in Int /\ d <= MonthDays(y, m)
  BY <1>1, <1>2 DEF Length
<1>4. CASE d < MonthDays(y, m)
  <2>1. Tomorrow(dt) = [year |-> y, month |-> m, day |-> d + 1]
    BY <1>1, <1>4 DEF Tomorrow
  <2>2. d + 1 \in 1..MonthDays(y, m) /\ d + 1 \in Int
    BY <1>3, <1>1, <1>4
  <2>3. Days(Tomorrow(dt)) = DaysFromCivil(y, m, d + 1) /\ Days(dt) = DaysFromCivil(y, m, d)
    BY <2>1 DEF Days
  <2>4. Doy(Mp(m), d + 1) = Doy(Mp(m), d) + 1
    BY <1>1, <1>2, <1>3 DEF Doy
  <2> HIDE DEF y, m, d
  <2>5. DaysFromCivil(y, m, d + 1) = DaysFromCivil(y, m, d) + 1
    <3>1. /\ DaysFromCivil(y, m, d) = DaysBefore(Year(y, m)) + Doy(Mp(m), d) - Epoch
          /\ Epoch \in Int /\ DaysBefore(Year(y, m)) \in Int /\ Doy(Mp(m), d) \in Int
      BY <1>1, <1>3, InParts
    <3>2. DaysFromCivil(y, m, d + 1) = DaysBefore(Year(y, m)) + Doy(Mp(m), d + 1) - Epoch
      BY <1>1, <2>2, InParts
    <3>3. QED BY <2>4, <3>1, <3>2
  <2>6. IsDate([year |-> y, month |-> m, day |-> d + 1])
    BY <1>1, <2>2 DEF IsDate
  <2>7. QED BY <2>1, <2>3, <2>5, <2>6
<1>5. CASE ~(d < MonthDays(y, m)) /\ m < 12
  <2>1. Tomorrow(dt) = [year |-> y, month |-> m + 1, day |-> 1]
    BY <1>1, <1>5 DEF Tomorrow
  <2>2. d = MonthDays(y, m) /\ m + 1 \in 1..12
    BY <1>1, <1>3, <1>5
  <2>3. Days(Tomorrow(dt)) = DaysFromCivil(y, m + 1, 1) /\ Days(dt) = DaysFromCivil(y, m, d)
    BY <2>1 DEF Days
  <2> HIDE DEF y, m, d
  <2>9. \A k \in 1..12 :
           /\ DaysFromCivil(y, k, 1) = DaysBefore(Year(y, k)) + Doy(Mp(k), 1) - Epoch
           /\ DaysBefore(Year(y, k)) \in Int
    <3> TAKE k \in 1..12
    <3>1. 1 \in Int
      OBVIOUS
    <3>2. QED BY ONLY <1>1, <3>1, k \in 1..12, InParts, ZenonT(60)
  <2>4. ASSUME m = 2 PROVE DaysFromCivil(y, m + 1, 1) = DaysFromCivil(y, m, d) + 1
    <3>1. Year(y, m) = y - 1 /\ Year(y, m + 1) = y /\ Mp(m) = 11 /\ Mp(m + 1) = 0
      BY <1>1, <2>4 DEF Year, Mp
    <3>2. DaysBefore((y - 1) + 1) = DaysBefore(y - 1) + (IF Leap((y - 1) + 1) THEN 366 ELSE 365)
      BY <1>1, YearDays
    <3>3. (y - 1) + 1 = y
      BY <1>1
    <3>4. Doy(0, 1) = 0 /\ Doy(11, 28) = 364 /\ Doy(11, 29) = 365
      BY DEF Doy
    <3>5. d = IF Leap(y) THEN 29 ELSE 28
      BY <1>2, <2>2, <2>4, <3>1 DEF Length
    <3>6. /\ DaysFromCivil(y, m + 1, 1) = DaysBefore(y) + Doy(0, 1) - Epoch
          /\ DaysFromCivil(y, m, d) = DaysBefore(y - 1) + Doy(11, d) - Epoch
          /\ DaysBefore(y) \in Int /\ DaysBefore(y - 1) \in Int /\ Epoch \in Int
      <4>1. /\ DaysFromCivil(y, m + 1, 1) = DaysBefore(Year(y, m + 1)) + Doy(Mp(m + 1), 1) - Epoch
            /\ DaysBefore(Year(y, m + 1)) \in Int
        BY <2>2, <2>9
      <4>2. /\ DaysFromCivil(y, m, d) = DaysBefore(Year(y, m)) + Doy(Mp(m), d) - Epoch
            /\ DaysBefore(Year(y, m)) \in Int /\ Epoch \in Int
        BY <1>1, <1>3, InParts
      <4>3. QED BY <3>1, <3>4, <4>1, <4>2
    <3>7. DaysBefore(y) = DaysBefore(y - 1) + Doy(11, d) + 1
      BY <3>2, <3>3, <3>4, <3>5, <3>6
    <3>8. Doy(11, d) \in Int
      BY <3>4, <3>5
    <3>9. QED BY <3>4, <3>6, <3>7, <3>8
  <2>5. ASSUME m # 2 PROVE DaysFromCivil(y, m + 1, 1) = DaysFromCivil(y, m, d) + 1
    <3>1. Year(y, m) = Year(y, m + 1) /\ Mp(m + 1) = Mp(m) + 1 /\ Mp(m) \in 0..10
      BY <1>1, <2>2, <2>5, <1>5 DEF Year, Mp
    <3>2. d = Length(Mp(m))
      BY <1>2, <2>2, <2>5
    <3>3. Doy(Mp(m + 1), 1) = Doy(Mp(m), d) + 1
      BY <3>1, <3>2, NextMonth
    <3>4. /\ DaysFromCivil(y, m + 1, 1) = DaysBefore(Year(y, m)) + Doy(Mp(m + 1), 1) - Epoch
          /\ DaysFromCivil(y, m, d) = DaysBefore(Year(y, m)) + Doy(Mp(m), d) - Epoch
          /\ DaysBefore(Year(y, m)) \in Int /\ Doy(Mp(m), d) \in Int /\ Epoch \in Int
      <4>1. DaysFromCivil(y, m + 1, 1) = DaysBefore(Year(y, m + 1)) + Doy(Mp(m + 1), 1) - Epoch
        BY <2>2, <2>9
      <4>2. /\ DaysFromCivil(y, m, d) = DaysBefore(Year(y, m)) + Doy(Mp(m), d) - Epoch
            /\ DaysBefore(Year(y, m)) \in Int /\ Doy(Mp(m), d) \in Int /\ Epoch \in Int
        BY <1>1, <1>3, InParts
      <4>3. QED BY <3>1, <4>1, <4>2
    <3>5. QED BY <3>3, <3>4
  <2>6. MonthDays(y, m + 1) \in Int /\ 1 <= MonthDays(y, m + 1)
    <3>1. MonthDays(y, m + 1) \in 1..Length(Mp(m + 1))
      BY <1>1, <2>2, MonthLength
    <3>2. Length(Mp(m + 1)) \in Int
      BY DEF Length
    <3>3. QED BY <3>1, <3>2
  <2>7. IsDate([year |-> y, month |-> m + 1, day |-> 1])
    BY <1>1, <2>2, <2>6 DEF IsDate
  <2>8. QED BY <2>1, <2>3, <2>4, <2>5, <2>7
<1>6. CASE ~(d < MonthDays(y, m)) /\ ~(m < 12)
  <2>1. m = 12
    BY <1>1, <1>6
  <2>2. Tomorrow(dt) = [year |-> y + 1, month |-> 1, day |-> 1]
    BY <1>1, <1>6 DEF Tomorrow
  <2>3. Days(Tomorrow(dt)) = DaysFromCivil(y + 1, 1, 1) /\ Days(dt) = DaysFromCivil(y, m, d)
    BY <2>2 DEF Days
  <2> HIDE DEF y, m, d
  <2>4. Mp(m) = 9 /\ Mp(1) = 10 /\ Year(y, m) = y /\ Year(y + 1, 1) = y
    BY <1>1, <2>1 DEF Year, Mp
  <2>5. d = 31
    BY <1>2, <1>3, <1>6, <2>1, <2>4 DEF Length
  <2>6. Doy(9, 31) = 305 /\ Doy(10, 1) = 306
    BY DEF Doy
  <2>7. /\ DaysFromCivil(y + 1, 1, 1) = DaysBefore(y) + 306 - Epoch
        /\ DaysFromCivil(y, m, d) = DaysBefore(y) + 305 - Epoch /\ DaysBefore(y) \in Int /\ Epoch \in Int
    <3>1. y + 1 \in Int /\ 1 \in 1..12
      BY <1>1
    <3>2. /\ DaysFromCivil(y + 1, 1, 1) = DaysBefore(Year(y + 1, 1)) + Doy(Mp(1), 1) - Epoch
          /\ Epoch \in Int
      BY <3>1, InParts
    <3>3. /\ DaysFromCivil(y, m, d) = DaysBefore(Year(y, m)) + Doy(Mp(m), d) - Epoch
          /\ DaysBefore(Year(y, m)) \in Int
      BY <1>1, <1>3, InParts
    <3>4. QED BY <2>4, <2>5, <2>6, <3>2, <3>3
  <2>8. IsDate([year |-> y + 1, month |-> 1, day |-> 1])
    <3>1. MonthDays(y + 1, 1) = 31
      BY DEF MonthDays, KDays
    <3>2. QED BY <1>1, <3>1 DEF IsDate
  <2>9. QED BY <2>2, <2>3, <2>7, <2>8
<1>7. QED BY <1>4, <1>5, <1>6

-----------------------------------------------------------------------------
(***************************************************************************)
(* From the day number to the date.                                        *)
(***************************************************************************)
\* civil_from_days finds the era and the day of the era.
LEMMA FromDays ==
  ASSUME NEW e \in Int, NEW doe \in Int, 0 <= doe, doe <= 146096, NEW days \in Int,
         days + Epoch = e * 146097 + doe
  PROVE  /\ (days + 719468) % 146097 = doe
         /\ (days + 719468) \div 146097 = e
BY SMT DEF Epoch

\* What civil_from_days computes on the way from the day of the era to the date.
YearOf(doe) == (doe - doe \div 1460 + doe \div 36524 - doe \div 146096) \div 365
DateAt(e, doe, yoe, doy, mp, month) ==
    /\ yoe = YearOf(doe)
    /\ doy = doe - (365 * yoe + yoe \div 4 - yoe \div 100)
    /\ mp = (5 * doy + 2) \div 153
    /\ month = IF mp < 10 THEN mp + 3 ELSE mp - 9

\* These are its intermediate results.
LEMMA DateIs ==
  ASSUME NEW e \in Int, NEW doe \in Int, NEW days \in Int, NEW yoe, NEW doy, NEW mp, NEW month,
         (days + 719468) % 146097 = doe, (days + 719468) \div 146097 = e,
         DateAt(e, doe, yoe, doy, mp, month)
  PROVE  CivilFromDays(days) =
           [year |-> yoe + 400 * e + (IF month <= 2 THEN 1 ELSE 0),
            month |-> month, day |-> doy - (153 * mp + 2) \div 5 + 1]
<1> DEFINE z == days + 719468
           d == z % 146097
           y == (d - d \div 1460 + d \div 36524 - d \div 146096) \div 365
           n == d - (365 * y + y \div 4 - y \div 100)
           p == (5 * n + 2) \div 153
           k == IF p < 10 THEN p + 3 ELSE p - 9
<1>1. CivilFromDays(days) = [year |-> y + 400 * (z \div 146097) + (IF k <= 2 THEN 1 ELSE 0),
                             month |-> k, day |-> n - (153 * p + 2) \div 5 + 1]
  BY SMTT(60) DEF CivilFromDays
<1>2. z \div 146097 = e /\ d = doe
  OBVIOUS
<1> HIDE DEF d, z
<1>3. y = yoe
  BY <1>2 DEF DateAt, YearOf
<1> HIDE DEF y
<1>4. n = doy
  BY <1>2, <1>3 DEF DateAt
<1> HIDE DEF n
<1>5. p = mp
  BY <1>4 DEF DateAt
<1> HIDE DEF p
<1>6. k = month
  BY <1>5 DEF DateAt
<1> HIDE DEF k
<1>7. QED BY <1>1, <1>2, <1>3, <1>4, <1>5, <1>6

\* civil_from_days undoes days_from_civil, for every date.
LEMMA ThereAndBack ==
  ASSUME NEW dt, IsDate(dt)
  PROVE  CivilFromDays(Days(dt)) = dt /\ Days(dt) \in Int
<1> DEFINE y == dt.year
           m == dt.month
           d == dt.day
           u == Year(y, m)
           mp == Mp(m)
           doy == Doy(mp, d)
<1>1. /\ y \in Int /\ m \in 1..12 /\ d \in 1..MonthDays(y, m)
      /\ dt = [year |-> y, month |-> m, day |-> d]
  BY DEF IsDate
<1>2. /\ MonthDays(y, m) = IF m = 2 /\ ~Leap(y) THEN 28 ELSE Length(mp)
      /\ MonthDays(y, m) \in 1..Length(mp) /\ mp \in 0..11
      /\ (IF mp < 10 THEN mp + 3 ELSE mp - 9) = m
  BY <1>1, MonthLength
<1>3. Length(mp) \in Int /\ MonthDays(y, m) \in Int /\ d \in Int /\ d \in 1..Length(mp)
  BY <1>1, <1>2 DEF Length
<1>4. Days(dt) = DaysFromCivil(y, m, d)
  BY DEF Days
<1> HIDE DEF y, m, d
<1>5. /\ DaysFromCivil(y, m, d) = DaysBefore(u) + doy - Epoch
      /\ Epoch \in Int /\ u \in Int /\ doy \in Int /\ DaysBefore(u) \in Int
  BY <1>1, <1>3, InParts
<1> HIDE DEF mp
<1>6. /\ doy \in 0..365 /\ (5 * doy + 2) \div 153 = mp
      /\ doy - (153 * mp + 2) \div 5 + 1 = d
      /\ doy = 365 => mp = 11 /\ d = 29
  BY <1>2, <1>3 DEF Length, Doy
<1>7. doy = 365 => Leap(u + 1)
  <2> SUFFICES ASSUME doy = 365 PROVE Leap(u + 1)
    OBVIOUS
  <2>1. m = 2 /\ d = 29
    BY <1>1, <1>6 DEF mp, Mp
  <2>2. Leap(y) /\ u + 1 = y
    BY <1>1, <1>2, <2>1 DEF Year
  <2>3. QED BY <2>2
<1> HIDE DEF u, doy
<1>8. PICK e \in Int, c \in 0..3, q \in 0..24, r \in 0..3 :
        /\ u = 400 * e + 100 * c + 4 * q + r
        /\ u \div 400 = e /\ u % 400 = 100 * c + 4 * q + r
  BY <1>5, Parts
<1>9. /\ c \in Int /\ q \in Int /\ r \in Int /\ 0 <= c /\ c <= 3 /\ 0 <= q /\ q <= 24 /\ 0 <= r /\ r <= 3
      /\ 0 <= doy /\ doy <= 365
  BY <1>5, <1>6
<1> DEFINE yoe == 100 * c + 4 * q + r
           doe == 36524 * c + 1461 * q + 365 * r + doy
           before == yoe * 365 + yoe \div 4 - yoe \div 100
<1>10. yoe \in Int /\ doe \in Int /\ before \in Int /\ before = 36524 * c + 1461 * q + 365 * r
  <2>1. before = 36524 * c + 1461 * q + 365 * r
    BY <1>8
  <2>2. yoe \in Int /\ doe \in Int /\ 36524 * c + 1461 * q + 365 * r \in Int
    BY <1>5, <1>9
  <2>3. QED BY <2>1, <2>2
<1>11. doy = 365 => r = 3 /\ (q = 24 => c = 3)
  <2> SUFFICES ASSUME doy = 365 PROVE r = 3 /\ (q = 24 => c = 3)
    OBVIOUS
  <2> DEFINE v == u + 1
  <2>1. v \in Int /\ v = 400 * e + 100 * c + 4 * q + r + 1 /\ Leap(v)
    BY <1>5, <1>7, <1>8, <1>9
  <2> HIDE DEF v
  <2>2. QED BY ONLY <1>8, <1>9, <2>1 DEF Leap
<1>12. 0 <= doe /\ doe <= 146096 /\ YearOf(doe) = yoe
  BY <1>5, <1>9, <1>10, <1>11, YearIs DEF YearOf
<1>13. Days(dt) \in Int /\ Days(dt) + Epoch = e * 146097 + doe
  <2>1. DaysBefore(u) = e * 146097 + before
    BY SMT, <1>8 DEF DaysBefore
  <2>2. doe = before + doy
    BY <1>10
  <2> HIDE DEF doe, before
  <2>3. QED BY SMT, <1>4, <1>5, <1>10, <2>1, <2>2
<1>14. DateAt(e, doe, yoe, doy, mp, m)
  <2>1. doe - (365 * yoe + yoe \div 4 - yoe \div 100) = doy
    <3>1. 365 * yoe + yoe \div 4 - yoe \div 100 = before /\ doe = before + doy
      BY <1>10
    <3> HIDE DEF doe, before, yoe
    <3>2. QED BY <1>5, <1>10, <3>1
  <2>2. QED BY <1>2, <1>6, <1>12, <2>1 DEF DateAt
<1>15. (Days(dt) + 719468) % 146097 = doe /\ (Days(dt) + 719468) \div 146097 = e
  <2> HIDE DEF doe
  <2> QED BY SMT, <1>10, <1>12, <1>13, FromDays
<1>16. CivilFromDays(Days(dt)) =
         [year |-> yoe + 400 * e + (IF m <= 2 THEN 1 ELSE 0), month |-> m,
          day |-> doy - (153 * mp + 2) \div 5 + 1]
  <2> HIDE DEF doe, yoe
  <2> QED BY SMT, <1>10, <1>13, <1>14, <1>15, DateIs
<1>17. yoe + 400 * e + (IF m <= 2 THEN 1 ELSE 0) = y
  BY <1>1, <1>8, <1>9 DEF u, Year
<1>18. QED BY <1>1, <1>6, <1>13, <1>16, <1>17

-----------------------------------------------------------------------------
(***************************************************************************)
(* The Base32 decoder.                                                     *)
(***************************************************************************)
\* What the powers of two are.
LEMMA Powers ==
  /\ Pow2(0) = 1 /\ Pow2(1) = 2 /\ Pow2(2) = 4 /\ Pow2(3) = 8
  /\ Pow2(4) = 16 /\ Pow2(5) = 32 /\ Pow2(6) = 64 /\ Pow2(7) = 128
BY DEF Pow2

\* A character by its five bits, the lowest first.
LEMMA FiveBits ==
  ASSUME NEW x \in Int, 0 <= x, x <= 31
  PROVE  \E b0, b1, b2, b3, b4 \in 0..1 :
           /\ x = b0 + 2 * b1 + 4 * b2 + 8 * b3 + 16 * b4
           /\ x % 2 = b0 /\ (x \div 2) % 2 = b1 /\ (x \div 4) % 2 = b2
           /\ (x \div 8) % 2 = b3 /\ (x \div 16) % 2 = b4
<1>1. x % 2 \in 0..1 /\ (x \div 2) % 2 \in 0..1 /\ (x \div 4) % 2 \in 0..1
      /\ (x \div 8) % 2 \in 0..1 /\ (x \div 16) % 2 \in 0..1
  OBVIOUS
<1>2. x = (x % 2) + 2 * ((x \div 2) % 2) + 4 * ((x \div 4) % 2) + 8 * ((x \div 8) % 2) + 16 * ((x \div 16) % 2)
  OBVIOUS
<1>3. QED BY <1>1, <1>2

\* Bit b of character k of a text.
LEMMA BitAt ==
  ASSUME NEW t, NEW k \in Int, NEW b \in 0..4, NEW i \in Int, i = 5 * k - 1 - b
  PROVE  Bit(t, i) = (t[k] \div Pow2(b)) % 2
<1>1. i \div 5 + 1 = k /\ 4 - (i % 5) = b
  OBVIOUS
<1>2. QED BY <1>1 DEF Bit

\* Of three characters a, b and c: the eight bits that end sh bits before the
\* end of c.
Window(a, b, c, sh) == ((1024 * a + 32 * b + c) \div Pow2(sh)) % 256

\* Byte m of a text ends sh bits before the end of character k, and a, b and c
\* are the characters it is in.
EndsIn(t, m, k, sh, a, b, c) ==
    /\ m \in Int /\ m >= 1 /\ k \in Int /\ sh \in 0..4 /\ 8 * m + sh = 5 * k
    /\ a \in 0..31 /\ b \in 0..31 /\ c \in 0..31
    /\ t[k] = c /\ t[k - 1] = b /\ (sh > 2 => t[k - 2] = a)

\* A byte of RFC 4648 is a window of three characters.
LEMMA ByteIsWindow ==
  ASSUME NEW t, NEW k, NEW sh, NEW m, NEW a, NEW b, NEW c,
         EndsIn(t, m, k, sh, a, b, c)
  PROVE  Byte(t, m) = Window(a, b, c, sh)
<1>0. /\ m \in Int /\ m >= 1 /\ k \in Int /\ sh \in 0..4 /\ 8 * m + sh = 5 * k
      /\ a \in 0..31 /\ b \in 0..31 /\ c \in 0..31
      /\ t[k] = c /\ t[k - 1] = b /\ (sh > 2 => t[k - 2] = a)
  BY DEF EndsIn
<1> DEFINE B(j) == Bit(t, 8 * (m - 1) + j)
           C(i) == (c \div Pow2(i)) % 2
           D(i) == (b \div Pow2(i)) % 2
           E(i) == (a \div Pow2(i)) % 2
<1>1. \A i \in 0..4 : Bit(t, 5 * k - 1 - i) = C(i)
  BY <1>0, BitAt
<1>2. \A i \in 0..4 : Bit(t, 5 * (k - 1) - 1 - i) = D(i)
  BY <1>0, BitAt
<1>3. sh > 2 => \A i \in 0..4 : Bit(t, 5 * (k - 2) - 1 - i) = E(i)
  BY <1>0, BitAt
<1>4. PICK c0, c1, c2, c3, c4 \in 0..1 :
        /\ c = c0 + 2 * c1 + 4 * c2 + 8 * c3 + 16 * c4
        /\ c % 2 = c0 /\ (c \div 2) % 2 = c1 /\ (c \div 4) % 2 = c2
        /\ (c \div 8) % 2 = c3 /\ (c \div 16) % 2 = c4
  BY <1>0, FiveBits
<1>5. PICK b0, b1, b2, b3, b4 \in 0..1 :
        /\ b = b0 + 2 * b1 + 4 * b2 + 8 * b3 + 16 * b4
        /\ b % 2 = b0 /\ (b \div 2) % 2 = b1 /\ (b \div 4) % 2 = b2
        /\ (b \div 8) % 2 = b3 /\ (b \div 16) % 2 = b4
  BY <1>0, FiveBits
<1>6. PICK a0, a1, a2, a3, a4 \in 0..1 :
        /\ a = a0 + 2 * a1 + 4 * a2 + 8 * a3 + 16 * a4
        /\ a % 2 = a0 /\ (a \div 2) % 2 = a1 /\ (a \div 4) % 2 = a2
        /\ (a \div 8) % 2 = a3 /\ (a \div 16) % 2 = a4
  BY <1>0, FiveBits
<1>7. /\ C(0) = c0 /\ C(1) = c1 /\ C(2) = c2 /\ C(3) = c3 /\ C(4) = c4
      /\ D(0) = b0 /\ D(1) = b1 /\ D(2) = b2 /\ D(3) = b3 /\ D(4) = b4
      /\ E(0) = a0 /\ E(1) = a1 /\ E(2) = a2 /\ E(3) = a3 /\ E(4) = a4
  <2>1. C(0) = c0 /\ C(1) = c1 /\ C(2) = c2 /\ C(3) = c3 /\ C(4) = c4
    BY <1>0, <1>4, c \div 1 = c, Powers
  <2>2. D(0) = b0 /\ D(1) = b1 /\ D(2) = b2 /\ D(3) = b3 /\ D(4) = b4
    BY <1>0, <1>5, b \div 1 = b, Powers
  <2>3. E(0) = a0 /\ E(1) = a1 /\ E(2) = a2 /\ E(3) = a3 /\ E(4) = a4
    BY <1>0, <1>6, a \div 1 = a, Powers
  <2>4. QED BY <2>1, <2>2, <2>3
<1> HIDE DEF C, D, E
<1>10. CASE sh = 0
  <2>0. 8 * (m - 1) = 5 * k - 8 /\ k \in Int /\ m \in Int
    BY <1>0, <1>10
  <2>1. B(0) = b2
    <3>1. 8 * (m - 1) + 0 = 5 * (k - 1) - 1 - 2
      BY <2>0
    <3>2. QED BY <1>0, <1>10, <1>2, <3>1, <1>7
  <2>2. B(1) = b1
    <3>1. 8 * (m - 1) + 1 = 5 * (k - 1) - 1 - 1
      BY <2>0
    <3>2. QED BY <1>0, <1>10, <1>2, <3>1, <1>7
  <2>3. B(2) = b0
    <3>1. 8 * (m - 1) + 2 = 5 * (k - 1) - 1 - 0
      BY <2>0
    <3>2. QED BY <1>0, <1>10, <1>2, <3>1, <1>7
  <2>4. B(3) = c4
    <3>1. 8 * (m - 1) + 3 = 5 * k - 1 - 4
      BY <2>0
    <3>2. QED BY <1>0, <1>10, <1>1, <3>1, <1>7
  <2>5. B(4) = c3
    <3>1. 8 * (m - 1) + 4 = 5 * k - 1 - 3
      BY <2>0
    <3>2. QED BY <1>0, <1>10, <1>1, <3>1, <1>7
  <2>6. B(5) = c2
    <3>1. 8 * (m - 1) + 5 = 5 * k - 1 - 2
      BY <2>0
    <3>2. QED BY <1>0, <1>10, <1>1, <3>1, <1>7
  <2>7. B(6) = c1
    <3>1. 8 * (m - 1) + 6 = 5 * k - 1 - 1
      BY <2>0
    <3>2. QED BY <1>0, <1>10, <1>1, <3>1, <1>7
  <2>8. B(7) = c0
    <3>1. 8 * (m - 1) + 7 = 5 * k - 1 - 0
      BY <2>0
    <3>2. QED BY <1>0, <1>10, <1>1, <3>1, <1>7
  <2> HIDE DEF B
  <2>9. Byte(t, m) = b2 * 128 + b1 * 64 + b0 * 32 + c4 * 16 + c3 * 8 + c2 * 4 + c1 * 2 + c0 * 1
    BY <2>1, <2>2, <2>3, <2>4, <2>5, <2>6, <2>7, <2>8, Powers DEF Byte, B
  <2>10. Window(a, b, c, sh) = b2 * 128 + b1 * 64 + b0 * 32 + c4 * 16 + c3 * 8 + c2 * 4 + c1 * 2 + c0 * 1
    <3> DEFINE lo == 0
               byte == b2 * 128 + b1 * 64 + b0 * 32 + c4 * 16 + c3 * 8 + c2 * 4 + c1 * 2 + c0 * 1
               hi == b3 + 2 * b4 + 4 * a0 + 8 * a1 + 16 * a2 + 32 * a3 + 64 * a4
    <3>1. 1024 * a + 32 * b + c = 1 * (256 * hi + byte) + lo
      BY <1>4, <1>5, <1>6
    <3>2. lo \in 0..0 /\ byte \in 0..255 /\ hi \in Int
      OBVIOUS
    <3> HIDE DEF lo, byte, hi
    <3>3. (1024 * a + 32 * b + c) \div 1 = 256 * hi + byte
      BY <3>1, <3>2
    <3>4. (256 * hi + byte) % 256 = byte
      BY <3>2
    <3>5. Window(a, b, c, sh) = byte
      BY <1>10, <3>3, <3>4, Powers DEF Window
    <3>6. QED BY <3>5 DEF byte
  <2>11. QED BY <2>9, <2>10
<1>11. CASE sh = 1
  <2>0. 8 * (m - 1) = 5 * k - 9 /\ k \in Int /\ m \in Int
    BY <1>0, <1>11
  <2>1. B(0) = b3
    <3>1. 8 * (m - 1) + 0 = 5 * (k - 1) - 1 - 3
      BY <2>0
    <3>2. QED BY <1>0, <1>11, <1>2, <3>1, <1>7
  <2>2. B(1) = b2
    <3>1. 8 * (m - 1) + 1 = 5 * (k - 1) - 1 - 2
      BY <2>0
    <3>2. QED BY <1>0, <1>11, <1>2, <3>1, <1>7
  <2>3. B(2) = b1
    <3>1. 8 * (m - 1) + 2 = 5 * (k - 1) - 1 - 1
      BY <2>0
    <3>2. QED BY <1>0, <1>11, <1>2, <3>1, <1>7
  <2>4. B(3) = b0
    <3>1. 8 * (m - 1) + 3 = 5 * (k - 1) - 1 - 0
      BY <2>0
    <3>2. QED BY <1>0, <1>11, <1>2, <3>1, <1>7
  <2>5. B(4) = c4
    <3>1. 8 * (m - 1) + 4 = 5 * k - 1 - 4
      BY <2>0
    <3>2. QED BY <1>0, <1>11, <1>1, <3>1, <1>7
  <2>6. B(5) = c3
    <3>1. 8 * (m - 1) + 5 = 5 * k - 1 - 3
      BY <2>0
    <3>2. QED BY <1>0, <1>11, <1>1, <3>1, <1>7
  <2>7. B(6) = c2
    <3>1. 8 * (m - 1) + 6 = 5 * k - 1 - 2
      BY <2>0
    <3>2. QED BY <1>0, <1>11, <1>1, <3>1, <1>7
  <2>8. B(7) = c1
    <3>1. 8 * (m - 1) + 7 = 5 * k - 1 - 1
      BY <2>0
    <3>2. QED BY <1>0, <1>11, <1>1, <3>1, <1>7
  <2> HIDE DEF B
  <2>9. Byte(t, m) = b3 * 128 + b2 * 64 + b1 * 32 + b0 * 16 + c4 * 8 + c3 * 4 + c2 * 2 + c1 * 1
    BY <2>1, <2>2, <2>3, <2>4, <2>5, <2>6, <2>7, <2>8, Powers DEF Byte, B
  <2>10. Window(a, b, c, sh) = b3 * 128 + b2 * 64 + b1 * 32 + b0 * 16 + c4 * 8 + c3 * 4 + c2 * 2 + c1 * 1
    <3> DEFINE lo == c0
               byte == b3 * 128 + b2 * 64 + b1 * 32 + b0 * 16 + c4 * 8 + c3 * 4 + c2 * 2 + c1 * 1
               hi == b4 + 2 * a0 + 4 * a1 + 8 * a2 + 16 * a3 + 32 * a4
    <3>1. 1024 * a + 32 * b + c = 2 * (256 * hi + byte) + lo
      BY <1>4, <1>5, <1>6
    <3>2. lo \in 0..1 /\ byte \in 0..255 /\ hi \in Int
      OBVIOUS
    <3> HIDE DEF lo, byte, hi
    <3>3. (1024 * a + 32 * b + c) \div 2 = 256 * hi + byte
      BY <3>1, <3>2
    <3>4. (256 * hi + byte) % 256 = byte
      BY <3>2
    <3>5. Window(a, b, c, sh) = byte
      BY <1>11, <3>3, <3>4, Powers DEF Window
    <3>6. QED BY <3>5 DEF byte
  <2>11. QED BY <2>9, <2>10
<1>12. CASE sh = 2
  <2>0. 8 * (m - 1) = 5 * k - 10 /\ k \in Int /\ m \in Int
    BY <1>0, <1>12
  <2>1. B(0) = b4
    <3>1. 8 * (m - 1) + 0 = 5 * (k - 1) - 1 - 4
      BY <2>0
    <3>2. QED BY <1>0, <1>12, <1>2, <3>1, <1>7
  <2>2. B(1) = b3
    <3>1. 8 * (m - 1) + 1 = 5 * (k - 1) - 1 - 3
      BY <2>0
    <3>2. QED BY <1>0, <1>12, <1>2, <3>1, <1>7
  <2>3. B(2) = b2
    <3>1. 8 * (m - 1) + 2 = 5 * (k - 1) - 1 - 2
      BY <2>0
    <3>2. QED BY <1>0, <1>12, <1>2, <3>1, <1>7
  <2>4. B(3) = b1
    <3>1. 8 * (m - 1) + 3 = 5 * (k - 1) - 1 - 1
      BY <2>0
    <3>2. QED BY <1>0, <1>12, <1>2, <3>1, <1>7
  <2>5. B(4) = b0
    <3>1. 8 * (m - 1) + 4 = 5 * (k - 1) - 1 - 0
      BY <2>0
    <3>2. QED BY <1>0, <1>12, <1>2, <3>1, <1>7
  <2>6. B(5) = c4
    <3>1. 8 * (m - 1) + 5 = 5 * k - 1 - 4
      BY <2>0
    <3>2. QED BY <1>0, <1>12, <1>1, <3>1, <1>7
  <2>7. B(6) = c3
    <3>1. 8 * (m - 1) + 6 = 5 * k - 1 - 3
      BY <2>0
    <3>2. QED BY <1>0, <1>12, <1>1, <3>1, <1>7
  <2>8. B(7) = c2
    <3>1. 8 * (m - 1) + 7 = 5 * k - 1 - 2
      BY <2>0
    <3>2. QED BY <1>0, <1>12, <1>1, <3>1, <1>7
  <2> HIDE DEF B
  <2>9. Byte(t, m) = b4 * 128 + b3 * 64 + b2 * 32 + b1 * 16 + b0 * 8 + c4 * 4 + c3 * 2 + c2 * 1
    BY <2>1, <2>2, <2>3, <2>4, <2>5, <2>6, <2>7, <2>8, Powers DEF Byte, B
  <2>10. Window(a, b, c, sh) = b4 * 128 + b3 * 64 + b2 * 32 + b1 * 16 + b0 * 8 + c4 * 4 + c3 * 2 + c2 * 1
    <3> DEFINE lo == c0 + 2 * c1
               byte == b4 * 128 + b3 * 64 + b2 * 32 + b1 * 16 + b0 * 8 + c4 * 4 + c3 * 2 + c2 * 1
               hi == a0 + 2 * a1 + 4 * a2 + 8 * a3 + 16 * a4
    <3>1. 1024 * a + 32 * b + c = 4 * (256 * hi + byte) + lo
      BY <1>4, <1>5, <1>6
    <3>2. lo \in 0..3 /\ byte \in 0..255 /\ hi \in Int
      OBVIOUS
    <3> HIDE DEF lo, byte, hi
    <3>3. (1024 * a + 32 * b + c) \div 4 = 256 * hi + byte
      BY <3>1, <3>2
    <3>4. (256 * hi + byte) % 256 = byte
      BY <3>2
    <3>5. Window(a, b, c, sh) = byte
      BY <1>12, <3>3, <3>4, Powers DEF Window
    <3>6. QED BY <3>5 DEF byte
  <2>11. QED BY <2>9, <2>10
<1>13. CASE sh = 3
  <2>0. 8 * (m - 1) = 5 * k - 11 /\ k \in Int /\ m \in Int
    BY <1>0, <1>13
  <2>1. B(0) = a0
    <3>1. 8 * (m - 1) + 0 = 5 * (k - 2) - 1 - 0
      BY <2>0
    <3>2. QED BY <1>0, <1>13, <1>3, <3>1, <1>7
  <2>2. B(1) = b4
    <3>1. 8 * (m - 1) + 1 = 5 * (k - 1) - 1 - 4
      BY <2>0
    <3>2. QED BY <1>0, <1>13, <1>2, <3>1, <1>7
  <2>3. B(2) = b3
    <3>1. 8 * (m - 1) + 2 = 5 * (k - 1) - 1 - 3
      BY <2>0
    <3>2. QED BY <1>0, <1>13, <1>2, <3>1, <1>7
  <2>4. B(3) = b2
    <3>1. 8 * (m - 1) + 3 = 5 * (k - 1) - 1 - 2
      BY <2>0
    <3>2. QED BY <1>0, <1>13, <1>2, <3>1, <1>7
  <2>5. B(4) = b1
    <3>1. 8 * (m - 1) + 4 = 5 * (k - 1) - 1 - 1
      BY <2>0
    <3>2. QED BY <1>0, <1>13, <1>2, <3>1, <1>7
  <2>6. B(5) = b0
    <3>1. 8 * (m - 1) + 5 = 5 * (k - 1) - 1 - 0
      BY <2>0
    <3>2. QED BY <1>0, <1>13, <1>2, <3>1, <1>7
  <2>7. B(6) = c4
    <3>1. 8 * (m - 1) + 6 = 5 * k - 1 - 4
      BY <2>0
    <3>2. QED BY <1>0, <1>13, <1>1, <3>1, <1>7
  <2>8. B(7) = c3
    <3>1. 8 * (m - 1) + 7 = 5 * k - 1 - 3
      BY <2>0
    <3>2. QED BY <1>0, <1>13, <1>1, <3>1, <1>7
  <2> HIDE DEF B
  <2>9. Byte(t, m) = a0 * 128 + b4 * 64 + b3 * 32 + b2 * 16 + b1 * 8 + b0 * 4 + c4 * 2 + c3 * 1
    BY <2>1, <2>2, <2>3, <2>4, <2>5, <2>6, <2>7, <2>8, Powers DEF Byte, B
  <2>10. Window(a, b, c, sh) = a0 * 128 + b4 * 64 + b3 * 32 + b2 * 16 + b1 * 8 + b0 * 4 + c4 * 2 + c3 * 1
    <3> DEFINE lo == c0 + 2 * c1 + 4 * c2
               byte == a0 * 128 + b4 * 64 + b3 * 32 + b2 * 16 + b1 * 8 + b0 * 4 + c4 * 2 + c3 * 1
               hi == a1 + 2 * a2 + 4 * a3 + 8 * a4
    <3>1. 1024 * a + 32 * b + c = 8 * (256 * hi + byte) + lo
      BY <1>4, <1>5, <1>6
    <3>2. lo \in 0..7 /\ byte \in 0..255 /\ hi \in Int
      OBVIOUS
    <3> HIDE DEF lo, byte, hi
    <3>3. (1024 * a + 32 * b + c) \div 8 = 256 * hi + byte
      BY <3>1, <3>2
    <3>4. (256 * hi + byte) % 256 = byte
      BY <3>2
    <3>5. Window(a, b, c, sh) = byte
      BY <1>13, <3>3, <3>4, Powers DEF Window
    <3>6. QED BY <3>5 DEF byte
  <2>11. QED BY <2>9, <2>10
<1>14. CASE sh = 4
  <2>0. 8 * (m - 1) = 5 * k - 12 /\ k \in Int /\ m \in Int
    BY <1>0, <1>14
  <2>1. B(0) = a1
    <3>1. 8 * (m - 1) + 0 = 5 * (k - 2) - 1 - 1
      BY <2>0
    <3>2. QED BY <1>0, <1>14, <1>3, <3>1, <1>7
  <2>2. B(1) = a0
    <3>1. 8 * (m - 1) + 1 = 5 * (k - 2) - 1 - 0
      BY <2>0
    <3>2. QED BY <1>0, <1>14, <1>3, <3>1, <1>7
  <2>3. B(2) = b4
    <3>1. 8 * (m - 1) + 2 = 5 * (k - 1) - 1 - 4
      BY <2>0
    <3>2. QED BY <1>0, <1>14, <1>2, <3>1, <1>7
  <2>4. B(3) = b3
    <3>1. 8 * (m - 1) + 3 = 5 * (k - 1) - 1 - 3
      BY <2>0
    <3>2. QED BY <1>0, <1>14, <1>2, <3>1, <1>7
  <2>5. B(4) = b2
    <3>1. 8 * (m - 1) + 4 = 5 * (k - 1) - 1 - 2
      BY <2>0
    <3>2. QED BY <1>0, <1>14, <1>2, <3>1, <1>7
  <2>6. B(5) = b1
    <3>1. 8 * (m - 1) + 5 = 5 * (k - 1) - 1 - 1
      BY <2>0
    <3>2. QED BY <1>0, <1>14, <1>2, <3>1, <1>7
  <2>7. B(6) = b0
    <3>1. 8 * (m - 1) + 6 = 5 * (k - 1) - 1 - 0
      BY <2>0
    <3>2. QED BY <1>0, <1>14, <1>2, <3>1, <1>7
  <2>8. B(7) = c4
    <3>1. 8 * (m - 1) + 7 = 5 * k - 1 - 4
      BY <2>0
    <3>2. QED BY <1>0, <1>14, <1>1, <3>1, <1>7
  <2> HIDE DEF B
  <2>9. Byte(t, m) = a1 * 128 + a0 * 64 + b4 * 32 + b3 * 16 + b2 * 8 + b1 * 4 + b0 * 2 + c4 * 1
    BY <2>1, <2>2, <2>3, <2>4, <2>5, <2>6, <2>7, <2>8, Powers DEF Byte, B
  <2>10. Window(a, b, c, sh) = a1 * 128 + a0 * 64 + b4 * 32 + b3 * 16 + b2 * 8 + b1 * 4 + b0 * 2 + c4 * 1
    <3> DEFINE lo == c0 + 2 * c1 + 4 * c2 + 8 * c3
               byte == a1 * 128 + a0 * 64 + b4 * 32 + b3 * 16 + b2 * 8 + b1 * 4 + b0 * 2 + c4 * 1
               hi == a2 + 2 * a3 + 4 * a4
    <3>1. 1024 * a + 32 * b + c = 16 * (256 * hi + byte) + lo
      BY <1>4, <1>5, <1>6
    <3>2. lo \in 0..15 /\ byte \in 0..255 /\ hi \in Int
      OBVIOUS
    <3> HIDE DEF lo, byte, hi
    <3>3. (1024 * a + 32 * b + c) \div 16 = 256 * hi + byte
      BY <3>1, <3>2
    <3>4. (256 * hi + byte) % 256 = byte
      BY <3>2
    <3>5. Window(a, b, c, sh) = byte
      BY <1>14, <3>3, <3>4, Powers DEF Window
    <3>6. QED BY <3>5 DEF byte
  <2>11. QED BY <2>9, <2>10
<1>15. QED BY <1>0, <1>10, <1>11, <1>12, <1>13, <1>14
\* A state of the decoder, and what a character may be.
Results == {"reading", "padding", "ESP_ERR_INVALID_ARG", "ESP_ERR_INVALID_SIZE"}
Registers == [buffer : Nat, bits : 0..12, out : Seq(Nat), result : Results]
States == {s \in Registers : s.result = "reading" => s.bits <= 7}
Chars == 0..Bad

\* The register after one more character of the alphabet.
Wider(s, c) == (s.buffer % 67108864) * 32 + c

\* The register and the count of bits after it.
LEMMA ShiftFacts ==
  ASSUME NEW s \in States, s.result = "reading", NEW c \in 0..31
  PROVE  /\ Shift(s, c) \in Registers
         /\ Shift(s, c).buffer = Wider(s, c) /\ Shift(s, c).bits = s.bits + 5
         /\ Shift(s, c).out = s.out /\ Shift(s, c).result = "reading"
<1>1. s \in Registers /\ s.bits \in 0..7 /\ s.buffer \in Nat
  BY DEF States, Registers
<1>2. s.bits + 5 \in 0..12
  BY <1>1
<1>3. Wider(s, c) \in Nat
  BY <1>1 DEF Wider
<1>4. Shift(s, c) = [s EXCEPT !.buffer = Wider(s, c), !.bits = s.bits + 5]
  BY DEF Shift, Wider
<1>5. QED BY <1>1, <1>2, <1>3, <1>4 DEF Registers

\* One iteration of the loop of base32_decode: the six ways it can go from s to
\* r on character c.
ReadStep(s, c, r, capacity) ==
    \/ s.result # "reading" /\ r = s
    \/ s.result = "reading" /\ c = Pad /\ r.result = "padding" /\ r.out = s.out
    \/ s.result = "reading" /\ c = Bad /\ r.result = "ESP_ERR_INVALID_ARG" /\ r.out = s.out
    \/ /\ s.result = "reading" /\ c \in 0..31 /\ s.bits \in 0..2
       /\ r.buffer = Wider(s, c) /\ r.bits = s.bits + 5
       /\ r.out = s.out /\ r.result = "reading"
    \/ /\ s.result = "reading" /\ c \in 0..31 /\ s.bits \in 3..7 /\ Len(s.out) >= capacity
       /\ r.result = "ESP_ERR_INVALID_SIZE" /\ r.out = s.out
    \/ /\ s.result = "reading" /\ c \in 0..31 /\ s.bits \in 3..7 /\ ~(Len(s.out) >= capacity)
       /\ r.buffer = Wider(s, c) /\ r.bits = s.bits - 3
       /\ r.out = Append(s.out, (Wider(s, c) \div Pow2(s.bits - 3)) % 256)
       /\ r.result = "reading"

\* Read goes one of them.
LEMMA ReadFacts ==
  ASSUME NEW capacity, NEW s \in States, NEW c \in Chars
  PROVE  /\ Read(s, c, capacity) \in States
         /\ ReadStep(s, c, Read(s, c, capacity), capacity)
<1> DEFINE r == Read(s, c, capacity)
           w == Shift(s, c)
<1>0. s \in Registers /\ (s.result = "reading" => s.bits \in 0..7)
  BY DEF States, Registers
<1>1. CASE s.result # "reading"
  BY <1>1 DEF Read, ReadStep
<1>2. CASE s.result = "reading" /\ c = Pad
  <2>1. r = [s EXCEPT !.result = "padding"]
    BY <1>2 DEF Read
  <2>2. QED BY <1>0, <1>2, <2>1 DEF States, Registers, Results, ReadStep
<1>3. CASE s.result = "reading" /\ c = Bad
  <2>1. r = [s EXCEPT !.result = "ESP_ERR_INVALID_ARG"]
    BY <1>3 DEF Read, Bad, Pad
  <2>2. QED BY <1>0, <1>3, <2>1 DEF States, Registers, Results, ReadStep
<1>4. CASE s.result = "reading" /\ c \notin {Pad, Bad}
  <2>1. c \in 0..31
    BY <1>4 DEF Chars, Pad, Bad
  <2>2. /\ w \in Registers /\ w.buffer = Wider(s, c) /\ w.bits = s.bits + 5
        /\ w.out = s.out /\ w.result = "reading"
    BY <1>4, <2>1, ShiftFacts
  <2>3. r = IF w.bits >= 8 THEN Emit(w, capacity) ELSE w
    BY <1>4 DEF Read
  <2> HIDE DEF r, w
  <2>4. CASE s.bits \in 0..2
    <3>1. r = w
      BY <2>2, <2>3, <2>4
    <3>2. r \in States
      BY <2>2, <2>4, <3>1 DEF States
    <3>3. QED BY <1>4, <2>1, <2>2, <2>4, <3>1, <3>2 DEF r, ReadStep
  <2>5. CASE s.bits \in 3..7
    <3>1. r = Emit(w, capacity)
      BY <2>2, <2>3, <2>5
    <3>2. CASE Len(s.out) >= capacity
      <4>1. r = [w EXCEPT !.result = "ESP_ERR_INVALID_SIZE"]
        BY <2>2, <3>1, <3>2 DEF Emit
      <4>2. r \in States /\ r.result = "ESP_ERR_INVALID_SIZE" /\ r.out = s.out
        BY <2>2, <4>1 DEF States, Registers, Results
      <4>3. QED BY <1>4, <2>1, <2>5, <3>2, <4>2 DEF r, ReadStep
    <3>3. CASE ~(Len(s.out) >= capacity)
      <4> DEFINE byte == (Wider(s, c) \div Pow2(s.bits - 3)) % 256
      <4>1. w.bits - 8 = s.bits - 3 /\ s.bits - 3 \in 0..4
        BY <2>2, <2>5
      <4>2. r = [w EXCEPT !.bits = s.bits - 3, !.out = Append(s.out, byte)]
        BY <2>2, <3>1, <3>3, <4>1 DEF Emit
      <4>3. byte \in Nat
        <5>1. Wider(s, c) \in Nat
          BY <2>2 DEF Registers
        <5>2. Pow2(s.bits - 3) \in {1, 2, 4, 8, 16}
          <6>1. s.bits - 3 \in {0, 1, 2, 3, 4}
            BY <4>1
          <6>2. QED BY <6>1, Powers
        <5>3. Wider(s, c) \div Pow2(s.bits - 3) \in Int
          BY <5>1, <5>2
        <5>4. QED BY <5>3
      <4>4. s.out \in Seq(Nat)
        BY <1>0 DEF Registers
      <4> HIDE DEF byte
      <4>5. Append(s.out, byte) \in Seq(Nat)
        BY <4>3, <4>4, AppendProperties
      <4>6. /\ r.buffer = Wider(s, c) /\ r.bits = s.bits - 3
            /\ r.out = Append(s.out, byte) /\ r.result = "reading"
        BY <2>2, <4>2 DEF Registers
      <4>7. r \in Registers
        <5>1. r.buffer \in Nat /\ r.bits \in 0..12 /\ r.out \in Seq(Nat) /\ r.result \in Results
          BY <2>2, <4>1, <4>5, <4>6 DEF Registers, Results
        <5>2. r = [buffer |-> r.buffer, bits |-> r.bits, out |-> r.out, result |-> r.result]
          BY <2>2, <4>2 DEF Registers
        <5>3. QED BY <5>1, <5>2 DEF Registers
      <4>8. r \in States
        BY <4>1, <4>6, <4>7 DEF States
      <4>9. QED BY <1>4, <2>1, <2>5, <3>3, <4>6, <4>8 DEF r, byte, ReadStep
    <3>4. QED BY <3>2, <3>3
  <2>6. QED BY <1>0, <1>4, <2>4, <2>5
<1>5. QED BY <1>1, <1>2, <1>3, <1>4

\* Character k, or nothing before the first.
At(t, k) == IF k >= 1 THEN t[k] ELSE 0

\* The low fifteen bits of w are the characters a, b and c.
EndsWith(w, a, b, c) ==
    /\ w \in Nat /\ a \in 0..31 /\ b \in 0..31 /\ c \in 0..31
    /\ w % 32768 = 1024 * a + 32 * b + c

\* t is the characters before the padding.
IsText(t, n) == n \in Nat /\ DOMAIN t = 1..n /\ \A i \in 1..n : t[i] \in Chars \ {Pad}

\* What the decoder has done after k characters: it holds the bits it has not
\* used in the low end of the register, and the bytes before them are written;
\* or it has met a character it refuses or the end of the buffer.
Decoded(s, t, k, capacity) ==
    /\ Len(s.out) <= capacity
    /\ s.result # "padding"
    /\ s.result = "reading" =>
         /\ \A i \in 1..k : t[i] # Bad
         /\ 8 * Len(s.out) + s.bits = 5 * k
         /\ EndsWith(s.buffer, At(t, k - 2), At(t, k - 1), At(t, k))
         /\ s.out = [i \in 1..Len(s.out) |-> Byte(t, i)]
    /\ s.result = "ESP_ERR_INVALID_ARG" => \E i \in 1..k : t[i] = Bad
    /\ s.result = "ESP_ERR_INVALID_SIZE" => (5 * k) \div 8 > capacity

\* Numbers of the same low fifteen bits.
LEMMA LowPart ==
  ASSUME NEW w \in Int, NEW e \in Int, w % 32768 = e
  PROVE  \E q \in Int : w = 32768 * q + e
<1>1. w = 32768 * (w \div 32768) + e
  OBVIOUS
<1>2. w \div 32768 \in Int
  OBVIOUS
<1>3. QED BY <1>1, <1>2

\* One more character moves the low fifteen bits by five.
LEMMA ShiftLow ==
  ASSUME NEW x \in Int, NEW a \in Int, NEW b \in Int, NEW c \in Int, NEW d \in Int,
         0 <= b, b <= 31, 0 <= c, c <= 31, 0 <= d, d <= 31,
         x % 32768 = 1024 * a + 32 * b + c
  PROVE  ((x % 67108864) * 32 + d) % 32768 = 1024 * b + 32 * c + d
<1> DEFINE e == 1024 * a + 32 * b + c
           h == x \div 67108864
           low == x % 67108864
<1>1. PICK q \in Int : x = 32768 * q + e
  BY LowPart
<1>2. x = 67108864 * h + low /\ h \in Int /\ low \in Int
  OBVIOUS
<1> HIDE DEF h, low
<1> DEFINE g == q - 2048 * h
           k == 32 * g + a
           f == 1024 * b + 32 * c + d
<1>3. low = 32768 * g + e /\ g \in Int
  BY <1>1, <1>2
<1> HIDE DEF g
<1>4. low * 32 + d = 32768 * k + f /\ k \in Int /\ f \in Int /\ 0 <= f /\ f < 32768
  BY <1>3
<1> HIDE DEF k, f, e
<1>5. (32768 * k + f) % 32768 = f
  BY <1>4
<1>6. QED BY <1>4, <1>5 DEF low, f

\* The low fifteen bits of the register are the last three characters.
LEMMA WiderTail ==
  ASSUME NEW s, NEW a, NEW b, NEW c, NEW d \in 0..31, EndsWith(s.buffer, a, b, c)
  PROVE  EndsWith(Wider(s, d), b, c, d)
<1> DEFINE x == s.buffer
<1>1. /\ x \in Nat /\ a \in 0..31 /\ b \in 0..31 /\ c \in 0..31
      /\ x % 32768 = 1024 * a + 32 * b + c /\ Wider(s, d) = (x % 67108864) * 32 + d
  BY DEF EndsWith, Wider
<1> HIDE DEF x
<1>2. ((x % 67108864) * 32 + d) % 32768 = 1024 * b + 32 * c + d
  <2>1. /\ x \in Int /\ a \in Int /\ b \in Int /\ c \in Int /\ d \in Int
        /\ 0 <= b /\ b <= 31 /\ 0 <= c /\ c <= 31 /\ 0 <= d /\ d <= 31
    BY <1>1
  <2>2. QED BY <1>1, <2>1, ShiftLow
<1>3. (x % 67108864) * 32 + d \in Nat
  BY <1>1
<1>4. QED BY <1>1, <1>2, <1>3 DEF EndsWith

\* Eight bits at sh from the end are those of the low fifteen.
LEMMA LowBits ==
  ASSUME NEW w \in Int, NEW e \in Int, NEW q \in Int, w = 32768 * q + e
  PROVE  /\ (w \div 1) % 256 = (e \div 1) % 256
         /\ (w \div 2) % 256 = (e \div 2) % 256
         /\ (w \div 4) % 256 = (e \div 4) % 256
         /\ (w \div 8) % 256 = (e \div 8) % 256
         /\ (w \div 16) % 256 = (e \div 16) % 256
<1>1. (w \div 1) % 256 = (e \div 1) % 256
  OBVIOUS
<1>2. (w \div 2) % 256 = (e \div 2) % 256
  <2> DEFINE x == w \div 2
             y == e \div 2
  <2>1. x = 16384 * q + y /\ x \in Int /\ y \in Int
    OBVIOUS
  <2> HIDE DEF x, y
  <2>2. x % 256 = y % 256
    BY <2>1
  <2>3. QED BY <2>2 DEF x, y
<1>3. (w \div 4) % 256 = (e \div 4) % 256
  <2> DEFINE x == w \div 4
             y == e \div 4
  <2>1. x = 8192 * q + y /\ x \in Int /\ y \in Int
    OBVIOUS
  <2> HIDE DEF x, y
  <2>2. x % 256 = y % 256
    BY <2>1
  <2>3. QED BY <2>2 DEF x, y
<1>4. (w \div 8) % 256 = (e \div 8) % 256
  <2> DEFINE x == w \div 8
             y == e \div 8
  <2>1. x = 4096 * q + y /\ x \in Int /\ y \in Int
    OBVIOUS
  <2> HIDE DEF x, y
  <2>2. x % 256 = y % 256
    BY <2>1
  <2>3. QED BY <2>2 DEF x, y
<1>5. (w \div 16) % 256 = (e \div 16) % 256
  <2> DEFINE x == w \div 16
             y == e \div 16
  <2>1. x = 2048 * q + y /\ x \in Int /\ y \in Int
    OBVIOUS
  <2> HIDE DEF x, y
  <2>2. x % 256 = y % 256
    BY <2>1
  <2>3. QED BY <2>2 DEF x, y
<1>6. QED BY <1>1, <1>2, <1>3, <1>4, <1>5

\* So are those of two numbers, for every shift of the decoder.
LEMMA SameShift ==
  ASSUME NEW w, NEW e, NEW sh \in 0..4,
         (w \div 1) % 256 = (e \div 1) % 256,
         (w \div 2) % 256 = (e \div 2) % 256,
         (w \div 4) % 256 = (e \div 4) % 256,
         (w \div 8) % 256 = (e \div 8) % 256,
         (w \div 16) % 256 = (e \div 16) % 256
  PROVE  (w \div Pow2(sh)) % 256 = (e \div Pow2(sh)) % 256
<1>1. sh = 0 \/ sh = 1 \/ sh = 2 \/ sh = 3 \/ sh = 4
  OBVIOUS
<1>2. CASE sh = 0
  <2>1. Pow2(sh) = 1
    BY <1>2, Powers
  <2>2. QED BY <2>1
<1>3. CASE sh = 1
  <2>1. Pow2(sh) = 2
    BY <1>3, Powers
  <2>2. QED BY <2>1
<1>4. CASE sh = 2
  <2>1. Pow2(sh) = 4
    BY <1>4, Powers
  <2>2. QED BY <2>1
<1>5. CASE sh = 3
  <2>1. Pow2(sh) = 8
    BY <1>5, Powers
  <2>2. QED BY <2>1
<1>6. CASE sh = 4
  <2>1. Pow2(sh) = 16
    BY <1>6, Powers
  <2>2. QED BY <2>1
<1>7. QED BY <1>1, <1>2, <1>3, <1>4, <1>5, <1>6

\* A byte is taken from the low fifteen bits of the register.
LEMMA WindowOf ==
  ASSUME NEW w, NEW a, NEW b, NEW c, NEW sh \in 0..4, EndsWith(w, a, b, c)
  PROVE  (w \div Pow2(sh)) % 256 = Window(a, b, c, sh)
<1> DEFINE e == 1024 * a + 32 * b + c
<1>1. w \in Int /\ e \in Int /\ w % 32768 = e
  BY DEF EndsWith
<1>2. Window(a, b, c, sh) = (e \div Pow2(sh)) % 256
  BY DEF Window
<1> HIDE DEF e
<1>3. PICK q \in Int : w = 32768 * q + e
  BY <1>1, LowPart
<1>4. /\ (w \div 1) % 256 = (e \div 1) % 256
      /\ (w \div 2) % 256 = (e \div 2) % 256
      /\ (w \div 4) % 256 = (e \div 4) % 256
      /\ (w \div 8) % 256 = (e \div 8) % 256
      /\ (w \div 16) % 256 = (e \div 16) % 256
  BY <1>1, <1>3, LowBits, SMTT(60)
<1>5. (w \div Pow2(sh)) % 256 = (e \div Pow2(sh)) % 256
  BY <1>4, SameShift
<1>6. QED BY <1>2, <1>5

\* One more character keeps it.
LEMMA DecodedStep ==
  ASSUME NEW t, NEW n, IsText(t, n), NEW k \in 1..n, NEW capacity \in Nat,
         NEW s \in States, Decoded(s, t, k - 1, capacity)
  PROVE  Decoded(Read(s, t[k], capacity), t, k, capacity)
<1> DEFINE r == Read(s, t[k], capacity)
           c == t[k]
<1>1. /\ n \in Nat /\ k \in Nat /\ k - 1 \in Nat /\ k <= n
      /\ \A i \in 1..n : t[i] \in Chars /\ t[i] # Pad
  BY DEF IsText
<1>2. c \in Chars /\ c # Pad
  BY <1>1
<1>3. /\ Len(s.out) \in Nat /\ s.bits \in Int /\ s.buffer \in Nat /\ s.result \in Results
      /\ s.out \in Seq(Nat)
  <2>1. s \in Registers
    BY DEF States
  <2>2. s.bits \in 0..12 /\ s.buffer \in Nat /\ s.result \in Results /\ s.out \in Seq(Nat)
    BY <2>1 DEF Registers
  <2>3. Len(s.out) \in Nat
    BY <2>2, LenProperties
  <2>4. QED BY <2>2, <2>3, SMTT(60)
<1>4. \A i \in 1..k : i \in 1..k - 1 \/ i = k
  BY <1>1
<1> HIDE DEF c
<1>5. CASE s.result # "reading" /\ r = s
  <2>1. (\E i \in 1..k - 1 : t[i] = Bad) => \E i \in 1..k : t[i] = Bad
    BY <1>1
  <2>2. (5 * (k - 1)) \div 8 > capacity => (5 * k) \div 8 > capacity
    BY <1>1
  <2> HIDE DEF r
  <2>3. Decoded(r, t, k, capacity)
    BY <1>5, <2>1, <2>2 DEF Decoded
  <2>4. QED BY <2>3 DEF r, c
<1>6. CASE s.result = "reading" /\ c = Bad /\ r.result = "ESP_ERR_INVALID_ARG" /\ r.out = s.out
  <2>1. k \in 1..k
    BY <1>1
  <2> HIDE DEF r
  <2>2. Decoded(r, t, k, capacity)
    BY <1>6, <2>1 DEF Decoded, c
  <2>3. QED BY <2>2 DEF r, c
<1>7. ASSUME s.result = "reading", c \in 0..31
      PROVE  /\ \A i \in 1..k : t[i] # Bad
             /\ 8 * Len(s.out) + s.bits = 5 * (k - 1)
             /\ EndsWith(Wider(s, c), At(t, k - 2), At(t, k - 1), c)
             /\ s.out = [i \in 1..Len(s.out) |-> Byte(t, i)]
  <2>1. /\ \A i \in 1..k - 1 : t[i] # Bad
        /\ 8 * Len(s.out) + s.bits = 5 * (k - 1)
        /\ EndsWith(s.buffer, At(t, k - 1 - 2), At(t, k - 1 - 1), At(t, k - 1))
        /\ s.out = [i \in 1..Len(s.out) |-> Byte(t, i)]
    BY <1>7 DEF Decoded
  <2>2. c # Bad
    BY <1>7 DEF Bad
  <2>3. \A i \in 1..k : t[i] # Bad
    BY <1>4, <2>1, <2>2 DEF c
  <2>4. k - 1 - 1 = k - 2
    BY <1>1
  <2>5. EndsWith(Wider(s, c), At(t, k - 2), At(t, k - 1), c)
    BY <1>7, <2>1, <2>4, WiderTail
  <2>6. QED BY <2>1, <2>3, <2>5
<1>8. CASE /\ s.result = "reading" /\ c \in 0..31 /\ s.bits \in 0..2
           /\ r.buffer = Wider(s, c) /\ r.bits = s.bits + 5
           /\ r.out = s.out /\ r.result = "reading"
  <2> HIDE DEF r
  <2>1. 8 * Len(r.out) + r.bits = 5 * k
    <3> DEFINE m == Len(s.out)
    <3>1. m \in Nat /\ s.bits \in Int /\ 8 * m + s.bits = 5 * (k - 1) /\ r.bits = s.bits + 5
      BY <1>3, <1>7, <1>8
    <3> HIDE DEF m
    <3>2. 8 * m + r.bits = 5 * k
      BY <1>1, <3>1
    <3>3. QED BY <1>8, <3>2 DEF m
  <2>2. At(t, k) = c
    BY <1>1 DEF At, c
  <2>3. Decoded(r, t, k, capacity)
    BY <1>7, <1>8, <2>1, <2>2 DEF Decoded
  <2>4. QED BY <2>3 DEF r, c
<1>9. CASE /\ s.result = "reading" /\ c \in 0..31 /\ s.bits \in 3..7 /\ Len(s.out) >= capacity
           /\ r.result = "ESP_ERR_INVALID_SIZE" /\ r.out = s.out
  <2> HIDE DEF r
  <2> DEFINE m == Len(s.out)
  <2>1. 8 * m + s.bits = 5 * k - 5 /\ m \in Nat /\ s.bits \in 3..7 /\ m >= capacity
    BY <1>1, <1>3, <1>7, <1>9
  <2> HIDE DEF m
  <2>2. (5 * k) \div 8 > capacity
    BY <1>1, <2>1
  <2>3. Decoded(r, t, k, capacity)
    BY <1>9, <2>2 DEF Decoded
  <2>4. QED BY <2>3 DEF r, c
<1>10. CASE /\ s.result = "reading" /\ c \in 0..31 /\ s.bits \in 3..7 /\ ~(Len(s.out) >= capacity)
            /\ r.buffer = Wider(s, c) /\ r.bits = s.bits - 3
            /\ r.out = Append(s.out, (Wider(s, c) \div Pow2(s.bits - 3)) % 256)
            /\ r.result = "reading"
  <2> HIDE DEF r
  <2> DEFINE l == Len(s.out)
             m == l + 1
             sh == s.bits - 3
             a == At(t, k - 2)
             b == At(t, k - 1)
             byte == (Wider(s, c) \div Pow2(sh)) % 256
  <2>1. m \in Int /\ m >= 1 /\ sh \in 0..4 /\ 8 * m + sh = 5 * k
    <3>1. l \in Nat /\ s.bits \in 3..7 /\ 8 * l + s.bits = 5 * (k - 1)
      BY <1>3, <1>7, <1>10
    <3> HIDE DEF l
    <3>2. QED BY <1>1, <3>1
  <2>2. k \in Int /\ k - 1 >= 1 /\ (sh > 2 => k - 2 >= 1)
    <3> HIDE DEF m, sh
    <3>1. QED BY <1>1, <2>1
  <2>3. t[k - 1] = b /\ (sh > 2 => t[k - 2] = a) /\ t[k] = c
    BY <2>2 DEF At, c
  <2>4. EndsWith(Wider(s, c), a, b, c)
    BY <1>7, <1>10
  <2> HIDE DEF l, m, sh, a, b
  <2>5. /\ a \in 0..31 /\ b \in 0..31 /\ c \in 0..31 /\ Wider(s, c) \in Nat
         /\ EndsIn(t, m, k, sh, a, b, c)
    BY <2>1, <2>2, <2>3, <2>4 DEF EndsWith, EndsIn
  <2>6. r.out = Append(s.out, byte) /\ r.bits = sh
    BY <1>10 DEF sh
  <2>7. byte = Byte(t, m)
    <3>1. byte = Window(a, b, c, sh)
      BY <2>1, <2>4, WindowOf
    <3>2. Byte(t, m) = Window(a, b, c, sh)
      BY <2>5, ByteIsWindow
    <3>3. QED BY <3>1, <3>2
  <2>8. /\ Len(r.out) = m /\ DOMAIN r.out = 1..m
        /\ \A i \in 1..m : r.out[i] = IF i = m THEN byte ELSE s.out[i]
    <3>1. byte \in Nat /\ s.out \in Seq(Nat)
      <4>1. Wider(s, c) \in Nat /\ Pow2(sh) \in {1, 2, 4, 8, 16}
        <5>1. sh \in {0, 1, 2, 3, 4}
          BY <2>1
        <5>2. QED BY <2>5, <5>1, Powers
      <4>2. Wider(s, c) \div Pow2(sh) \in Int
        BY <4>1
      <4>3. QED BY <1>3, <4>2
    <3> HIDE DEF byte
    <3>2. /\ r.out \in Seq(Nat) /\ Len(r.out) = Len(s.out) + 1
          /\ \A i \in 1..Len(s.out) : r.out[i] = s.out[i]
          /\ r.out[Len(s.out) + 1] = byte
      BY <2>6, <3>1, AppendProperties
    <3>3. DOMAIN r.out = 1..Len(r.out)
      BY <3>2, LenProperties
    <3>4. \A i \in 1..Len(s.out) + 1 : i \in 1..Len(s.out) \/ i = Len(s.out) + 1
      BY <1>3
    <3>5. ~(Len(s.out) + 1 \in 1..Len(s.out))
      BY <1>3
    <3>6. QED BY <3>2, <3>3, <3>4, <3>5 DEF m, l
  <2> HIDE DEF byte
  <2>9. \A i \in 1..Len(s.out) : s.out[i] = Byte(t, i)
    BY <1>7, <1>10
  <2>10. \A i \in 1..m : r.out[i] = Byte(t, i)
    <3> TAKE i \in 1..m
    <3>1. i = m \/ (i \in 1..Len(s.out) /\ i # m)
      BY <1>3 DEF m, l
    <3>2. QED BY <2>7, <2>8, <2>9, <3>1
  <2>11. Len(r.out) <= capacity
    BY <1>3, <1>10, <2>8 DEF m, l
  <2>12. r.out = [i \in 1..Len(r.out) |-> Byte(t, i)]
    <3>1. r.out = [i \in 1..m |-> r.out[i]]
      <4>1. r.out \in Seq(Nat)
        <5>1. r \in States
          BY <1>2, ReadFacts DEF r, c
        <5>2. QED BY <5>1 DEF States, Registers
      <4>2. r.out = [i \in 1..Len(r.out) |-> r.out[i]]
        BY <4>1, LenProperties
      <4>3. QED BY <2>8, <4>2
    <3>2. QED BY <2>8, <2>10, <3>1
  <2>13. 8 * Len(r.out) + r.bits = 5 * k
    BY <2>1, <2>6, <2>8
  <2>14. EndsWith(r.buffer, At(t, k - 2), At(t, k - 1), At(t, k))
    <3>1. At(t, k) = c
      BY <1>1 DEF At, c
    <3>2. QED BY <1>10, <2>4, <3>1 DEF a, b
  <2>15. Decoded(r, t, k, capacity)
    BY <1>7, <1>10, <2>11, <2>12, <2>13, <2>14 DEF Decoded
  <2>16. QED BY <2>15 DEF r, c
<1>11. QED
  <2> HIDE DEF r
  <2>1. ReadStep(s, c, r, capacity)
    BY <1>2, ReadFacts DEF r, c
  <2>2. QED BY <1>2, <1>5, <1>6, <1>8, <1>9, <1>10, <2>1 DEF ReadStep

\* The decoder before the first character.
First == [buffer |-> 0, bits |-> 0, out |-> <<>>, result |-> "reading"]

\* X holds what Read gives, with the characters of b, from what is in X.
ReadsIn(X, n, b, capacity) == \A x \in X, i \in 1..n : Read(x, b[i], capacity) \in X

\* f[k] is the state of the decoder after the first k characters of b.
ReadRun(f, n, b, capacity) ==
    /\ f[0] = First
    /\ \A k \in 1..n : f[k] = Read(f[k - 1], b[k], capacity)

\* The loop of base32_decode over the characters of a text, step by step.
LEMMA ReadRuns ==
  ASSUME NEW n \in Nat, NEW capacity, NEW b, DOMAIN b = 1..n, NEW X, First \in X,
         ReadsIn(X, n, b, capacity)
  PROVE  \E f \in [0..n -> X] : ReadRun(f, n, b, capacity) /\ ReadAll(b, capacity) = f[n]
<1> DEFINE G == [p \in X \X (1..n) |-> Read(p[1], b[p[2]], capacity)]
           D == SUBSET (1..n)
           Eq(h) == h = [s \in D |-> IF s = {} THEN First
                                     ELSE LET x == Max(s) IN Read(h[s \ {x}], b[x], capacity)]
<1>1. G \in [X \X (1..n) -> X]
  BY DEF ReadsIn
<1>2. \A s \in D : s # {} => Max(s) \in s /\ Max(s) \in 1..n /\ s \ {Max(s)} \in D
  <2> TAKE s \in D
  <2> HAVE s # {}
  <2>1. s \in SUBSET (1..n) /\ s \in SUBSET (0..n)
    OBVIOUS
  <2>2. Max(s) \in s
    BY <2>1, MaxIn
  <2>3. Max(s) \in 1..n
    BY <2>1, <2>2
  <2>4. s \ {Max(s)} \in D
    BY <2>1
  <2>5. QED BY <2>2, <2>3, <2>4
<1> HIDE DEF G
<1>3. PICK g \in [SUBSET (1..n) -> X] : FoldsBy(g, n, First, G)
  BY <1>1, FoldExists
<1>4. Eq(g)
  <2>1. \A s \in D : g[s] = IF s = {} THEN First
                             ELSE LET x == Max(s) IN Read(g[s \ {x}], b[x], capacity)
    BY <1>2, <1>3 DEF G, FoldsBy
  <2>2. g \in [D -> X]
    BY <1>3
  <2> HIDE DEF D
  <2>3. QED BY <2>1, <2>2
<1> DEFINE iter == CHOOSE h : Eq(h)
<1>5. Eq(iter)
  BY <1>4
<1>6. ReadAll(b, capacity) = iter[1..n]
  BY DEF ReadAll, First, FoldLeft, MapThenFoldSet
<1> DEFINE f == [k \in 0..n |-> iter[1..k]]
<1> HIDE DEF iter
<1>7. \A s \in D : iter[s] = IF s = {} THEN First
                           ELSE Read(iter[s \ {Max(s)}], b[Max(s)], capacity)
  BY <1>5
<1>8. f[0] = First
  <2>1. 1..0 = {} /\ 0 \in 0..n
    OBVIOUS
  <2>2. QED BY <1>7, <2>1
<1>9. \A k \in 1..n : f[k] = Read(f[k - 1], b[k], capacity)
  <2> TAKE k \in 1..n
  <2>1. 1..k \in D /\ 1..k # {} /\ Max(1..k) = k
    <3>1. 1..k \in SUBSET Int /\ k \in 1..k /\ \A y \in 1..k : k >= y
      OBVIOUS
    <3>2. Max(1..k) = k
      BY <3>1, MaxIs
    <3>3. 1..k \in D
      OBVIOUS
    <3>4. QED BY <3>1, <3>2, <3>3
  <2>2. (1..k) \ {k} = 1..(k - 1) /\ k - 1 \in 0..n
    OBVIOUS
  <2>3. iter[1..k] = Read(iter[1..(k - 1)], b[k], capacity)
    BY <1>7, <2>1, <2>2
  <2>4. f[k] = iter[1..k] /\ f[k - 1] = iter[1..(k - 1)]
    BY <2>2
  <2> HIDE DEF f
  <2>5. QED BY <2>3, <2>4
<1>10. \A k \in 0..n : f[k] \in X
  <2> DEFINE S == {k \in 0..n : f[k] \in X}
  <2>1. 0 \in S
    BY <1>8
  <2>2. ASSUME NEW k \in 0..n - 1, k \in S PROVE k + 1 \in S
    <3>1. k + 1 \in 1..n /\ (k + 1) - 1 = k
      OBVIOUS
    <3> HIDE DEF f
    <3>2. QED BY <1>9, <2>2, <3>1 DEF ReadsIn
  <2> HIDE DEF S
  <2>3. QED BY <2>1, <2>2, Counting DEF S
<1>11. f \in [0..n -> X]
  BY <1>10
<1>12. n \in 0..n /\ f[n] = iter[1..n]
  OBVIOUS
<1> HIDE DEF f
<1>13. QED BY <1>6, <1>8, <1>9, <1>11, <1>12 DEF ReadRun

\* The characters before the padding.
LEMMA SymbolsFacts ==
  ASSUME NEW text \in Seq(Chars)
  PROVE  LET t == Symbols(text)
         IN /\ IsText(t, Len(t)) /\ Len(t) <= Len(text)
            /\ \A i \in 1..Len(t) : text[i] = t[i]
            /\ Len(t) < Len(text) => text[Len(t) + 1] = Pad
<1> DEFINE n == Len(text)
           pads == {i \in 1..n : text[i] = Pad}
           at == Before(text)
           t == Symbols(text)
<1>1. n \in Nat /\ DOMAIN text = 1..n /\ \A i \in 1..n : text[i] \in Chars
  BY LenProperties
<1>2. at = IF pads # {} THEN Min(pads) ELSE 0
  BY DEF Before, SelectInSeq
<1>3. t = IF at = 0 THEN text ELSE SubSeq(text, 1, at - 1)
  BY DEF Symbols
<1>4. pads \in SUBSET Nat
  OBVIOUS
<1> HIDE DEF at, t, n
<1>5. CASE pads = {}
  <2>1. t = text
    BY <1>2, <1>3, <1>5
  <2>2. \A i \in 1..n : text[i] # Pad
    BY <1>5
  <2>3. IsText(t, n) /\ Len(t) = n
    BY <1>1, <2>1, <2>2 DEF IsText, n
  <2>4. QED BY <1>1, <2>1, <2>3 DEF t, n
<1>6. CASE pads # {}
  <2>1. at \in pads /\ \A y \in pads : at <= y
    <3> HIDE DEF pads
    <3>1. QED BY <1>2, <1>4, <1>6, MinIn
  <2>2. at \in 1..n /\ text[at] = Pad /\ \A i \in 1..at - 1 : text[i] # Pad
    <3>1. at \in 1..n /\ text[at] = Pad
      BY <2>1
    <3>2. \A i \in 1..at - 1 : i \in 1..n /\ ~(at <= i)
      BY <1>1, <3>1
    <3>3. QED BY <2>1, <3>1, <3>2
  <2> HIDE DEF pads
  <2> DEFINE m == at - 1
  <2>3. m \in Nat /\ m + 1 = at /\ m < n /\ at # 0
    BY <1>1, <2>2
  <2>4. t = SubSeq(text, 1, m)
    BY <1>3, <2>3
  <2>5. \A i \in 1..m : text[i] \in Chars /\ text[i] # Pad
    BY <1>1, <2>2
  <2> HIDE DEF m
  <2>6. Len(t) = m /\ DOMAIN t = 1..m /\ \A i \in 1..m : t[i] = text[i]
    <3>1. /\ SubSeq(text, 1, m) \in Seq(Chars)
          /\ Len(SubSeq(text, 1, m)) = (IF 1 <= m THEN m - 1 + 1 ELSE 0)
          /\ \A i \in 1..m - 1 + 1 : SubSeq(text, 1, m)[i] = text[1 + i - 1]
      BY <2>3, <2>5, SubSeqProperties
    <3>2. QED BY <2>3, <2>4, <3>1, LenProperties
  <2>7. IsText(t, m)
    BY <2>3, <2>5, <2>6 DEF IsText
  <2>8. m <= n /\ text[m + 1] = Pad
    BY <1>1, <2>2, <2>3
  <2>9. QED BY <2>6, <2>7, <2>8 DEF t, n
<1>7. QED BY <1>5, <1>6

\* The whole text: up to the padding the characters are read one by one, and
\* what follows changes no byte.
LEMMA DecodedAll ==
  ASSUME NEW capacity \in Nat, NEW text \in Seq(Chars)
  PROVE  \E s \in States :
           /\ Decoded(s, Symbols(text), Len(Symbols(text)), capacity)
           /\ ReadAll(text, capacity).out = s.out
           /\ \/ ReadAll(text, capacity).result = s.result
              \/ s.result = "reading" /\ ReadAll(text, capacity).result = "padding"
<1> DEFINE n == Len(text)
           t == Symbols(text)
           p == Len(t)
<1>1. /\ IsText(t, p) /\ p <= n
      /\ \A i \in 1..p : text[i] = t[i]
      /\ p < n => text[p + 1] = Pad
  BY SymbolsFacts
<1>2. n \in Nat /\ p \in Nat /\ DOMAIN text = 1..n /\ \A i \in 1..n : text[i] \in Chars
  BY <1>1, LenProperties DEF IsText
<1> HIDE DEF n, t, p
<1>3. First \in States
  <2>1. <<>> \in Seq(Nat)
    OBVIOUS
  <2>2. QED BY <2>1 DEF First, States, Registers, Results
<1>4. ReadsIn(States, n, text, capacity)
  BY <1>2, ReadFacts DEF ReadsIn
<1>5. PICK f \in [0..n -> States] : ReadRun(f, n, text, capacity) /\ ReadAll(text, capacity) = f[n]
  BY <1>2, <1>3, <1>4, ReadRuns
<1>6. f[0] = First /\ \A k \in 1..n : f[k] = Read(f[k - 1], text[k], capacity)
  BY <1>5 DEF ReadRun
<1> DEFINE K == {k \in 0..p : Decoded(f[k], t, k, capacity)}
<1>7. 0 \in K
  <2>1. Decoded(First, t, 0, capacity)
    <3>1. /\ Len(First.out) = 0 /\ First.result = "reading" /\ First.bits = 0 /\ First.buffer = 0
          /\ First.out = [i \in 1..0 |-> Byte(t, i)]
      BY DEF First
    <3>2. EndsWith(0, At(t, 0 - 2), At(t, 0 - 1), At(t, 0))
      BY DEF EndsWith, At
    <3>3. QED BY <3>1, <3>2 DEF Decoded
  <2>2. QED BY <1>2, <1>6, <2>1
<1>8. ASSUME NEW k \in 0..p - 1, k \in K PROVE k + 1 \in K
  <2>1. k + 1 \in 1..p /\ k + 1 \in 1..n /\ (k + 1) - 1 = k /\ k \in 0..n /\ k + 1 \in 0..p
    BY <1>1, <1>2
  <2>2. f[k + 1] = Read(f[k], t[k + 1], capacity)
    BY <1>1, <1>6, <2>1
  <2>3. f[k] \in States /\ Decoded(f[k], t, k, capacity)
    BY <1>8, <2>1
  <2> DEFINE j == k + 1
  <2>4. j \in 1..p /\ j - 1 = k
    BY <2>1
  <2> HIDE DEF j
  <2>5. Decoded(Read(f[k], t[j], capacity), t, j, capacity)
    BY <1>1, <2>3, <2>4, DecodedStep
  <2>6. QED BY <2>1, <2>2, <2>5 DEF j
<1>9. f[p] \in States /\ Decoded(f[p], t, p, capacity)
  <2>1. p \in 0..p /\ p \in 0..n
    BY <1>1, <1>2
  <2> HIDE DEF K
  <2>2. p \in K
    BY <1>2, <1>7, <1>8, <2>1, Counting
  <2>3. QED BY <2>1, <2>2 DEF K
<1> HIDE DEF K
<1> DEFINE After(s) == /\ s.out = f[p].out /\ s.result # "reading"
                       /\ s.result = f[p].result \/ (f[p].result = "reading" /\ s.result = "padding")
           L == {k \in 0..n : k <= p \/ After(f[k])}
<1>10. 0 \in L
  BY <1>2
<1>11. ASSUME NEW k \in 0..n - 1, k \in L PROVE k + 1 \in L
  <2>1. k + 1 \in 1..n /\ (k + 1) - 1 = k /\ k \in 0..n /\ k + 1 \in 0..n /\ k \in Int
    BY <1>2
  <2>2. f[k + 1] = Read(f[k], text[k + 1], capacity) /\ f[k] \in States /\ text[k + 1] \in Chars
    BY <1>2, <1>6, <2>1
  <2>3. ReadStep(f[k], text[k + 1], f[k + 1], capacity)
    BY <2>2, ReadFacts
  <2>4. CASE k < p
    BY <1>2, <2>1, <2>4
  <2>5. CASE k = p
    <3>1. text[k + 1] = Pad
      BY <1>1, <1>2, <2>1, <2>5
    <3>2. After(f[k + 1])
      BY <2>3, <2>5, <3>1 DEF ReadStep, Pad, Bad
    <3> HIDE DEF After
    <3>3. QED BY <2>1, <3>2
  <2>6. CASE k > p
    <3>1. After(f[k])
      BY <1>2, <1>11, <2>1, <2>6
    <3>2. f[k + 1] = f[k]
      BY <2>3, <3>1 DEF ReadStep
    <3> HIDE DEF After
    <3>3. QED BY <2>1, <3>1, <3>2
  <2>7. QED BY <1>2, <2>1, <2>4, <2>5, <2>6
<1>12. n \in L
  <2>1. n \in 0..n
    BY <1>2
  <2> HIDE DEF L
  <2>2. QED BY <1>2, <1>10, <1>11, <2>1, Counting
<1>13. f[n] = f[p] \/ After(f[n])
  BY <1>1, <1>2, <1>12
<1>14. QED BY <1>5, <1>9, <1>13 DEF t, p

\* What base32_decode returns, of any text and any size of the caller's buffer:
\* it succeeds exactly on the texts of the alphabet that give a byte and fit,
\* writes the bytes of RFC 4648 and never past the buffer.
THEOREM DecodesEveryText ==
  ASSUME NEW capacity \in Nat, NEW text \in Seq(Chars)
  PROVE  LET t == Symbols(text)
             n == (5 * Len(t)) \div 8
             r == Base32Decode(text, capacity)
         IN /\ Len(r.out) <= capacity
            /\ r.result = "ESP_OK" <=> (\A i \in DOMAIN t : t[i] # Bad) /\ n \in 1..capacity
            /\ r.result = "ESP_OK" => r.out = [i \in 1..n |-> Byte(t, i)]
<1> DEFINE t == Symbols(text)
           p == Len(t)
           n == (5 * p) \div 8
           a == ReadAll(text, capacity)
           r == Base32Decode(text, capacity)
<1>1. PICK s \in States :
        /\ Decoded(s, t, p, capacity) /\ a.out = s.out
        /\ a.result = s.result \/ (s.result = "reading" /\ a.result = "padding")
  BY DecodedAll
<1>2. p \in Nat /\ DOMAIN t = 1..p
  BY SymbolsFacts DEF IsText
<1>3. /\ s.out \in Seq(Nat) /\ Len(s.out) \in Nat /\ s.bits \in 0..12 /\ s.result \in Results
      /\ (s.result = "reading" => s.bits <= 7)
  <2>1. s \in Registers /\ (s.result = "reading" => s.bits <= 7)
    BY DEF States
  <2>2. QED BY <2>1, LenProperties DEF Registers
<1>4. r.out = a.out /\ r.result = IF a.result \notin {"reading", "padding"} THEN a.result
                                  ELSE IF a.out = <<>> THEN "ESP_ERR_INVALID_ARG" ELSE "ESP_OK"
  BY DEF Base32Decode
<1> HIDE DEF r, a, t, p
<1>5. n \in Nat
  BY <1>2
<1>6. Len(r.out) <= capacity
  BY <1>1, <1>4 DEF Decoded
<1>7. CASE s.result = "reading"
  <2>1. /\ \A i \in 1..p : t[i] # Bad
        /\ 8 * Len(s.out) + s.bits = 5 * p
        /\ s.out = [i \in 1..Len(s.out) |-> Byte(t, i)]
    BY <1>1, <1>7 DEF Decoded
  <2>2. Len(s.out) = n
    <3> DEFINE m == Len(s.out)
               b == s.bits
    <3>1. m \in Nat /\ b \in 0..7 /\ 8 * m + b = 5 * p
      BY <1>3, <1>7, <2>1
    <3> HIDE DEF m, b
    <3>2. m = n
      BY <1>2, <3>1
    <3>3. QED BY <3>2 DEF m
  <2> HIDE DEF n
  <2>3. s.out = <<>> <=> n = 0
    BY <1>3, <2>2, EmptySeq
  <2>4. r.result = IF s.out = <<>> THEN "ESP_ERR_INVALID_ARG" ELSE "ESP_OK"
    BY <1>1, <1>4, <1>7
  <2>5. n <= capacity
    BY <1>1, <1>4, <1>6, <2>2
  <2>6. QED BY <1>1, <1>2, <1>4, <1>5, <1>6, <2>1, <2>2, <2>3, <2>4, <2>5 DEF r, t, p, n
<1>8. CASE s.result = "ESP_ERR_INVALID_ARG"
  <2>1. \E i \in 1..p : t[i] = Bad
    BY <1>1, <1>8 DEF Decoded
  <2>2. r.result = "ESP_ERR_INVALID_ARG"
    BY <1>1, <1>4, <1>8
  <2> HIDE DEF n
  <2>3. QED BY <1>2, <1>6, <2>1, <2>2 DEF r, t, p, n
<1>9. CASE s.result = "ESP_ERR_INVALID_SIZE"
  <2>1. n > capacity
    BY <1>1, <1>9 DEF Decoded
  <2>2. r.result = "ESP_ERR_INVALID_SIZE"
    BY <1>1, <1>4, <1>9
  <2> HIDE DEF n
  <2>3. ~(n \in 1..capacity)
    BY <1>5, <2>1
  <2>4. QED BY <1>6, <2>2, <2>3 DEF r, t, p, n
<1>10. s.result # "padding"
  BY <1>1 DEF Decoded
<1>11. QED BY <1>3, <1>7, <1>8, <1>9, <1>10 DEF Results

-----------------------------------------------------------------------------
(***************************************************************************)
(* The walk.                                                               *)
(***************************************************************************)
\* The inductive invariant of the walk: the date is one of the calendar and has
\* the number days_from_civil gives it; a text stays one of characters.
InputInv ==
    \/ /\ input.kind = "day" /\ DOMAIN input = {"kind", "days", "dt"}
       /\ IsDate(input.dt) /\ input.days = Days(input.dt)
    \/ /\ input.kind = "text" /\ DOMAIN input = {"kind", "text", "capacity"}
       /\ input.text \in Seq(Chars) /\ input.capacity \in Nat

\* 1 January 1970 is day 0.
LEMMA Start == Init => InputInv
<1> SUFFICES ASSUME Init PROVE InputInv
  OBVIOUS
<1> DEFINE first == [year |-> 1970, month |-> 1, day |-> 1]
<1>1. CASE input = [kind |-> "day", days |-> 0, dt |-> first]
  <2>1. MonthDays(1970, 1) = 31
    BY DEF MonthDays, KDays
  <2>2. IsDate(first)
    BY <2>1 DEF IsDate
  <2>3. Days(first) = 0
    BY SMT DEF Days, DaysFromCivil
  <2>4. QED BY <1>1, <2>2, <2>3 DEF InputInv
<1>2. CASE \E c \in {0, 1, 2, 4, 5} : input = [kind |-> "text", text |-> <<>>, capacity |-> c]
  <2>1. <<>> \in Seq(Chars)
    OBVIOUS
  <2>2. QED BY <1>2, <2>1 DEF InputInv
<1>3. QED BY <1>1, <1>2 DEF Init

\* Tomorrow has the next number.
LEMMA Step ==
  ASSUME InputInv, [Next]_input
  PROVE  InputInv'
<1>1. CASE NextDay
  <2>1. /\ input.kind = "day" /\ DOMAIN input = {"kind", "days", "dt"}
        /\ IsDate(input.dt) /\ input.days = Days(input.dt)
    BY <1>1 DEF InputInv, NextDay
  <2>2. input' = [input EXCEPT !.days = input.days + 1, !.dt = Tomorrow(input.dt)]
    BY <1>1 DEF NextDay
  <2>3. /\ input'.kind = "day" /\ DOMAIN input' = {"kind", "days", "dt"}
        /\ input'.days = input.days + 1 /\ input'.dt = Tomorrow(input.dt)
    BY <2>1, <2>2
  <2>4. IsDate(Tomorrow(input.dt)) /\ Days(Tomorrow(input.dt)) = input.days + 1
    BY <2>1, DayAfter
  <2>5. QED BY <2>3, <2>4 DEF InputInv
<1>2. CASE NextChar
  <2>1. /\ input.kind = "text" /\ DOMAIN input = {"kind", "text", "capacity"}
        /\ input.text \in Seq(Chars) /\ input.capacity \in Nat
    BY <1>2 DEF InputInv, NextChar
  <2>2. PICK c \in Chars : input' = [input EXCEPT !.text = Append(input.text, c)]
    <3>1. PICK c \in {0, 1, 10, 16, 19, 21, 31, Pad, Bad} :
            input' = [input EXCEPT !.text = Append(input.text, c)]
      BY <1>2 DEF NextChar
    <3>2. c \in Chars
      BY <3>1 DEF Chars, Pad, Bad
    <3>3. QED BY <3>1, <3>2
  <2>3. /\ input'.kind = "text" /\ DOMAIN input' = {"kind", "text", "capacity"}
        /\ input'.text = Append(input.text, c) /\ input'.capacity = input.capacity
    BY <2>1, <2>2
  <2>4. Append(input.text, c) \in Seq(Chars)
    BY <2>1, <2>2, AppendProperties
  <2>5. QED BY <2>1, <2>3, <2>4 DEF InputInv
<1>3. CASE UNCHANGED input
  BY <1>3 DEF InputInv
<1>4. QED BY <1>1, <1>2, <1>3 DEF Next

\* On every day of the walk, however far it goes, the number of days walked is
\* what days_from_civil computes of the date.
THEOREM Walk == Spec => []InputInv
BY Start, Step, PTL DEF Spec

\* The date and the number of a day are each other's conversion.
LEMMA DateInInput ==
  ASSUME InputInv, input.kind = "day"
  PROVE  IsDate(input.dt) /\ input.days = Days(input.dt) /\ CivilFromDays(input.days) = input.dt
<1>1. IsDate(input.dt) /\ input.days = Days(input.dt)
  BY DEF InputInv
<1>2. QED BY <1>1, ThereAndBack

\* The two conversions agree with the calendar, whatever year the walk ends in
\* (days_from_civil, civil_from_days).
THEOREM ConversionsAgree == Spec => []DatesAgree
<1>1. InputInv => DatesAgree
  BY DateInInput DEF DatesAgree, Days
<1>2. QED BY <1>1, Walk, PTL

\* A date the device accepts survives the seven BCD registers of the RTC
\* (rtc_write_aligned, rtc_read_regs).
LEMMA RegistersKeep ==
  ASSUME NEW dt, DtIsValid(dt), dt = [year |-> dt.year, month |-> dt.month, day |-> dt.day],
         NEW days, CivilFromDays(days) = dt
  PROVE  RtcRead(RtcWrite(days)) = dt
<1>1. dt.year \in 2024..2099 /\ dt.month \in 1..12 /\ dt.day \in 1..31
  <2>1. dt.month \in {1, 2, 3, 4, 5, 6, 7, 8, 9, 10, 11, 12}
    BY DEF DtIsValid
  <2>2. QED BY <2>1 DEF DtIsValid, KDays
<1> DEFINE r == RtcWrite(days)
<1>2. r.day = ToBcd(dt.day) /\ r.month = ToBcd(dt.month) /\ r.year = ToBcd(dt.year - 2000)
  BY DEF RtcWrite
<1> HIDE DEF r
<1>3. FromBcd(r.day % 64) = dt.day
  BY <1>1, <1>2 DEF ToBcd, FromBcd
<1>4. FromBcd(r.month % 32) = dt.month
  BY <1>1, <1>2 DEF ToBcd, FromBcd
<1>5. 2000 + FromBcd(r.year) = dt.year
  BY <1>1, <1>2 DEF ToBcd, FromBcd
<1>6. RtcRead(r) = dt
  BY <1>3, <1>4, <1>5 DEF RtcRead
<1>7. QED BY <1>6 DEF r

\* The day after a valid one is valid unless it was the last of the month
\* (time_service_dt_is_valid).
LEMMA NextDayRefused ==
  ASSUME NEW dt, DtIsValid(dt), dt = [year |-> dt.year, month |-> dt.month, day |-> dt.day]
  PROVE  DtIsValid([dt EXCEPT !.day = @ + 1]) <=> dt.day < MonthDays(dt.year, dt.month)
<1> DEFINE n == [dt EXCEPT !.day = @ + 1]
<1>1. n.year = dt.year /\ n.month = dt.month /\ n.day = dt.day + 1
  OBVIOUS
<1>2. dt.month \in {1, 2, 3, 4, 5, 6, 7, 8, 9, 10, 11, 12}
  BY DEF DtIsValid
<1>3. /\ DtIsValid(n) <=> n.day \in 1..MonthDays(dt.year, dt.month)
      /\ dt.day \in 1..MonthDays(dt.year, dt.month)
  BY <1>1 DEF DtIsValid, MonthDays
<1>4. MonthDays(dt.year, dt.month) \in Int
  BY <1>2 DEF MonthDays, KDays
<1> HIDE DEF n
<1>5. QED BY <1>1, <1>3, <1>4 DEF n

\* Every day the device accepts survives the RTC and is accepted again, and no
\* day past the end of a month is.
THEOREM RtcKeeps == Spec => []RtcKeepsDate
<1>1. InputInv => RtcKeepsDate
  <2> SUFFICES ASSUME InputInv, input.kind = "day", DtIsValid(input.dt)
               PROVE  /\ RtcRead(RtcWrite(input.days)) = input.dt
                      /\ DtIsValid([input.dt EXCEPT !.day = @ + 1]) <=>
                           input.dt.day < MonthDays(input.dt.year, input.dt.month)
    BY DEF RtcKeepsDate
  <2>1. IsDate(input.dt) /\ CivilFromDays(input.days) = input.dt
    BY DateInInput
  <2> DEFINE dt == input.dt
  <2>2. dt = [year |-> dt.year, month |-> dt.month, day |-> dt.day]
    BY <2>1 DEF IsDate
  <2> HIDE DEF dt
  <2>3. RtcRead(RtcWrite(input.days)) = dt
    BY <2>1, <2>2, RegistersKeep DEF dt
  <2>4. DtIsValid([dt EXCEPT !.day = @ + 1]) <=> dt.day < MonthDays(dt.year, dt.month)
    BY <2>2, NextDayRefused DEF dt
  <2>5. QED BY <2>3, <2>4 DEF dt
<1>2. QED BY <1>1, Walk, PTL

\* So it does on every text of the walk, whatever length the walk ends at
\* (base32_decode).
THEOREM DecoderIsRight == Spec => []DecodesBits
<1>1. InputInv => DecodesBits
  <2> SUFFICES ASSUME InputInv, input.kind = "text"
               PROVE  LET t == Symbols(input.text)
                          n == (5 * Len(t)) \div 8
                          r == Base32Decode(input.text, input.capacity)
                      IN /\ Len(r.out) <= input.capacity
                         /\ r.result = "ESP_OK" <=> (\A i \in DOMAIN t : t[i] # Bad) /\ n \in 1..input.capacity
                         /\ r.result = "ESP_OK" => r.out = [i \in 1..n |-> Byte(t, i)]
    BY DEF DecodesBits
  <2>1. input.text \in Seq(Chars) /\ input.capacity \in Nat
    BY DEF InputInv
  <2>2. QED BY <2>1, DecodesEveryText
<1>2. QED BY <1>1, Walk, PTL
=============================================================================
