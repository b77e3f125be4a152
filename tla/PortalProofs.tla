---------------------------- MODULE PortalProofs ----------------------------
(***************************************************************************)
(* Proofs about what the web process serves: the arithmetic of dates, the  *)
(* calendar page, the meals and dishes pages, the assistant, and the       *)
(* portal that is made of them.                                            *)
(***************************************************************************)
EXTENDS MCPortal, FiniteSetTheorems, SequenceTheorems, TLAPS

-----------------------------------------------------------------------------
(* Dates.  Months follow each other without a gap, every day lies in       *)
(* exactly one of them, and MonthOf finds it.                              *)

\* The table of DaysBefore, entry by entry.
LEMMA DaysTable ==
  /\ DaysBefore[1] = 0   /\ DaysBefore[2] = 31   /\ DaysBefore[3] = 59
  /\ DaysBefore[4] = 90  /\ DaysBefore[5] = 120  /\ DaysBefore[6] = 151
  /\ DaysBefore[7] = 181 /\ DaysBefore[8] = 212  /\ DaysBefore[9] = 243
  /\ DaysBefore[10] = 273 /\ DaysBefore[11] = 304 /\ DaysBefore[12] = 334
  BY DEF DaysBefore

\* A month is a year and one of its twelve.
LEMMA MonthOfYear ==
  ASSUME NEW m \in Int
  PROVE  /\ m \div 12 \in Int /\ m % 12 \in 0 .. 11 /\ m = 12 * (m \div 12) + (m % 12)
  OBVIOUS

\* FirstOf with the position in the cycle of four years spelled out.
LEMMA FirstOfCycle ==
  ASSUME NEW q \in Int, NEW s \in 0 .. 3, NEW j \in 0 .. 11
  PROVE  FirstOf(12 * (4 * q + s) + j) =
           1461 * q + 365 * s + DaysBefore[j + 1]
           + (IF s = 0 THEN 0 ELSE 1) + (IF s = 0 /\ j >= 2 THEN 1 ELSE 0)
  <1> DEFINE y == 4 * q + s
             m == 12 * y + j
  <1>1. m \div 12 = y /\ m % 12 = j
    OBVIOUS
  <1>2. y % 4 = s /\ (y + 3) \div 4 = q + (IF s = 0 THEN 0 ELSE 1)
    OBVIOUS
  <1> HIDE DEF m, y
  <1>3. DaysBefore[j + 1] \in Int
    BY DaysTable
  <1>4. 365 * y = 1460 * q + 365 * s
    BY DEF y
  <1>5. FirstOf(m) = 365 * y + (y + 3) \div 4 + DaysBefore[j + 1]
                     + (IF j >= 2 /\ y % 4 = 0 THEN 1 ELSE 0)
    BY <1>1 DEF FirstOf
  <1> QED
    BY <1>2, <1>3, <1>4, <1>5 DEF m, y

\* Every month is one of a cycle of 48.
LEMMA MonthInCycle ==
  ASSUME NEW m \in Int
  PROVE  \E q \in Int, s \in 0 .. 3, j \in 0 .. 11 : m = 12 * (4 * q + s) + j
  <1> DEFINE y == m \div 12
  <1>1. y \in Int /\ m % 12 \in 0 .. 11 /\ m = 12 * y + (m % 12)
    BY MonthOfYear
  <1>2. y \div 4 \in Int /\ y % 4 \in 0 .. 3 /\ y = 4 * (y \div 4) + (y % 4)
    <2> HIDE DEF y
    <2> QED BY <1>1
  <1> QED
    BY <1>1, <1>2

\* Months lie close to a line of 1461 days in 48 months.
LEMMA MonthsAreEven ==
  ASSUME NEW m \in Int
  PROVE  /\ FirstOf(m) \in Int
         /\ -78 <= 48 * FirstOf(m) - 1461 * m
         /\ 48 * FirstOf(m) - 1461 * m <= 63
  <1>1. PICK q \in Int, s \in 0 .. 3, j \in 0 .. 11 : m = 12 * (4 * q + s) + j
    BY MonthInCycle
  <1>2. FirstOf(m) = 1461 * q + 365 * s + DaysBefore[j + 1]
                     + (IF s = 0 THEN 0 ELSE 1) + (IF s = 0 /\ j >= 2 THEN 1 ELSE 0)
    BY <1>1, FirstOfCycle
  <1>3. j = 0 \/ j = 1 \/ j = 2 \/ j = 3 \/ j = 4 \/ j = 5 \/ j = 6 \/ j = 7 \/ j = 8
        \/ j = 9 \/ j = 10 \/ j = 11
    OBVIOUS
  <1>4. s = 0 \/ s = 1 \/ s = 2 \/ s = 3
    OBVIOUS
  <1> QED
    BY <1>1, <1>2, <1>3, <1>4, DaysTable

\* A month has 28 to 31 days.
LEMMA MonthLength ==
  ASSUME NEW m \in Int
  PROVE  FirstOf(m + 1) - FirstOf(m) \in 28 .. 31
  <1>1. PICK q \in Int, s \in 0 .. 3, j \in 0 .. 11 : m = 12 * (4 * q + s) + j
    BY MonthInCycle
  <1>2. FirstOf(m) = 1461 * q + 365 * s + DaysBefore[j + 1]
                     + (IF s = 0 THEN 0 ELSE 1) + (IF s = 0 /\ j >= 2 THEN 1 ELSE 0)
    BY <1>1, FirstOfCycle
  <1>3. PICK q2 \in Int, s2 \in 0 .. 3, j2 \in 0 .. 11 : m + 1 = 12 * (4 * q2 + s2) + j2
    <2>1. m + 1 \in Int
      OBVIOUS
    <2> QED
      BY <2>1, MonthInCycle
  <1>4. FirstOf(m + 1) = 1461 * q2 + 365 * s2 + DaysBefore[j2 + 1]
                     + (IF s2 = 0 THEN 0 ELSE 1) + (IF s2 = 0 /\ j2 >= 2 THEN 1 ELSE 0)
    BY <1>3, FirstOfCycle
  <1>5. \/ j < 11 /\ j2 = j + 1 /\ 4 * q2 + s2 = 4 * q + s
        \/ j = 11 /\ j2 = 0 /\ 4 * q2 + s2 = 4 * q + s + 1
    BY <1>1, <1>3
  <1>6. j = 0 \/ j = 1 \/ j = 2 \/ j = 3 \/ j = 4 \/ j = 5 \/ j = 6 \/ j = 7 \/ j = 8
        \/ j = 9 \/ j = 10 \/ j = 11
    OBVIOUS
  <1>7. \/ q2 = q /\ s2 = s /\ j < 11
        \/ s < 3 /\ q2 = q /\ s2 = s + 1 /\ j = 11
        \/ s = 3 /\ q2 = q + 1 /\ s2 = 0 /\ j = 11
    BY <1>5
  <1> QED
    BY <1>2, <1>4, <1>5, <1>6, <1>7, DaysTable, SMTT(60)

\* Nineteen months have more than 18 * 32 days.
LEMMA NineteenMonths ==
  ASSUME NEW m \in Int
  PROVE  FirstOf(m + 19) - FirstOf(m) > 576
  <1>1. PICK q \in Int, s \in 0 .. 3, j \in 0 .. 11 : m = 12 * (4 * q + s) + j
    BY MonthInCycle
  <1>2. FirstOf(m) = 1461 * q + 365 * s + DaysBefore[j + 1]
                     + (IF s = 0 THEN 0 ELSE 1) + (IF s = 0 /\ j >= 2 THEN 1 ELSE 0)
    BY <1>1, FirstOfCycle
  <1>3. PICK q2 \in Int, s2 \in 0 .. 3, j2 \in 0 .. 11 : m + 19 = 12 * (4 * q2 + s2) + j2
    <2>1. m + 19 \in Int
      OBVIOUS
    <2> QED
      BY <2>1, MonthInCycle
  <1>4. FirstOf(m + 19) = 1461 * q2 + 365 * s2 + DaysBefore[j2 + 1]
                     + (IF s2 = 0 THEN 0 ELSE 1) + (IF s2 = 0 /\ j2 >= 2 THEN 1 ELSE 0)
    BY <1>3, FirstOfCycle
  <1>5. \/ j < 5 /\ j2 = j + 7 /\ 4 * q2 + s2 = 4 * q + s + 1
        \/ j >= 5 /\ j2 = j - 5 /\ 4 * q2 + s2 = 4 * q + s + 2
    BY <1>1, <1>3
  <1>6. j = 0 \/ j = 1 \/ j = 2 \/ j = 3 \/ j = 4 \/ j = 5 \/ j = 6 \/ j = 7 \/ j = 8
        \/ j = 9 \/ j = 10 \/ j = 11
    OBVIOUS
  <1>7. \/ s < 3 /\ q2 = q /\ s2 = s + 1
        \/ s < 2 /\ q2 = q /\ s2 = s + 2
        \/ s = 3 /\ q2 = q + 1 /\ s2 = 0
        \/ s >= 2 /\ q2 = q + 1 /\ s2 = s - 2
    BY <1>5
  <1> QED
    BY <1>2, <1>4, <1>5, <1>6, <1>7, DaysTable, SMTT(60)

\* The month of a day is next to the one the line of MonthsAreEven gives it.
LEMMA NearMonth ==
  ASSUME NEW m \in Int, NEW d \in Int, IsMonthOf(m, d)
  PROVE  m \in ((48 * d) \div 1461) - 1 .. ((48 * d) \div 1461) + 1
  <1> DEFINE near == (48 * d) \div 1461
  <1>1. near \in Int /\ 1461 * near <= 48 * d /\ 48 * d < 1461 * near + 1461
    OBVIOUS
  <1>2. m + 1 \in Int
    OBVIOUS
  <1>3. /\ FirstOf(m) \in Int /\ FirstOf(m + 1) \in Int
        /\ -78 <= 48 * FirstOf(m) - 1461 * m
        /\ 48 * FirstOf(m + 1) - 1461 * (m + 1) <= 63
    BY <1>2, MonthsAreEven
  <1>4. FirstOf(m) <= d /\ d < FirstOf(m + 1)
    BY DEF IsMonthOf
  <1> HIDE DEF near
  <1>5. m \in near - 1 .. near + 1
    BY <1>1, <1>3, <1>4
  <1> QED
    BY <1>5 DEF near

\* A later month begins after an earlier one has ended.
LEMMA MonthsInOrder ==
  ASSUME NEW m \in Int, NEW n \in Int, m < n
  PROVE  FirstOf(m + 1) <= FirstOf(n)
  <1>1. m + 1 \in Int /\ m + 2 \in Int /\ m + 3 \in Int
    OBVIOUS
  <1>2. /\ FirstOf(m) \in Int /\ FirstOf(m + 1) \in Int /\ FirstOf(m + 2) \in Int
        /\ FirstOf(m + 3) \in Int /\ FirstOf(n) \in Int
        /\ 48 * FirstOf(m + 1) - 1461 * (m + 1) <= 63 /\ -78 <= 48 * FirstOf(n) - 1461 * n
    BY <1>1, MonthsAreEven
  <1>3. FirstOf((m + 1) + 1) - FirstOf(m + 1) \in 28 .. 31
    BY <1>1, MonthLength
  <1>4. (m + 1) + 1 = m + 2
    OBVIOUS
  <1>5. CASE n = m + 1
    BY <1>2, <1>5
  <1>6. CASE n > m + 1
    BY <1>2, <1>6
  <1> QED
    BY <1>5, <1>6

\* A day lies in one month at most ...
LEMMA OneMonth ==
  ASSUME NEW m \in Int, NEW n \in Int, NEW d \in Int, IsMonthOf(m, d), IsMonthOf(n, d)
  PROVE  m = n
  <1>1. m + 1 \in Int /\ n + 1 \in Int
    OBVIOUS
  <1>2. FirstOf(m) \in Int /\ FirstOf(n) \in Int /\ FirstOf(m + 1) \in Int /\ FirstOf(n + 1) \in Int
    BY <1>1, MonthsAreEven
  <1>3. m < n => FirstOf(m + 1) <= FirstOf(n)
    BY MonthsInOrder
  <1>4. n < m => FirstOf(n + 1) <= FirstOf(m)
    BY MonthsInOrder
  <1> QED
    BY <1>2, <1>3, <1>4 DEF IsMonthOf

\* ... and MonthOf finds it.
LEMMA MonthOfDay ==
  ASSUME NEW d \in Int
  PROVE  MonthOf(d) \in Int /\ IsMonthOf(MonthOf(d), d)
  <1> DEFINE near == (48 * d) \div 1461
  <1>1. near \in Int /\ 1461 * near <= 48 * d /\ 48 * d < 1461 * near + 1461
    OBVIOUS
  <1> HIDE DEF near
  <1>2. near - 1 \in Int /\ near + 1 \in Int /\ near + 2 \in Int
    BY <1>1
  <1>3. /\ FirstOf(near - 1) \in Int /\ FirstOf(near) \in Int
        /\ FirstOf(near + 1) \in Int /\ FirstOf(near + 2) \in Int
        /\ 48 * FirstOf(near - 1) - 1461 * (near - 1) <= 63
        /\ -78 <= 48 * FirstOf(near + 2) - 1461 * (near + 2)
    BY <1>1, <1>2, MonthsAreEven
  <1>4. FirstOf(near - 1) <= d /\ d < FirstOf(near + 2)
    BY <1>1, <1>3
  <1>5. (near - 1) + 1 = near /\ (near + 1) + 1 = near + 2
    BY <1>1
  <1>6. \E m \in near - 1 .. near + 1 : IsMonthOf(m, d)
    <2>1. CASE d < FirstOf(near)
      BY <1>1, <1>2, <1>4, <1>5, <2>1 DEF IsMonthOf
    <2>2. CASE FirstOf(near) <= d /\ d < FirstOf(near + 1)
      BY <1>1, <1>2, <2>2 DEF IsMonthOf
    <2>3. CASE FirstOf(near + 1) <= d
      BY <1>1, <1>2, <1>4, <1>5, <2>3 DEF IsMonthOf
    <2> QED
      BY <1>3, <2>1, <2>2, <2>3
  <1>7. MonthOf(d) = CHOOSE m \in near - 1 .. near + 1 : IsMonthOf(m, d)
    BY DEF MonthOf, near
  <1>8. MonthOf(d) \in near - 1 .. near + 1 /\ IsMonthOf(MonthOf(d), d)
    <2> HIDE DEF IsMonthOf
    <2> QED BY <1>6, <1>7, Zenon
  <1> QED
    BY <1>1, <1>8

\* Together: the month of a day is m exactly when m has the day.
LEMMA MonthOfIs ==
  ASSUME NEW m \in Int, NEW d \in Int
  PROVE  MonthOf(d) = m <=> IsMonthOf(m, d)
  BY MonthOfDay, OneMonth

\* Some months on, counted from the first of a month in steps of 32 days.
LEMMA MonthsAhead ==
  ASSUME NEW m \in Int, NEW k \in 0 .. 18
  PROVE  MonthOf(FirstOf(m) + 32 * k) = m + k
  <1>1. k \in Int /\ m + k \in Int /\ m + k + 1 \in Int
    OBVIOUS
  <1>2. /\ FirstOf(m) \in Int /\ FirstOf(m + k) \in Int /\ FirstOf(m + k + 1) \in Int
        /\ -78 <= 48 * FirstOf(m) - 1461 * m /\ 48 * FirstOf(m) - 1461 * m <= 63
        /\ 48 * FirstOf(m + k) - 1461 * (m + k) <= 63
        /\ -78 <= 48 * FirstOf(m + k + 1) - 1461 * (m + k + 1)
    BY <1>1, MonthsAreEven
  <1>3. FirstOf(m + k) <= FirstOf(m) + 32 * k
    <2>1. CASE k = 0
      BY <1>2, <2>1
    <2>2. CASE k = 1
      <3>1. FirstOf(m + 1) - FirstOf(m) \in 28 .. 31
        BY MonthLength
      <3> QED
        BY <1>2, <2>2, <3>1
    <2>3. CASE k >= 2
      BY <1>2, <2>3
    <2> QED
      BY <2>1, <2>2, <2>3
  <1>4. FirstOf(m) + 32 * k < FirstOf(m + k + 1)
    <2>1. CASE k = 18
      <3>1. FirstOf(m + 19) - FirstOf(m) > 576
        BY NineteenMonths
      <3>2. m + k + 1 = m + 19
        BY <2>1
      <3> QED
        BY <1>2, <2>1, <3>1, <3>2
    <2>2. CASE k < 18
      BY <1>2, <2>2
    <2> QED
      BY <2>1, <2>2
  <1>5. FirstOf(m) + 32 * k \in Int
    BY <1>2
  <1> QED
    BY <1>1, <1>3, <1>4, <1>5, MonthOfIs DEF IsMonthOf

-----------------------------------------------------------------------------
(* Dates and rows.                                                         *)

\* Instants, dates and times of integers are integers.
LEMMA ClockTypes ==
  ASSUME NEW a \in Int, NEW z \in Int
  PROVE  DateIn(a, z) \in Int /\ TimeIn(a, z) \in Int /\ Weekday(a) \in Weekdays
  <1>1. Ticks \in Int /\ Ticks > 0 /\ a + z \in Int
    BY ZoneWithinADay
  <1>2. (a + z) \div Ticks \in Int /\ (a + z) % Ticks \in Int
    BY <1>1
  <1> QED
    BY <1>2 DEF DateIn, TimeIn, Weekday, Weekdays

\* So are the instants combined of them.
LEMMA CombineTypes ==
  ASSUME NEW d \in Int, NEW t \in Int, NEW z \in Int
  PROVE  Combine(d, t, z) \in Int
  <1>1. d * Ticks \in Int
    BY ZoneWithinADay
  <1>2. \A x \in Int : x + t - z \in Int
    OBVIOUS
  <1> QED
    BY <1>1, <1>2 DEF Combine

\* A weekly activity has a first date within a week of the date typed.
LEMMA FirstWeekdayExists ==
  ASSUME NEW d \in Int, NEW W \in SUBSET Weekdays, W # {}
  PROVE  /\ FirstWeekdayOnOrAfter(d, W) \in d .. d + 6
         /\ Weekday(FirstWeekdayOnOrAfter(d, W)) \in W
         /\ \A b \in d .. FirstWeekdayOnOrAfter(d, W) - 1 : Weekday(b) \notin W
  <1> DEFINE In(i) == Weekday(d + i) \in W
             Least(k) == In(k) /\ \A i \in 0 .. k - 1 : ~In(i)
  <1>1. \E k \in 0 .. 6 : In(k)
    <2>1. PICK w \in 0 .. 6 : w \in W
      BY DEF Weekdays
    <2>2. (w - d) % 7 \in 0 .. 6 /\ (d + ((w - d) % 7)) % 7 = w
      OBVIOUS
    <2>3. Weekday(d + ((w - d) % 7)) = w
      BY <2>2 DEF Weekday
    <2> QED
      BY <2>1, <2>2, <2>3
  <1>2. In(0) \/ In(1) \/ In(2) \/ In(3) \/ In(4) \/ In(5) \/ In(6)
    <2> HIDE DEF In
    <2>1. \A k \in 0 .. 6 : k = 0 \/ k = 1 \/ k = 2 \/ k = 3 \/ k = 4 \/ k = 5 \/ k = 6
      OBVIOUS
    <2> QED
      BY <1>1, <2>1, Zenon
  <1>3. \E k \in 0 .. 6 : Least(k)
    <2> HIDE DEF In
    <2> QED
      BY <1>2
  <1>4. PICK k \in 0 .. 6 : Least(k)
    BY <1>3
  <1>5. \A b \in d .. (d + k) - 1 : b - d \in 0 .. k - 1 /\ d + (b - d) = b
    OBVIOUS
  <1>6. \A b \in d .. (d + k) - 1 : Weekday(b) \notin W
    BY <1>4, <1>5
  <1>7. d + k \in d .. d + 6 /\ Weekday(d + k) \in W
    BY <1>4
  <1> QED
    BY <1>6, <1>7, Zenon DEF FirstWeekdayOnOrAfter

\* A date and a time of day are what their instant shows in the same zone.
LEMMA CombinedShows ==
  ASSUME NEW d \in Int, NEW t \in 0 .. Ticks - 1, NEW z \in Int
  PROVE  DateIn(Combine(d, t, z), z) = d /\ TimeIn(Combine(d, t, z), z) = t
  <1>1. d * Ticks \in Int /\ Ticks \in Nat \ {0}
    BY ZoneWithinADay
  <1>2. Combine(d, t, z) + z = d * Ticks + t
    <2>1. \A x \in Int : (x + t - z) + z = x + t
      OBVIOUS
    <2> QED
      BY <1>1, <2>1 DEF Combine
  <1>3. (d * Ticks + t) \div Ticks = d /\ (d * Ticks + t) % Ticks = t
    BY <1>1
  <1> QED
    BY <1>2, <1>3 DEF DateIn, TimeIn

\* Days later in the same zone are days later in every zone.
LEMMA DaysLater ==
  ASSUME NEW d \in Int, NEW e \in Int, NEW t \in Int, NEW z \in Int, NEW y \in Int
  PROVE  DateIn(Combine(e, t, z), y) = DateIn(Combine(d, t, z), y) + (e - d)
  <1> DEFINE n == e - d
  <1>1. Ticks \in Nat \ {0} /\ n \in Int /\ e = d + n
    BY ZoneWithinADay
  <1> HIDE DEF n
  <1>2. Combine(d, t, z) \in Int
    BY CombineTypes
  <1>3. Combine(e, t, z) + y = n * Ticks + (Combine(d, t, z) + y)
    <2>1. d * Ticks \in Int /\ n * Ticks \in Int /\ e * Ticks = d * Ticks + n * Ticks
      BY <1>1
    <2>2. \A a, b \in Int : ((a + b) + t - z) + y = b + ((a + t - z) + y)
      OBVIOUS
    <2> QED
      BY <2>1, <2>2 DEF Combine
  <1>4. \A x \in Int : (n * Ticks + x) \div Ticks = n + (x \div Ticks)
    BY <1>1
  <1>5. \A x \in Int : x \div Ticks \in Int
    BY <1>1
  <1>6. DateIn(Combine(e, t, z), y) = DateIn(Combine(d, t, z), y) + n
    <2> DEFINE c == Combine(d, t, z) + y
    <2>1. c \in Int
      BY <1>2
    <2>2. DateIn(Combine(e, t, z), y) = (n * Ticks + c) \div Ticks
      BY <1>3 DEF DateIn
    <2>3. DateIn(Combine(d, t, z), y) = c \div Ticks
      BY DEF DateIn
    <2> HIDE DEF c
    <2>4. (n * Ticks + c) \div Ticks = n + (c \div Ticks) /\ c \div Ticks \in Int
      BY <1>4, <1>5, <2>1
    <2>5. \A x \in Int : n + x = x + n
      BY <1>1
    <2> QED
      BY <2>2, <2>3, <2>4, <2>5
  <1> QED
    BY <1>6 DEF n

-----------------------------------------------------------------------------
(* What the sources and the form put into a row.                           *)

SomeMoment  == Moment \cup {NoMoment}
GoogleEvent == [start : Moment, end : SomeMoment]

RowOK(row) ==
  /\ row.start \in Int /\ row.end \in Int
  /\ row.allday \in BOOLEAN /\ row.weekdays \subseteq Weekdays

\* The parts of a moment, and how it is told from none.
LEMMA MomentParts ==
  /\ \A m \in SomeMoment : m.date \in Int /\ m.time \in Int /\ m.zone \in Int
  /\ \A m \in Moment : m.kind # "none" /\ m # NoMoment
  /\ NoMoment.kind = "none" /\ Home \in Int
  <1>1. \A m \in Moment : m.date \in Int /\ m.time \in Int /\ m.zone \in Int /\ m.kind # "none"
    BY DEF Moment, DateTime
  <1>2. NoMoment.kind = "none" /\ NoMoment.date = 0 /\ NoMoment.time = 0 /\ NoMoment.zone = 0
    BY DEF NoMoment
  <1>3. Home \in Int
    BY ZoneWithinADay
  <1> QED
    BY <1>1, <1>2, <1>3 DEF SomeMoment

\* Written from integers, a moment is one.
LEMMA MomentTypes ==
  ASSUME NEW d \in Int, NEW t \in Int, NEW z \in Int
  PROVE  DateOnly(d) \in Moment /\ Zoned(d, t, z) \in DateTime /\ SeenFrom(z, t) \in DateTime
  <1>1. DateOnly(d) \in Moment
    BY DEF DateOnly, Moment
  <1>2. \A x, y \in Int : Zoned(x, y, z) \in DateTime
    BY DEF Zoned, DateTime
  <1>3. DateIn(t, z) \in Int /\ TimeIn(t, z) \in Int
    BY ClockTypes
  <1> QED
    BY <1>1, <1>2, <1>3 DEF SeenFrom

\* A moment has an instant.
LEMMA InstantTypes ==
  ASSUME NEW m \in SomeMoment
  PROVE  InstantOf(m) \in Int
  <1>1. m.date \in Int /\ m.time \in Int /\ m.zone \in Int /\ Home \in Int
    BY MomentParts
  <1>2. Combine(m.date, m.time, m.zone) \in Int /\ Combine(m.date, m.time, Home) \in Int
    BY <1>1, CombineTypes
  <1> QED
    BY <1>2 DEF InstantOf, NoTime

\* Seen from any zone, an instant stays the same instant.
LEMMA SeenIsSame ==
  ASSUME NEW t \in Int, NEW z \in Int
  PROVE  InstantOf(SeenFrom(z, t)) = t
  <1> DEFINE d == DateIn(t, z)
             h == TimeIn(t, z)
  <1>1. Ticks \in Nat \ {0} /\ t + z \in Int
    BY ZoneWithinADay
  <1>2. t + z = ((t + z) \div Ticks) * Ticks + ((t + z) % Ticks)
    BY <1>1
  <1>3. d * Ticks + h = t + z
    BY <1>2 DEF DateIn, TimeIn
  <1>4. \A x \in Int : x = t + z => x - z = t
    OBVIOUS
  <1>5. (d * Ticks + h) - z = t
    BY <1>1, <1>3, <1>4
  <1> QED
    <2>1. SeenFrom(z, t) = Zoned(d, h, z)
      BY DEF SeenFrom
    <2>2. InstantOf(Zoned(d, h, z)) = Combine(d, h, z)
      BY DEF Zoned, InstantOf
    <2>3. Combine(d, h, z) = (d * Ticks + h) - z
      <3>1. d \in Int /\ h \in Int
        BY ClockTypes
      <3>2. d * Ticks \in Int
        BY <1>1, <3>1
      <3> HIDE DEF d, h
      <3>3. \A x \in Int : x + (h - z) = (x + h) - z
        BY <3>1
      <3> QED
        BY <3>2, <3>3 DEF Combine
    <2> QED
      BY <1>5, <2>1, <2>2, <2>3

\* Making a moment aware keeps its instant and its date.
LEMMA AwareKeeps ==
  ASSUME NEW m \in Moment
  PROVE  /\ Aware(m) \in Moment /\ InstantOf(Aware(m)) = InstantOf(m) /\ Aware(m).date = m.date
         /\ Aware(m).kind = "date" <=> m.kind = "date"
  <1>1. CASE m.kind = "naive"
    <2>1. Aware(m) = Zoned(m.date, m.time, Home)
      BY <1>1 DEF Aware
    <2>2. Aware(m) \in Moment
      BY <2>1, MomentParts, MomentTypes DEF Moment, SomeMoment
    <2> QED
      BY <1>1, <2>1, <2>2 DEF Zoned, InstantOf
  <1>2. CASE m.kind # "naive"
    BY <1>2 DEF Aware
  <1> QED
    BY <1>1, <1>2

\* The date of a moment without a time is the household's.
LEMMA DateOnlyDay ==
  ASSUME NEW d \in Int
  PROVE  DateIn(InstantOf(DateOnly(d)), Home) = d
  <1>1. InstantOf(DateOnly(d)) = Combine(d, 0, Home)
    BY DEF InstantOf, DateOnly
  <1>2. 0 \in 0 .. Ticks - 1 /\ Home \in Int
    BY ZoneWithinADay
  <1> QED
    BY <1>1, <1>2, CombinedShows

\* A date of the household is at its own midnight, whichever moment holds it.
LEMMA DateMoment ==
  ASSUME NEW m \in Moment, m.kind = "date"
  PROVE  DateIn(InstantOf(m), Home) = m.date
  <1>1. m = DateOnly(m.date) /\ m.date \in Int
    BY DEF DateOnly, Moment, DateTime
  <1> QED
    BY <1>1, DateOnlyDay

\* A moment written as a date or as it is names the day of the request.
LEMMA WhenJsonDay ==
  ASSUME NEW m \in Moment, NEW allday \in BOOLEAN
  PROVE  /\ WhenJson(m, allday) \in Moment
         /\ DateIn(InstantOf(WhenJson(m, allday)), Home) = DayOf(m, allday)
         /\ WhenJson(m, allday).kind = "date" <=> allday \/ m.kind = "date"
  <1>1. CASE allday
    <2>1. WhenJson(m, allday) = DateOnly(m.date) /\ m.date \in Int
      BY <1>1, MomentParts DEF WhenJson, SomeMoment
    <2>2. DateOnly(m.date) \in Moment /\ DateOnly(m.date).kind = "date"
      BY <2>1, MomentTypes DEF DateOnly
    <2>3. DateIn(InstantOf(DateOnly(m.date)), Home) = m.date
      BY <2>1, DateOnlyDay
    <2> QED
      BY <1>1, <2>1, <2>2, <2>3 DEF DayOf
  <1>2. CASE ~allday
    BY <1>2 DEF WhenJson, DayOf
  <1> QED
    BY <1>1, <1>2

\* The same for the end of an event, which may be missing.
LEMMA EndTypes ==
  ASSUME NEW m \in DateTime \cup {NoMoment}, NEW allday \in BOOLEAN
  PROVE  m # NoMoment => WhenJson(Aware(m), allday) \in Moment
  <1>1. m # NoMoment => m \in Moment
    BY DEF Moment
  <1> QED
    BY <1>1, AwareKeeps, WhenJsonDay

\* A created event's body is one and names the day of the request ...
LEMMA BodyDay ==
  ASSUME NEW req \in Request
  PROVE  /\ EventBody(req) \in GoogleEvent
         /\ DateIn(InstantOf(EventBody(req).start), Home) = DayOf(req.starts, req.allday)
  <1>1. /\ req.starts \in Moment /\ req.starts.date \in Int /\ req.allday \in BOOLEAN
        /\ req.ends \in DateTime \cup {NoMoment}
    BY InputAssumption, MomentParts DEF Moment, SomeMoment
  <1>2. /\ Aware(req.starts) \in Moment /\ InstantOf(Aware(req.starts)) = InstantOf(req.starts)
        /\ Aware(req.starts).date = req.starts.date
    BY <1>1, AwareKeeps
  <1> DEFINE start == WhenJson(Aware(req.starts), req.allday)
  <1>3. start \in Moment /\ DateIn(InstantOf(start), Home) = DayOf(Aware(req.starts), req.allday)
    BY <1>1, <1>2, WhenJsonDay
  <1>4. DayOf(Aware(req.starts), req.allday) = DayOf(req.starts, req.allday)
    BY <1>2 DEF DayOf
  <1>5. req.starts.date + 1 \in Int
    BY <1>1
  <1>6. DateOnly(req.starts.date + 1) \in Moment
    BY <1>5, MomentTypes
  <1>7. req.ends # NoMoment => WhenJson(Aware(req.ends), req.allday) \in Moment
    BY <1>1, EndTypes
  <1>8. EventBody(req).end \in SomeMoment
    BY <1>6, <1>7 DEF EventBody, SomeMoment
  <1>9. EventBody(req).start = start /\ EventBody(req) = [start |-> start, end |-> EventBody(req).end]
    BY DEF EventBody
  <1> HIDE DEF start
  <1> QED
    BY <1>3, <1>4, <1>8, <1>9 DEF GoogleEvent

\* The start an update leaves: the one asked for, else the one it had.
StartOf(e, f) == IF f.starts # NoMoment THEN f.starts ELSE ExistingStart(e)

\* ... and so does an updated one, by the day asked for or the day it was on.
LEMMA MergedDay ==
  ASSUME NEW e \in GoogleEvent, NEW f \in Fields
  PROVE  /\ Merged(e, f) \in GoogleEvent
         /\ DateIn(InstantOf(Merged(e, f).start), Home)
              = DayOf(StartOf(e, f), IsAllDay(Merged(e, f)))
  <1> DEFINE body == Merged(e, f)
             starts == IF f.starts # NoMoment THEN Aware(f.starts) ELSE ExistingStart(e)
             allday == f.mode = "allday"
  <1>1. /\ f.starts \in DateTime \cup {NoMoment} /\ f.ends \in DateTime \cup {NoMoment}
        /\ e.start \in Moment /\ e.end \in SomeMoment /\ IsAllDay(e) \in BOOLEAN
        /\ e = [start |-> e.start, end |-> e.end] /\ allday \in BOOLEAN
        /\ (e.end.kind = "date") \in BOOLEAN
    BY InputAssumption DEF GoogleEvent, IsAllDay
  <1>2. \A m \in DateTime : m \in Moment /\ m.kind # "date"
    BY DEF DateTime, Moment
  <1>3. ExistingStart(e) \in Moment /\ ExistingStart(e).kind # "date"
    <2>1. CASE IsAllDay(e)
      <3>1. e.start.date \in Int /\ Home \in Int /\ 0 \in Int
        BY <1>1, MomentParts DEF SomeMoment
      <3>2. Zoned(e.start.date, 0, Home) \in DateTime
        BY <3>1, MomentTypes
      <3> QED
        BY <1>2, <2>1, <3>2 DEF ExistingStart
    <2>2. CASE ~IsAllDay(e)
      BY <1>1, <2>2 DEF ExistingStart, IsAllDay
    <2> QED
      BY <2>1, <2>2
  <1>4. /\ starts \in Moment /\ starts.kind # "date"
        /\ \A b \in BOOLEAN : DayOf(starts, b) = DayOf(StartOf(e, f), b)
    <2>1. CASE f.starts # NoMoment
      <3>1. f.starts \in Moment /\ f.starts.kind # "date"
        BY <1>1, <1>2, <2>1
      <3>2. /\ Aware(f.starts) \in Moment /\ InstantOf(Aware(f.starts)) = InstantOf(f.starts)
            /\ Aware(f.starts).date = f.starts.date /\ Aware(f.starts).kind # "date"
        BY <3>1, AwareKeeps
      <3> QED
        BY <2>1, <3>2 DEF StartOf, DayOf
    <2>2. CASE f.starts = NoMoment
      BY <1>3, <2>2 DEF StartOf
    <2> QED
      BY <2>1, <2>2
  <1> HIDE DEF starts, allday
  <1>5. \A b \in BOOLEAN : /\ WhenJson(starts, b) \in Moment
                           /\ DateIn(InstantOf(WhenJson(starts, b)), Home) = DayOf(starts, b)
                           /\ WhenJson(starts, b).kind = "date" <=> b
    BY <1>4, WhenJsonDay
  <1>6. DateOnly(starts.date + 1) \in SomeMoment /\ [starts EXCEPT !.date = @ + 1] \in SomeMoment
    <2>1. starts.date + 1 \in Int
      BY <1>4, MomentParts DEF SomeMoment
    <2>2. DateOnly(starts.date + 1) \in Moment
      BY <2>1, MomentTypes
    <2>3. [starts EXCEPT !.date = @ + 1] \in Moment
      BY <1>4, <2>1 DEF Moment, DateTime
    <2> QED
      BY <2>2, <2>3 DEF SomeMoment
  <1>7. CASE f.mode # "keep" /\ allday # IsAllDay(e)
    <2>1. body = [start |-> WhenJson(starts, allday),
                  end |-> IF allday THEN DateOnly(starts.date + 1)
                          ELSE [starts EXCEPT !.date = @ + 1]]
      BY <1>7 DEF Merged, starts, allday
    <2>2. IsAllDay(body) = allday
      BY <1>1, <1>5, <2>1 DEF IsAllDay
    <2> QED
      BY <1>1, <1>4, <1>5, <1>6, <2>1, <2>2 DEF GoogleEvent, SomeMoment
  <1>8. CASE ~(f.mode # "keep" /\ allday # IsAllDay(e))
    <2> DEFINE end == IF f.ends # NoMoment THEN WhenJson(Aware(f.ends), e.end.kind = "date")
                      ELSE e.end
    <2>1. body = [start |-> IF f.starts # NoMoment THEN WhenJson(starts, IsAllDay(e)) ELSE e.start,
                  end |-> end]
      BY <1>8 DEF Merged, starts, allday
    <2>2. end \in SomeMoment
      BY <1>1, EndTypes DEF SomeMoment
    <2> HIDE DEF end
    <2>3. IsAllDay(body) <=> IsAllDay(e)
      <3>1. CASE f.starts # NoMoment
        <4>1. body.start = WhenJson(starts, IsAllDay(e))
          BY <2>1, <3>1
        <4>2. WhenJson(starts, IsAllDay(e)).kind = "date" <=> IsAllDay(e)
          BY <1>1, <1>5
        <4> QED
          BY <4>1, <4>2, Zenon DEF IsAllDay
      <3>2. CASE f.starts = NoMoment
        BY <2>1, <3>2 DEF IsAllDay
      <3> QED
        BY <3>1, <3>2
    <2>6. \A m : DayOf(m, IsAllDay(body)) = DayOf(m, IsAllDay(e))
      BY <2>3 DEF DayOf
    <2>4. CASE f.starts # NoMoment
      <3>1. /\ body \in GoogleEvent /\ body.start = WhenJson(starts, IsAllDay(e))
        BY <1>1, <1>5, <2>1, <2>2, <2>4 DEF GoogleEvent
      <3>2. DateIn(InstantOf(body.start), Home) = DayOf(starts, IsAllDay(e))
        BY <1>1, <1>5, <3>1
      <3> QED
        BY <1>1, <1>4, <2>6, <3>1, <3>2
    <2>5. CASE f.starts = NoMoment
      <3>1. body.start = e.start /\ body \in GoogleEvent
        BY <1>1, <2>1, <2>2, <2>5 DEF GoogleEvent
      <3>2. StartOf(e, f) = ExistingStart(e)
        BY <2>5 DEF StartOf
      <3>3. CASE IsAllDay(e)
        <4>1. ExistingStart(e).date = e.start.date
          BY <3>3 DEF ExistingStart, Zoned
        <4>2. DateIn(InstantOf(e.start), Home) = e.start.date
          BY <1>1, <3>3, DateMoment DEF IsAllDay
        <4> QED
          BY <2>3, <3>1, <3>2, <3>3, <4>1, <4>2 DEF DayOf
      <3>4. CASE ~IsAllDay(e)
        BY <2>3, <3>1, <3>2, <3>4 DEF DayOf, ExistingStart
      <3> QED
        BY <3>3, <3>4
    <2> QED
      BY <2>4, <2>5
  <1> QED
    BY <1>7, <1>8

\* What Google answers is an event at the same instant.
LEMMA ReturnedSame ==
  ASSUME NEW body \in GoogleEvent
  PROVE  /\ Returned(body, GoogleZone) \in GoogleEvent
         /\ Returned(body, GoogleZone) # NoEvent
         /\ InstantOf(Returned(body, GoogleZone).start) = InstantOf(body.start)
         /\ IsAllDay(Returned(body, GoogleZone)) <=> IsAllDay(body)
  <1> DEFINE e == Returned(body, GoogleZone)
  <1>1. /\ body.start \in Moment /\ body.end \in SomeMoment /\ GoogleZone \in Int
        /\ InstantOf(body.start) \in Int /\ InstantOf(body.end) \in Int
    BY InstantTypes, InputAssumption DEF GoogleEvent, SomeMoment
  <1>2. CASE IsAllDay(body)
    BY <1>1, <1>2, MomentParts DEF Returned, NoEvent
  <1>3. CASE ~IsAllDay(body)
    <2>1. e = [start |-> SeenFrom(GoogleZone, InstantOf(body.start)),
               end   |-> SeenFrom(GoogleZone, InstantOf(body.end))]
      BY <1>3 DEF Returned
    <2>2. /\ SeenFrom(GoogleZone, InstantOf(body.start)) \in DateTime
          /\ SeenFrom(GoogleZone, InstantOf(body.end)) \in DateTime
          /\ InstantOf(SeenFrom(GoogleZone, InstantOf(body.start))) = InstantOf(body.start)
      BY <1>1, MomentTypes, SeenIsSame
    <2>3. \A m \in DateTime : m \in Moment /\ m.kind # "date"
      BY DEF DateTime, Moment
    <2>4. e \in GoogleEvent
      BY <2>1, <2>2, <2>3 DEF GoogleEvent, SomeMoment
    <2>5. ~IsAllDay(e)
      BY <2>1, <2>2, <2>3 DEF IsAllDay
    <2>6. e.start # NoMoment
      BY <2>4, MomentParts DEF GoogleEvent
    <2>7. e # NoEvent
      BY <2>6 DEF NoEvent
    <2>8. InstantOf(e.start) = InstantOf(body.start)
      BY <2>1, <2>2
    <2> QED
      BY <1>3, <2>4, <2>5, <2>7, <2>8
  <1> QED
    BY <1>2, <1>3

\* Every row the three sources store is well formed.
LEMMA RowTypes ==
  /\ \A f \in Form : Valid(f) => RowOK(Composed(f))
  /\ \A e \in GoogleEvent : RowOK(GoogleRow(e))
  /\ \A v \in Vevent : RowOK(IcsRow(v))
  <1>1. ASSUME NEW f \in Form, Valid(f)
        PROVE  RowOK(Composed(f))
    <2>1. /\ f.on \in Int /\ f.weekdays \in SUBSET Weekdays /\ f.allday \in BOOLEAN
          /\ f.starts \in NoTime .. Ticks - 1 /\ f.ends \in NoTime .. Ticks - 1
      BY InputAssumption
    <2>2. f.starts \in Int /\ f.ends \in Int /\ Home \in Int
      BY <2>1, ZoneWithinADay DEF NoTime
    <2>3. f.weekly => f.weekdays # {}
      BY <1>1 DEF Valid
    <2>4. Anchor(f) \in Int
      BY <2>1, <2>3, FirstWeekdayExists DEF Anchor
    <2>5. \A t \in Int : Combine(Anchor(f), t, Home) \in Int
      BY <2>2, <2>4, CombineTypes
    <2>6. (IF f.allday THEN 0 ELSE f.starts) \in Int
      BY <2>2
    <2> QED
      BY <2>1, <2>2, <2>5, <2>6 DEF Composed, RowOK, NoTime
  <1>2. ASSUME NEW e \in GoogleEvent
        PROVE  RowOK(GoogleRow(e))
    <2>1. InstantOf(e.start) \in Int /\ InstantOf(e.end) \in Int
      BY InstantTypes DEF GoogleEvent, SomeMoment
    <2> QED
      BY <2>1 DEF GoogleRow, RowOK, IsAllDay
  <1>3. ASSUME NEW v \in Vevent
        PROVE  RowOK(IcsRow(v))
    <2>1. v.start \in Moment /\ v.end \in SomeMoment /\ v.byday \in SUBSET Weekdays
      BY InputAssumption DEF SomeMoment
    <2>2. InstantOf(v.start) \in Int /\ InstantOf(v.end) \in Int /\ v.start.date \in Int
      BY <2>1, InstantTypes, MomentParts DEF SomeMoment
    <2>3. Weekday(v.start.date) \in Weekdays
      BY <2>2 DEF Weekday, Weekdays
    <2>4. SeriesWeekdays(v) \subseteq Weekdays
      BY <2>1, <2>3 DEF SeriesWeekdays
    <2> QED
      BY <2>2, <2>4 DEF IcsRow, RowOK
  <1> QED
    BY <1>1, <1>2, <1>3

\* The first date of a row is a date.
LEMMA FirstDateType ==
  ASSUME NEW row, RowOK(row)
  PROVE  DateIn(row.start, Home) \in Int
  <1>1. row.start \in Int /\ Home \in Int
    BY ZoneWithinADay DEF RowOK
  <1> QED
    BY <1>1, ClockTypes

-----------------------------------------------------------------------------
(* The invariant: types, and what ties a row to what its author wrote.     *)

Shown ==
  /\ today \in FirstDay .. LastDay
  /\ view \in {"month", "week", "day"} /\ o \in Offsets[view]

RowsOK ==
  /\ DOMAIN rows \subseteq Source /\ DOMAIN asked = DOMAIN rows
  /\ \A s \in DOMAIN rows : RowOK(rows[s])

\* What each source has to do with its row.
FormKept(f, row) == f \in Form /\ Valid(f) /\ row = Composed(f)
GoogleKept(day, row, event) == row = GoogleRow(event) /\ day = DateIn(row.start, Home)
IcloudKept(v, row) == v \in Vevent /\ row = IcsRow(v)

AsWritten ==
  /\ "form" \in DOMAIN rows => FormKept(asked["form"], rows["form"])
  /\ "google" \in DOMAIN rows => GoogleKept(asked["google"], rows["google"], google)
  /\ "icloud" \in DOMAIN rows => IcloudKept(asked["icloud"], rows["icloud"])
  /\ "moved" \in DOMAIN rows => IcloudKept(asked["moved"], rows["moved"])

GoogleOK ==
  /\ google \in GoogleEvent \cup {NoEvent}
  /\ ("google" \in DOMAIN rows) = (google # NoEvent)

CalendarInv == Shown /\ RowsOK /\ GoogleOK /\ AsWritten

\* The invariant has TypeOK for a part.
LEMMA CalendarTypes == CalendarInv => TypeOK
  BY DEF CalendarInv, TypeOK, Shown, RowsOK, RowOK, GoogleOK

\* Storing a well-formed row keeps rows and wishes in step and the other rows.
LEMMA StoreKeepsRows ==
  ASSUME RowsOK, NEW s \in Source, NEW row, NEW wish, RowOK(row), Store(s, row, wish)
  PROVE  /\ RowsOK' /\ DOMAIN rows' = DOMAIN rows \cup {s}
         /\ rows'[s] = row /\ asked'[s] = wish
         /\ \A x \in DOMAIN rows : x # s => rows'[x] = rows[x] /\ asked'[x] = asked[x]
  BY DEF RowsOK, Store, With, RowOK

\* Dropping one does, too.
LEMMA DropKeepsRows ==
  ASSUME RowsOK, NEW s, Drop(s)
  PROVE  /\ RowsOK' /\ DOMAIN rows' = DOMAIN rows \ {s}
         /\ \A x \in DOMAIN rows : x # s => rows'[x] = rows[x] /\ asked'[x] = asked[x]
  BY DEF RowsOK, Drop, Without, RowOK

\* What a landed event leaves behind.
LEMMA LandKeeps ==
  ASSUME CalendarInv, NEW e \in GoogleEvent, e # NoEvent, NEW day, Land(e, day),
         day = DateIn(InstantOf(e.start), Home)
  PROVE  CalendarInv'
  <1>1. RowOK(GoogleRow(e)) /\ GoogleRow(e).start = InstantOf(e.start)
    BY RowTypes DEF GoogleRow
  <1>2. "google" \in Source /\ Store("google", GoogleRow(e), day) /\ google' = e
    BY DEF Land, Source
  <1>3. /\ RowsOK' /\ DOMAIN rows' = DOMAIN rows \cup {"google"}
        /\ rows'["google"] = GoogleRow(e) /\ asked'["google"] = day
        /\ \A x \in DOMAIN rows : x # "google" => rows'[x] = rows[x] /\ asked'[x] = asked[x]
    <2>1. RowsOK
      BY DEF CalendarInv
    <2> HIDE DEF RowsOK, RowOK, Store
    <2> QED
      BY <1>1, <1>2, <2>1, StoreKeepsRows
  <1>4. GoogleKept(asked'["google"], rows'["google"], google')
    BY <1>1, <1>2, <1>3 DEF GoogleKept
  <1>5. AsWritten'
    BY <1>3, <1>4 DEF CalendarInv, AsWritten
  <1>6. GoogleOK'
    BY <1>2, <1>3 DEF GoogleOK
  <1>7. Shown'
    BY DEF CalendarInv, Shown, Land
  <1> QED
    BY <1>3, <1>5, <1>6, <1>7 DEF CalendarInv

\* Every step keeps the invariant.
LEMMA CalendarInvStep ==
  ASSUME CalendarInv, [Next]_vars
  PROVE  CalendarInv'
  <1>1. Shown /\ RowsOK /\ GoogleOK /\ AsWritten
    BY DEF CalendarInv
  <1>2. ASSUME NEW v \in DOMAIN Offsets, NEW k \in Offsets[v], Navigate(v, k)
        PROVE  CalendarInv'
    <2>1. Shown'
      BY <1>1, <1>2, DaysAssumption DEF Navigate, Shown
    <2>2. UNCHANGED <<rows, asked, google>>
      BY <1>2 DEF Navigate
    <2> QED
      BY <1>1, <2>1, <2>2 DEF CalendarInv, RowsOK, GoogleOK, AsWritten
  <1>3. CASE Midnight
    <2>1. Shown'
      BY <1>1, <1>3, DaysAssumption DEF Midnight, Shown
    <2>2. UNCHANGED <<rows, asked, google>>
      BY <1>3 DEF Midnight
    <2> QED
      BY <1>1, <2>1, <2>2 DEF CalendarInv, RowsOK, GoogleOK, AsWritten
  <1>4. ASSUME NEW f \in Form, Add(f)
        PROVE  CalendarInv'
    <2>1. Valid(f) /\ Store("form", Composed(f), f) /\ UNCHANGED <<today, view, o, google>>
      BY <1>4 DEF Add
    <2>2. RowOK(Composed(f)) /\ "form" \in Source
      BY <2>1, RowTypes DEF Source
    <2>3. /\ RowsOK' /\ DOMAIN rows' = DOMAIN rows \cup {"form"}
          /\ rows'["form"] = Composed(f) /\ asked'["form"] = f
          /\ \A x \in DOMAIN rows : x # "form" => rows'[x] = rows[x] /\ asked'[x] = asked[x]
      BY <1>1, <2>1, <2>2, StoreKeepsRows
    <2>4. FormKept(asked'["form"], rows'["form"])
      BY <2>1, <2>3 DEF FormKept
    <2>5. AsWritten'
      BY <1>1, <2>1, <2>3, <2>4 DEF AsWritten
    <2>6. Shown' /\ GoogleOK'
      BY <1>1, <2>1, <2>3 DEF Shown, GoogleOK
    <2> QED
      BY <2>3, <2>5, <2>6 DEF CalendarInv
  <1>5. ASSUME NEW req \in Request, CreateOnGoogle(req)
        PROVE  CalendarInv'
    <2> DEFINE e == Returned(EventBody(req), GoogleZone)
               day == DayOf(req.starts, req.allday)
    <2>1. Land(e, day)
      BY <1>5 DEF CreateOnGoogle
    <2>2. EventBody(req) \in GoogleEvent /\ DateIn(InstantOf(EventBody(req).start), Home) = day
      BY BodyDay
    <2>3. e \in GoogleEvent /\ e # NoEvent /\ InstantOf(e.start) = InstantOf(EventBody(req).start)
      BY <2>2, ReturnedSame
    <2> HIDE DEF e, day
    <2> QED
      BY <2>1, <2>2, <2>3, LandKeeps
  <1>6. ASSUME NEW f \in Fields, UpdateOnGoogle(f)
        PROVE  CalendarInv'
    <2> DEFINE body == Merged(google, f)
               e == Returned(body, GoogleZone)
               day == DayOf(StartOf(google, f), IsAllDay(body))
    <2>1. Land(e, day) /\ google \in GoogleEvent
      BY <1>1, <1>6 DEF UpdateOnGoogle, StartOf, GoogleOK
    <2>2. body \in GoogleEvent /\ DateIn(InstantOf(body.start), Home) = day
      BY <2>1, MergedDay
    <2> HIDE DEF body, day
    <2>3. e \in GoogleEvent /\ e # NoEvent /\ InstantOf(e.start) = InstantOf(body.start)
      BY <2>2, ReturnedSame
    <2> HIDE DEF e
    <2> QED
      BY <2>1, <2>2, <2>3, LandKeeps
  <1>7. CASE DeleteOnGoogle
    <2>1. google' = NoEvent /\ Drop("google") /\ UNCHANGED <<today, view, o>>
      BY <1>7 DEF DeleteOnGoogle
    <2>2. /\ RowsOK' /\ DOMAIN rows' = DOMAIN rows \ {"google"}
          /\ \A x \in DOMAIN rows : x # "google" => rows'[x] = rows[x] /\ asked'[x] = asked[x]
      BY <1>1, <2>1, DropKeepsRows
    <2>3. AsWritten'
      BY <1>1, <2>2 DEF AsWritten
    <2>4. Shown' /\ GoogleOK'
      BY <1>1, <2>1, <2>2 DEF Shown, GoogleOK
    <2> QED
      BY <2>2, <2>3, <2>4 DEF CalendarInv
  <1>8. ASSUME NEW v \in Vevent, SyncIcloud(v)
        PROVE  CalendarInv'
    <2> DEFINE src == IcsSource(v)
    <2>1. RowOK(IcsRow(v)) /\ src \in {"icloud", "moved"} /\ src \in Source
      BY RowTypes DEF Source, IcsSource
    <2>2. UNCHANGED <<today, view, o, google>>
          /\ (Drop(src) \/ Store(src, IcsRow(v), v))
      BY <1>8 DEF SyncIcloud
    <2> HIDE DEF src
    <2>3. CASE Drop(src)
      <3>1. /\ RowsOK' /\ DOMAIN rows' = DOMAIN rows \ {src}
            /\ \A x \in DOMAIN rows : x # src => rows'[x] = rows[x] /\ asked'[x] = asked[x]
        BY <1>1, <2>3, DropKeepsRows
      <3>2. AsWritten'
        BY <1>1, <2>1, <2>2, <3>1 DEF AsWritten
      <3>3. Shown' /\ GoogleOK'
        BY <1>1, <2>1, <2>2, <3>1 DEF Shown, GoogleOK
      <3> QED
        BY <3>1, <3>2, <3>3 DEF CalendarInv
    <2>4. CASE Store(src, IcsRow(v), v)
      <3>1. /\ RowsOK' /\ DOMAIN rows' = DOMAIN rows \cup {src}
            /\ rows'[src] = IcsRow(v) /\ asked'[src] = v
            /\ \A x \in DOMAIN rows : x # src => rows'[x] = rows[x] /\ asked'[x] = asked[x]
        BY <1>1, <2>1, <2>4, StoreKeepsRows
      <3>2. IcloudKept(asked'[src], rows'[src])
        BY <3>1 DEF IcloudKept
      <3>3. AsWritten'
        BY <1>1, <2>1, <2>2, <3>1, <3>2 DEF AsWritten
      <3>4. Shown' /\ GoogleOK'
        BY <1>1, <2>1, <2>2, <3>1 DEF Shown, GoogleOK
      <3> QED
        BY <3>1, <3>3, <3>4 DEF CalendarInv
    <2> QED
      BY <2>2, <2>3, <2>4
  <1>9. CASE UNCHANGED vars
    BY <1>1, <1>9 DEF vars, CalendarInv, Shown, RowsOK, GoogleOK, AsWritten
  <1> QED
    BY <1>2, <1>3, <1>4, <1>5, <1>6, <1>7, <1>8, <1>9 DEF Next

\* The invariant holds throughout, for every household zone, every day and
\* every form, request and VEVENT (the ASSUMEs of the constants).
THEOREM CalendarInvariance == Spec => []CalendarInv
  <1>1. Init => CalendarInv
    BY DaysAssumption DEF Init, CalendarInv, Shown, RowsOK, GoogleOK, AsWritten
  <1>2. CalendarInv /\ [Next]_vars => CalendarInv'
    BY CalendarInvStep
  <1> QED
    BY <1>1, <1>2, PTL DEF Spec

\* Type correctness.
THEOREM CalendarTypeCorrect == Spec => []TypeOK
  BY CalendarTypes, CalendarInvariance, PTL

-----------------------------------------------------------------------------
(* The month view.                                                         *)

\* Some months on from a day's month: every day, up to 18 months.
LEMMA ShiftedMonths ==
  ASSUME NEW d \in Int, NEW k \in 0 .. 18
  PROVE  ShiftMonth(d, k) = MonthOf(d) + k
  BY MonthOfDay, MonthsAhead DEF ShiftMonth

\* The month view shows the whole weeks of the month it reached, whatever the
\* day and the offset.
LEMMA WholeMonth ==
  ASSUME today \in Int, o \in Int
  PROVE  MonthIsWhole
  <1> DEFINE m == ShiftMonth(today, o)
             w == Window("month", o)
             end == FirstOf(m + 1) - 1
  <1>1. m \in Int
    <2>1. MonthOf(today) \in Int
      BY MonthOfDay
    <2>2. FirstOf(MonthOf(today)) + 32 * o \in Int
      BY <2>1, MonthsAreEven
    <2> QED
      BY <2>2, MonthOfDay DEF ShiftMonth
  <1> HIDE DEF m
  <1>2. FirstOf(m) \in Int /\ FirstOf(m + 1) - FirstOf(m) \in 28 .. 31 /\ FirstOf(m + 1) \in Int
    BY <1>1, MonthsAreEven, MonthLength
  <1>3. MonthOf(FirstOf(m) + 32) = m + 1
    BY <1>1, <1>2, MonthsAhead
  <1>4. w = <<FirstOf(m) - Weekday(FirstOf(m)), end + 6 - Weekday(end)>>
    BY <1>3 DEF Window, Grid, m
  <1>5. Weekday(FirstOf(m)) \in 0 .. 6 /\ Weekday(end) \in 0 .. 6 /\ end \in Int
    <2>1. end \in Int
      BY <1>2
    <2>2. \A d \in Int : Weekday(d) \in 0 .. 6
      BY DEF Weekday
    <2> QED
      BY <1>2, <2>1, <2>2
  <1>6. \A d \in Int : Weekday(d - Weekday(d)) = 0 /\ Weekday(d + 6 - Weekday(d)) = 6
    BY DEF Weekday
  <1>7. /\ w[1] = FirstOf(m) - Weekday(FirstOf(m)) /\ w[1] \in Int /\ Weekday(w[1]) = 0
        /\ w[2] = end + 6 - Weekday(end) /\ w[2] \in Int /\ Weekday(w[2]) = 6
    BY <1>2, <1>4, <1>5, <1>6
  <1> HIDE DEF w, end
  <1>8. /\ w[1] <= FirstOf(m) /\ FirstOf(m) < w[1] + 7
        /\ w[2] - 7 < end /\ end <= w[2]
    BY <1>2, <1>5, <1>7
  <1>9. ASSUME view = "month", NEW d \in w[1] .. w[2]
        PROVE  InMonth(d) <=> IsMonthOf(m, d)
    <2> DEFINE n == MonthOf(d)
    <2>1. d \in Int /\ n \in Int /\ IsMonthOf(n, d)
      BY <1>7, MonthOfDay
    <2>2. FirstOf(m) - 7 < d /\ d < FirstOf(m + 1) + 7
      BY <1>2, <1>7, <1>8, <2>1 DEF end
    <2>3. m + 2 \in Int /\ FirstOf(m + 2) \in Int /\ FirstOf(n) \in Int /\ FirstOf(n + 1) \in Int
          /\ FirstOf(m - 1) \in Int /\ FirstOf(m - 2) \in Int
      BY <1>1, <2>1, MonthsAreEven
    <2>4. FirstOf(m + 2) - FirstOf(m + 1) \in 28 .. 31
      <3>1. m + 1 \in Int /\ (m + 1) + 1 = m + 2
        BY <1>1
      <3> QED
        BY <3>1, MonthLength
    <2>5. FirstOf(m) - FirstOf(m - 1) \in 28 .. 31
      <3>1. m - 1 \in Int /\ (m - 1) + 1 = m
        BY <1>1
      <3> QED
        BY <3>1, MonthLength
    <2>6. n < m - 1 => FirstOf(n + 1) <= FirstOf(m - 1)
      BY <1>1, <2>1, MonthsInOrder
    <2>7. m + 1 < n => FirstOf(m + 2) <= FirstOf(n)
      <3>1. m + 1 \in Int /\ (m + 1) + 1 = m + 2
        BY <1>1
      <3> QED
        BY <2>1, <3>1, MonthsInOrder
    <2>8. n \in m - 1 .. m + 1
      BY <1>1, <1>2, <2>1, <2>2, <2>3, <2>4, <2>5, <2>6, <2>7 DEF IsMonthOf
    <2>9. n % 12 = m % 12 <=> n = m
      <3> HIDE DEF n
      <3> QED
        BY <1>1, <2>1, <2>8
    <2>10. n = m <=> IsMonthOf(m, d)
      BY <1>1, <2>1, MonthOfIs
    <2> QED
      BY <1>9, <2>9, <2>10 DEF InMonth, m
  <1> QED
    BY <1>7, <1>8, <1>9 DEF MonthIsWhole, m, w, end

\* MonthIsWhole for every day and every offset.
THEOREM MonthViewIsWhole == Spec => []MonthIsWhole
  <1>1. CalendarInv => today \in Int /\ o \in Int
    BY DaysAssumption DEF CalendarInv, Shown
  <1>2. CalendarInv => MonthIsWhole
    BY <1>1, WholeMonth
  <1> QED
    BY <1>2, CalendarInvariance, PTL

\* NextMonthFollows from every day on: no start month is passed over, or shown
\* twice, before the eighteenth step.
THEOREM ForwardNavigationFollows == Spec => []NextMonthFollows
  <1>1. CalendarInv => today \in Int /\ o \in Int
    BY DaysAssumption DEF CalendarInv, Shown
  <1>2. CalendarInv => NextMonthFollows
    <2> SUFFICES ASSUME CalendarInv, view = "month", 0 <= o, o < MonthsInStep
                 PROVE  ShiftMonth(today, o + 1) = ShiftMonth(today, o) + 1
      BY DEF NextMonthFollows
    <2>1. today \in Int /\ o \in 0 .. 18 /\ o + 1 \in 0 .. 18
      BY <1>1 DEF MonthsInStep
    <2>2. MonthOf(today) \in Int
      BY <2>1, MonthOfDay
    <2>3. /\ ShiftMonth(today, o) = MonthOf(today) + o
          /\ ShiftMonth(today, o + 1) = MonthOf(today) + (o + 1)
      BY <2>1, ShiftedMonths
    <2> QED
      BY <2>1, <2>2, <2>3
  <1> QED
    BY <1>2, CalendarInvariance, PTL

-----------------------------------------------------------------------------
(* The badge of a repeated activity.                                       *)

\* The visible window has integer ends.
LEMMA WindowTypes ==
  ASSUME today \in Int, o \in Int, view \in {"month", "week", "day"}
  PROVE  Window(view, o)[1] \in Int /\ Window(view, o)[2] \in Int
  <1>1. CASE view = "month"
    <2> DEFINE first == FirstOf(ShiftMonth(today, o))
               end == FirstOf(MonthOf(first + 32)) - 1
    <2>1. MonthOf(today) \in Int
      BY MonthOfDay
    <2>2. FirstOf(MonthOf(today)) + 32 * o \in Int
      BY <2>1, MonthsAreEven
    <2>3. ShiftMonth(today, o) \in Int
      BY <2>2, MonthOfDay DEF ShiftMonth
    <2>4. first \in Int /\ first + 32 \in Int
      BY <2>3, MonthsAreEven
    <2>5. FirstOf(MonthOf(first + 32)) \in Int
      <3> HIDE DEF first
      <3>1. MonthOf(first + 32) \in Int
        BY <2>4, MonthOfDay
      <3> QED
        BY <3>1, MonthsAreEven
    <2>6. Window(view, o) = <<first - Weekday(first), end + 6 - Weekday(end)>>
      BY <1>1 DEF Window, Grid
    <2> HIDE DEF first
    <2>7. \A d \in Int : Weekday(d) \in Int
      BY DEF Weekday
    <2>8. end \in Int
      BY <2>5
    <2> HIDE DEF end
    <2> QED
      BY <2>4, <2>6, <2>7, <2>8
  <1>2. CASE view = "week"
    <2>1. Weekday(today) \in Int
      BY DEF Weekday
    <2> QED
      BY <1>2, <2>1 DEF Window
  <1>3. CASE view = "day"
    BY <1>3 DEF Window
  <1> QED
    BY <1>1, <1>2, <1>3

\* The occurrences of one event in a range are finitely many.
LEMMA OccurrencesFinite ==
  ASSUME NEW id, NEW row, RowOK(row), NEW from \in Int, NEW to \in Int
  PROVE  IsFiniteSet(Expanded(id, row, from, to))
  <1> DEFINE D == OccurrenceDates(row, from, to)
             occurrence == [d \in D |-> Occurrence(id, row, d)]
  <1>1. IsFiniteSet(D)
    <2>1. DateIn(row.start, Home) \in Int
      BY FirstDateType
    <2>2. D \in SUBSET (from .. to)
      BY <2>1 DEF OccurrenceDates
    <2> QED
      BY <2>2, FS_Interval, FS_Subset
  <1>2. occurrence \in Surjection(D, Expanded(id, row, from, to))
    BY DEF Surjection, Expanded
  <1> QED
    BY <1>1, <1>2, FS_Surjection DEF ExistsSurjection

\* What one event contributes to a range is its own expansion.
LEMMA OwnOccurrences ==
  ASSUME NEW from \in Int, NEW to \in Int, NEW id \in DOMAIN rows, Fetched(rows[id], from, to)
  PROVE  {oc \in RangeOf(rows, from, to) : oc.event = id} = Expanded(id, rows[id], from, to)
  <1>1. \A i, row : \A oc \in Expanded(i, row, from, to) : oc.event = i
    BY DEF Expanded, Occurrence
  <1>2. ASSUME NEW oc \in RangeOf(rows, from, to), oc.event = id
        PROVE  oc \in Expanded(id, rows[id], from, to)
    <2>1. PICK i \in DOMAIN rows : oc \in Expanded(i, rows[i], from, to)
      BY Zenon DEF RangeOf
    <2>2. i = id
      BY <1>1, <1>2, <2>1
    <2> QED
      BY <2>1, <2>2
  <1>3. Expanded(id, rows[id], from, to) \subseteq RangeOf(rows, from, to)
    BY Zenon DEF RangeOf
  <1> QED
    BY <1>1, <1>2, <1>3

\* A series shown on a visible day is found again a week later.
LEMMA SeriesFoundTwice ==
  ASSUME NEW id, NEW row, RowOK(row), row.weekdays # {},
         NEW from \in Int, NEW to \in Int,
         NEW d \in OccurrenceDates(row, from, to), d + 7 <= to
  PROVE  Cardinality(Expanded(id, row, from, to)) > 1
  <1> DEFINE here == Occurrence(id, row, d)
             later == Occurrence(id, row, d + 7)
             all == Expanded(id, row, from, to)
  <1>1. DateIn(row.start, Home) \in Int
    BY FirstDateType
  <1>2. d \in Int /\ Weekday(d) \in row.weekdays
    BY <1>1 DEF OccurrenceDates
  <1>3. Weekday(d + 7) = Weekday(d)
    BY <1>2 DEF Weekday
  <1>4. d + 7 \in OccurrenceDates(row, from, to)
    BY <1>1, <1>2, <1>3 DEF OccurrenceDates
  <1>5. here \in all /\ later \in all
    BY <1>4 DEF Expanded
  <1>6. here.date = d /\ later.date = d + 7
    BY DEF Occurrence
  <1>7. here # later
    BY <1>2, <1>6
  <1> HIDE DEF here, later, all
  <1>8. IsFiniteSet(all) /\ Cardinality(all) \in Nat
    BY OccurrencesFinite, FS_CardinalityType DEF all
  <1>9. IsFiniteSet({here}) /\ Cardinality({here}) = 1
    BY FS_Singleton
  <1>10. Cardinality({here} \cup {later}) = 2
    BY <1>7, <1>9, FS_AddElement
  <1>11. {here} \cup {later} \in SUBSET all
    BY <1>5
  <1>12. Cardinality({here} \cup {later}) <= Cardinality(all)
    BY <1>8, <1>11, FS_Subset
  <1> QED
    BY <1>8, <1>10, <1>12 DEF all

\* A single event is found once.
LEMMA SingleFoundOnce ==
  ASSUME NEW id, NEW row, row.weekdays = {}, NEW from, NEW to,
         NEW oc \in Expanded(id, row, from, to)
  PROVE  Cardinality(Expanded(id, row, from, to)) = 1
  <1>1. \A d \in OccurrenceDates(row, from, to) : d = DateIn(row.start, Home)
    BY DEF OccurrenceDates
  <1>2. Expanded(id, row, from, to) = {oc}
    BY <1>1 DEF Expanded
  <1> QED
    BY <1>2, FS_Singleton

\* Whatever rows there are, the badge is on the weekly ones.
LEMMA BadgeFits ==
  ASSUME CalendarInv
  PROVE  BadgeIsWeekly
  <1> DEFINE w == Window(view, o)
             from == w[1] - PadDays
             to == w[2] + PadDays
             found == Found(w)
  <1>1. today \in Int /\ o \in Int /\ view \in {"month", "week", "day"}
    BY DaysAssumption DEF CalendarInv, Shown
  <1>2. \A s \in DOMAIN rows : s \in Source /\ RowOK(rows[s])
    BY DEF CalendarInv, RowsOK
  <1>3. w[1] \in Int /\ w[2] \in Int
    BY <1>1, WindowTypes
  <1>4. from \in Int /\ to \in Int
    BY <1>3 DEF PadDays
  <1>5. found = RangeOf(rows, from, to)
    BY DEF Found, Padded
  <1> SUFFICES ASSUME NEW d \in w[1] .. w[2], NEW oc \in ShownOn(found, w, d)
               PROVE  oc.event \in RepeatIds(found) <=> rows[oc.event].weekdays # {}
    BY DEF BadgeIsWeekly
  <1>6. oc \in found /\ oc.date = d
    BY DEF ShownOn
  <1>7. d \in Int /\ d + 7 <= to
    BY <1>3 DEF PadDays
  <1> HIDE DEF from, to, found, w
  <1>8. PICK id \in DOMAIN rows : /\ Fetched(rows[id], from, to)
                                  /\ oc \in Expanded(id, rows[id], from, to)
    BY <1>5, <1>6, Zenon DEF RangeOf
  <1>9. oc.event = id /\ d \in OccurrenceDates(rows[id], from, to)
    BY <1>6, <1>8 DEF Expanded, Occurrence
  <1>10. {x \in found : x.event = id} = Expanded(id, rows[id], from, to)
    BY <1>4, <1>5, <1>8, OwnOccurrences
  <1>11. id \in RepeatIds(found) <=> Cardinality(Expanded(id, rows[id], from, to)) > 1
    BY <1>2, <1>8, <1>10 DEF RepeatIds
  <1>12. RowOK(rows[id])
    BY <1>2, <1>8
  <1>13. CASE rows[id].weekdays # {}
    BY <1>4, <1>7, <1>9, <1>11, <1>12, <1>13, SeriesFoundTwice
  <1>14. CASE rows[id].weekdays = {}
    BY <1>8, <1>9, <1>11, <1>14, SingleFoundOnce
  <1> QED
    BY <1>9, <1>13, <1>14

\* BadgeIsWeekly for every view and offset: the pad of a week on either side of
\* the visible window is what the second occurrence of a series needs.
THEOREM BadgeMarksTheSeries == Spec => []BadgeIsWeekly
  <1>1. CalendarInv => BadgeIsWeekly
    BY BadgeFits
  <1> QED
    BY <1>1, CalendarInvariance, PTL

-----------------------------------------------------------------------------
(* Turning a Google event into an all-day one and back.                    *)

\* Read back, an event is on the day its start names.
LEMMA ExistingDay ==
  ASSUME NEW e \in GoogleEvent
  PROVE  /\ ExistingStart(e).date = e.start.date
         /\ IsAllDay(e) => DateIn(InstantOf(ExistingStart(e)), Home) = e.start.date
  <1>1. e.start.date \in Int /\ Home \in Int /\ 0 \in 0 .. Ticks - 1
    BY MomentParts, ZoneWithinADay DEF GoogleEvent, SomeMoment
  <1>2. CASE IsAllDay(e)
    <2>1. ExistingStart(e) = Zoned(e.start.date, 0, Home)
      BY <1>2 DEF ExistingStart
    <2>2. InstantOf(Zoned(e.start.date, 0, Home)) = Combine(e.start.date, 0, Home)
      BY DEF Zoned, InstantOf
    <2>3. DateIn(Combine(e.start.date, 0, Home), Home) = e.start.date
      BY <1>1, CombinedShows
    <2> QED
      BY <2>1, <2>2, <2>3 DEF Zoned
  <1>3. CASE ~IsAllDay(e)
    BY <1>3 DEF ExistingStart
  <1> QED
    BY <1>2, <1>3

\* ToggleKeepsDay for every event, update and pair of zones.
THEOREM TogglingKeepsTheDay == Spec => ToggleKeepsDay
  <1> DEFINE SameDayKept ==
        \A f \in Fields :
          /\ Toggled /\ f.starts = NoMoment /\ google' = Returned(Merged(google, f), GoogleZone)
          /\ google.start.date = DateIn(rows["google"].start, Home)
          => DateIn(rows["google"].start, Home)' = DateIn(rows["google"].start, Home)
  <1>1. CalendarInv /\ CalendarInv' /\ [Next]_vars => [SameDayKept]_vars
    <2> SUFFICES ASSUME CalendarInv, CalendarInv', NEW f \in Fields,
                        Toggled, f.starts = NoMoment,
                        google' = Returned(Merged(google, f), GoogleZone),
                        google.start.date = DateIn(rows["google"].start, Home)
                 PROVE  DateIn(rows["google"].start, Home)' = DateIn(rows["google"].start, Home)
      OBVIOUS
    <2> DEFINE body == Merged(google, f)
    <2>1. google \in GoogleEvent /\ google' # NoEvent
      BY DEF CalendarInv, GoogleOK, Toggled
    <2>2. rows'["google"] = GoogleRow(google')
      BY <2>1 DEF CalendarInv, GoogleOK, AsWritten, GoogleKept
    <2>3. body \in GoogleEvent
          /\ DateIn(InstantOf(body.start), Home) = DayOf(StartOf(google, f), IsAllDay(body))
      BY <2>1, MergedDay
    <2>4. StartOf(google, f) = ExistingStart(google)
      BY DEF StartOf
    <2>5. InstantOf(google'.start) = InstantOf(body.start) /\ (IsAllDay(google') <=> IsAllDay(body))
      BY <2>3, ReturnedSame
    <2>6. rows'["google"].start = InstantOf(body.start)
      BY <2>2, <2>5 DEF GoogleRow
    <2> HIDE DEF body
    <2>7. DayOf(ExistingStart(google), IsAllDay(body)) = google.start.date
      <3>1. CASE IsAllDay(body)
        BY <2>1, <3>1, ExistingDay DEF DayOf
      <3>2. CASE ~IsAllDay(body)
        <4>1. IsAllDay(google)
          <5>1. ~IsAllDay(google')
            BY <2>5, <3>2
          <5>2. ~((google.start.kind = "date") = (google'.start.kind = "date"))
            BY DEF Toggled, IsAllDay
          <5> QED
            BY <5>1, <5>2, Zenon DEF IsAllDay
        <4> QED
          BY <2>1, <3>2, <4>1, ExistingDay DEF DayOf
      <3> QED
        BY <3>1, <3>2
    <2> QED
      BY <2>3, <2>4, <2>6, <2>7
  <1> QED
    BY <1>1, CalendarInvariance, PTL DEF Spec, ToggleKeepsDay

-----------------------------------------------------------------------------
(* What is shown, and what was asked for.                                  *)

\* The days a stored row is about.
OccursOn(row, d) ==
  LET first == DateIn(row.start, Home)
  IN  IF row.weekdays = {} THEN d = first ELSE first <= d /\ Weekday(d) \in row.weekdays

\* A row is fetched and expanded on exactly those of a range.
LEMMA FoundWhereItOccurs ==
  ASSUME NEW row, RowOK(row), NEW from \in Int, NEW to \in Int, NEW d \in from .. to
  PROVE  Fetched(row, from, to) /\ d \in OccurrenceDates(row, from, to) <=> OccursOn(row, d)
  <1> DEFINE first == DateIn(row.start, Home)
  <1>1. first \in Int /\ d \in Int /\ row.start \in Int /\ Home \in Int /\ Ticks \in Nat \ {0}
    BY FirstDateType, ZoneWithinADay DEF RowOK
  <1>2. d \in OccurrenceDates(row, from, to) <=> OccursOn(row, d)
    <2> HIDE DEF first
    <2> QED
      BY <1>1 DEF OccurrenceDates, OccursOn, first
  <1>3. /\ first * Ticks <= row.start + Home /\ row.start + Home < (first + 1) * Ticks
        /\ first * Ticks \in Int
    BY <1>1 DEF DateIn
  <1> HIDE DEF first
  <1>4. OccursOn(row, d) => first <= d /\ (row.weekdays = {} => first = d)
    BY <1>1 DEF OccursOn, first
  <1>5. ASSUME first <= d
        PROVE  row.start < Combine(to + 1, 0, Home)
    <2>1. first + 1 <= to + 1
      BY <1>1, <1>5
    <2>2. (first + 1) * Ticks <= (to + 1) * Ticks
      BY <1>1, <2>1
    <2>3. (to + 1) * Ticks \in Int /\ (first + 1) * Ticks \in Int
      BY <1>1
    <2>4. \A x, y \in Int : row.start + Home < x /\ x <= y => row.start < y + (0 - Home)
      BY <1>1
    <2> QED
      BY <1>3, <2>2, <2>3, <2>4 DEF Combine
  <1>6. ASSUME first = d
        PROVE  Combine(from, 0, Home) <= row.start
    <2>1. from * Ticks <= first * Ticks /\ from * Ticks \in Int
      BY <1>1, <1>6
    <2>2. \A x, y \in Int : y <= row.start + Home /\ x <= y => x + (0 - Home) <= row.start
      BY <1>1
    <2> QED
      BY <1>3, <2>1, <2>2 DEF Combine
  <1>7. OccursOn(row, d) => Fetched(row, from, to)
    BY <1>4, <1>5, <1>6 DEF Fetched, WindowBounds
  <1> QED
    BY <1>2, <1>7

\* What a page shows of an event on a visible day.
LEMMA ShownWhereItOccurs ==
  ASSUME CalendarInv, NEW s \in DOMAIN rows,
         NEW d \in Window(view, o)[1] .. Window(view, o)[2]
  PROVE  LET w == Window(view, o)
             shown == {oc \in ShownOn(Found(w), w, d) : oc.event = s}
         IN  /\ shown # {} <=> OccursOn(rows[s], d)
             /\ \A oc \in shown : oc = Occurrence(s, rows[s], d)
  <1> DEFINE w == Window(view, o)
             from == w[1] - PadDays
             to == w[2] + PadDays
             found == Found(w)
             shown == {oc \in ShownOn(found, w, d) : oc.event = s}
  <1>1. today \in Int /\ o \in Int /\ view \in {"month", "week", "day"} /\ RowOK(rows[s])
    BY DaysAssumption DEF CalendarInv, Shown, RowsOK
  <1>2. w[1] \in Int /\ w[2] \in Int
    BY <1>1, WindowTypes
  <1>3. from \in Int /\ to \in Int /\ d \in from .. to /\ w[1] <= d /\ d <= w[2]
    BY <1>2 DEF PadDays
  <1>4. found = RangeOf(rows, from, to)
    BY DEF Found, Padded
  <1> HIDE DEF from, to, found, w
  <1>5. OccursOn(rows[s], d) <=> Fetched(rows[s], from, to) /\ d \in OccurrenceDates(rows[s], from, to)
    BY <1>1, <1>3, FoundWhereItOccurs
  <1>6. ASSUME NEW oc \in shown
        PROVE  OccursOn(rows[s], d) /\ oc = Occurrence(s, rows[s], d)
    <2>1. oc \in found /\ oc.date = d /\ oc.event = s
      BY DEF ShownOn
    <2>2. PICK i \in DOMAIN rows : Fetched(rows[i], from, to) /\ oc \in Expanded(i, rows[i], from, to)
      BY <1>4, <2>1, Zenon DEF RangeOf
    <2>3. PICK e \in OccurrenceDates(rows[i], from, to) : oc = Occurrence(i, rows[i], e)
      BY <2>2 DEF Expanded
    <2>4. i = s /\ e = d
      BY <2>1, <2>3 DEF Occurrence
    <2> QED
      BY <1>5, <2>2, <2>3, <2>4
  <1>7. ASSUME OccursOn(rows[s], d)
        PROVE  Occurrence(s, rows[s], d) \in shown
    <2>1. Fetched(rows[s], from, to) /\ d \in OccurrenceDates(rows[s], from, to)
      BY <1>5, <1>7
    <2>2. Occurrence(s, rows[s], d) \in Expanded(s, rows[s], from, to)
      BY <2>1 DEF Expanded
    <2>3. Occurrence(s, rows[s], d) \in found
      BY <1>4, <2>1, <2>2, Zenon DEF RangeOf
    <2> QED
      BY <1>3, <2>3 DEF ShownOn, Occurrence
  <1> QED
    BY <1>6, <1>7 DEF w, found

\* The form: a single activity on the date typed, a series from the first of
\* its weekdays on, both at the hours typed.
LEMMA FormAsTyped ==
  ASSUME NEW f, NEW row, FormKept(f, row), NEW d \in Int
  PROVE  /\ OccursOn(row, d) <=> IF f.weekly THEN d >= f.on /\ Weekday(d) \in f.weekdays
                                 ELSE d = f.on
         /\ <<Occurrence("form", row, d).from, Occurrence("form", row, d).to>> = Hours(f)
  <1>1. /\ f \in Form /\ Valid(f) /\ row = Composed(f)
        /\ f.on \in Nat \ {0} /\ f.weekdays \in SUBSET Weekdays
        /\ f.starts \in NoTime .. Ticks - 1 /\ f.ends \in NoTime .. Ticks - 1
    BY InputAssumption DEF FormKept
  <1>2. Ticks \in Nat \ {0} /\ Home \in (1 - Ticks) .. (Ticks - 1) /\ Home \in Int
    BY ZoneWithinADay
  <1> DEFINE anchor == Anchor(f)
             time == IF f.allday THEN 0 ELSE f.starts
  <1>3. /\ f.weekly => f.weekdays # {}
        /\ time \in 0 .. Ticks - 1
        /\ ~f.allday => time = f.starts
        /\ ~f.allday /\ f.ends # NoTime => f.ends \in 0 .. Ticks - 1
    BY <1>1, <1>2 DEF Valid, NoTime
  <1>4. /\ anchor \in Int /\ anchor >= f.on
        /\ f.weekly => /\ Weekday(anchor) \in f.weekdays
                       /\ \A b \in f.on .. anchor - 1 : Weekday(b) \notin f.weekdays
        /\ ~f.weekly => anchor = f.on
    <2>1. f.on \in Int
      BY <1>1
    <2> QED
      BY <1>1, <1>3, <2>1, FirstWeekdayExists DEF Anchor
  <1> HIDE DEF anchor, time
  <1>5. /\ row.start = Combine(anchor, time, Home) /\ row.allday = f.allday
        /\ row.weekdays = IF f.weekly THEN f.weekdays ELSE {}
        /\ row.end = IF f.allday \/ f.ends = NoTime THEN NoTime
                     ELSE Combine(anchor, f.ends, Home)
    BY <1>1 DEF Composed, anchor, time
  <1>6. DateIn(row.start, Home) = anchor /\ TimeIn(row.start, Home) = time
    BY <1>2, <1>3, <1>4, <1>5, CombinedShows
  <1>7. OccursOn(row, d) <=> IF f.weekly THEN d >= f.on /\ Weekday(d) \in f.weekdays
                             ELSE d = f.on
    <2>1. CASE f.weekly
      <3>1. OccursOn(row, d) <=> anchor <= d /\ Weekday(d) \in f.weekdays
        BY <1>3, <1>5, <1>6, <2>1 DEF OccursOn
      <3>2. d >= f.on /\ Weekday(d) \in f.weekdays => anchor <= d
        BY <1>1, <1>4, <2>1
      <3>3. anchor <= d => d >= f.on
        BY <1>1, <1>4
      <3> QED
        BY <2>1, <3>1, <3>2, <3>3
    <2>2. CASE ~f.weekly
      BY <1>4, <1>5, <1>6, <2>2 DEF OccursOn
    <2> QED
      BY <2>1, <2>2
  <1>8. <<Occurrence("form", row, d).from, Occurrence("form", row, d).to>> = Hours(f)
    <2>1. CASE f.allday
      BY <1>5, <2>1 DEF Occurrence, Hours
    <2>2. CASE ~f.allday /\ f.ends = NoTime
      BY <1>3, <1>5, <1>6, <2>2 DEF Occurrence, Hours
    <2>3. CASE ~f.allday /\ f.ends # NoTime
      <3>1. row.end = Combine(anchor, f.ends, Home) /\ f.ends \in 0 .. Ticks - 1
        BY <1>3, <1>5, <2>3
      <3>2. TimeIn(row.end, Home) = f.ends
        BY <1>2, <1>4, <3>1, CombinedShows
      <3>3. row.end # NoTime
        <4>1. anchor >= 1
          BY <1>1, <1>4
        <4>2. anchor * Ticks >= Ticks /\ anchor * Ticks \in Int
          BY <1>2, <1>4, <4>1
        <4>3. f.ends - Home > 0 - Ticks /\ f.ends - Home \in Int
          BY <1>2, <3>1
        <4>4. \A x, y \in Int : x >= Ticks /\ y > 0 - Ticks => x + y # -1
          BY <1>2
        <4> QED
          BY <3>1, <4>2, <4>3, <4>4 DEF Combine, NoTime
      <3> QED
        BY <1>3, <1>5, <1>6, <2>3, <3>2, <3>3 DEF Occurrence, Hours
    <2> QED
      BY <2>1, <2>2, <2>3
  <1> QED
    BY <1>7, <1>8

\* Google: the day of the request, with no series.
LEMMA GoogleAsAsked ==
  ASSUME NEW day, NEW row, NEW event, GoogleKept(day, row, event), NEW d
  PROVE  OccursOn(row, d) <=> d = day
  BY DEF GoogleKept, GoogleRow, OccursOn

\* iCloud: moved by whole days, a VEVENT is moved by as many in the household.
LEMMA MovedDay ==
  ASSUME NEW m \in Moment, NEW e \in Int
  PROVE  DateIn(InstantOf([m EXCEPT !.date = e]), Home) = DateIn(InstantOf(m), Home) + (e - m.date)
  <1>1. m.date \in Int /\ m.time \in Int /\ m.zone \in Int /\ Home \in Int /\ m.kind # "none"
    BY MomentParts DEF SomeMoment
  <1> DEFINE moved == [m EXCEPT !.date = e]
             zone == IF m.kind = "zoned" THEN m.zone ELSE Home
  <1>2. moved.date = e /\ moved.time = m.time /\ moved.zone = m.zone /\ moved.kind = m.kind
    BY DEF Moment, DateTime
  <1>3. InstantOf(moved) = Combine(e, m.time, zone) /\ InstantOf(m) = Combine(m.date, m.time, zone)
    BY <1>1, <1>2 DEF InstantOf
  <1>4. zone \in Int
    BY <1>1
  <1> HIDE DEF zone, moved
  <1>5. DateIn(Combine(e, m.time, zone), Home)
          = DateIn(Combine(m.date, m.time, zone), Home) + (e - m.date)
    BY <1>1, <1>4, DaysLater
  <1> QED
    BY <1>3, <1>5 DEF moved

\* The VEVENT takes place on day d of the household, but on the dates in `gone`.
Falling(v, gone, d) ==
  \E e \in d - 1 .. d + 1 :
    Falls(v, e) /\ e \notin gone /\ DateIn(InstantOf([v.start EXCEPT !.date = e]), Home) = d

\* Where the zones agree on its first day, they agree on all of them.
LEMMA FallingIsFalls ==
  ASSUME NEW v \in Vevent, SameDay(v), NEW gone, NEW d \in Int
  PROVE  Falling(v, gone, d) <=> Falls(v, d) /\ d \notin gone
  <1>1. v.start \in Moment /\ v.start.date \in Int
    BY InputAssumption, MomentParts DEF SomeMoment
  <1>2. ASSUME NEW e \in Int
        PROVE  DateIn(InstantOf([v.start EXCEPT !.date = e]), Home) = e
    <2>1. DateIn(InstantOf([v.start EXCEPT !.date = e]), Home) = v.start.date + (e - v.start.date)
      BY <1>1, MovedDay DEF SameDay
    <2> QED
      BY <1>1, <2>1
  <1>3. ASSUME NEW e \in d - 1 .. d + 1, DateIn(InstantOf([v.start EXCEPT !.date = e]), Home) = d
        PROVE  e = d
    <2>1. e \in Int
      OBVIOUS
    <2> QED
      BY <1>2, <1>3, <2>1
  <1>4. d \in d - 1 .. d + 1 /\ DateIn(InstantOf([v.start EXCEPT !.date = d]), Home) = d
    BY <1>2
  <1> QED
    BY <1>3, <1>4, Zenon DEF Falling

\* A VEVENT that the connector keeps falls on the days its row occurs on.
LEMMA IcloudAsHeld ==
  ASSUME NEW v, NEW row, IcloudKept(v, row), SameDay(v), NEW d \in Int
  PROVE  /\ Falls(v, d) /\ Kept(v, d) => OccursOn(row, d)
         /\ OccursOn(row, d) /\ Expressible(v) /\ d \notin v.excluded => Falls(v, d)
  <1>1. /\ v \in Vevent /\ v.start \in Moment /\ v.start.date \in Int /\ row = IcsRow(v)
        /\ v.freq \in {"none", "daily", "weekly", "monthly"} /\ v.byday \in SUBSET Weekdays
    BY InputAssumption, MomentParts DEF IcloudKept, SomeMoment
  <1>2. DateIn(row.start, Home) = v.start.date /\ row.weekdays = SeriesWeekdays(v)
    BY <1>1 DEF IcsRow, SameDay
  <1>3. /\ Weekday(v.start.date) \in Weekdays /\ Weekday(d) \in Weekdays /\ Weekdays # {}
        /\ \A n \in Int : n % 1 = 0
    BY <1>1 DEF Weekday, Weekdays
  <1>4. CASE v.freq = "daily"
    <2>1. row.weekdays = Weekdays
      BY <1>2, <1>4 DEF SeriesWeekdays
    <2>2. OccursOn(row, d) <=> v.start.date <= d
      BY <1>2, <1>3, <2>1 DEF OccursOn
    <2>3. Falls(v, d) /\ d \notin v.added => v.start.date <= d
      BY DEF Falls
    <2>4. v.start.date <= d /\ Expressible(v) /\ d \notin v.excluded => Falls(v, d)
      <3>1. d - v.start.date \in Int
        BY <1>1
      <3> QED
        BY <1>3, <1>4, <3>1 DEF Falls, Expressible
    <2> QED
      BY <2>2, <2>3, <2>4 DEF Kept
  <1>5. CASE v.freq = "weekly"
    <2> DEFINE days == IF v.byday = {} THEN {Weekday(v.start.date)} ELSE v.byday
    <2>1. row.weekdays = days /\ days # {}
      BY <1>2, <1>5 DEF SeriesWeekdays
    <2>2. OccursOn(row, d) <=> v.start.date <= d /\ Weekday(d) \in days
      BY <1>2, <2>1 DEF OccursOn
    <2>3. Falls(v, d) /\ d \notin v.added => v.start.date <= d /\ Weekday(d) \in days
      BY <1>5, <2>1 DEF Falls
    <2>4. v.start.date <= d /\ Weekday(d) \in days /\ Expressible(v) /\ d \notin v.excluded
            => Falls(v, d)
      <3>1. WeekOf(d) - WeekOf(v.start.date) \in Int
        BY <1>1 DEF WeekOf
      <3> QED
        BY <1>3, <1>5, <3>1 DEF Falls, Expressible
    <2> QED
      BY <2>2, <2>3, <2>4 DEF Kept
  <1>6. CASE v.freq \in {"none", "monthly"}
    <2>1. row.weekdays = {}
      BY <1>2, <1>6 DEF SeriesWeekdays
    <2>2. OccursOn(row, d) <=> d = v.start.date
      BY <1>2, <2>1 DEF OccursOn
    <2>3. Falls(v, d) /\ Kept(v, d) => d = v.start.date
      BY <1>6 DEF Falls, Kept
    <2>4. d = v.start.date /\ Expressible(v) /\ d \notin v.excluded => Falls(v, d)
      <3>1. MonthOf(v.start.date) - MonthOf(v.start.date) \in Int
        BY <1>1, MonthOfDay
      <3> QED
        BY <1>1, <1>3, <1>6, <3>1 DEF Falls, Expressible
    <2> QED
      BY <2>2, <2>3, <2>4
  <1> QED
    BY <1>1, <1>4, <1>5, <1>6

\* A page shows what was asked for.
LEMMA PageFits ==
  ASSUME CalendarInv
  PROVE  ShownAsAsked
  <1> DEFINE w == Window(view, o)
             found == Found(w)
             shown(s, d) == {oc \in ShownOn(found, w, d) : oc.event = s}
             ics(s) == s \in {"icloud", "moved"}
  <1>1. today \in Int /\ o \in Int /\ view \in {"month", "week", "day"}
    BY DaysAssumption DEF CalendarInv, Shown
  <1>2. w[1] \in Int /\ w[2] \in Int
    BY <1>1, WindowTypes
  <1>3. ASSUME NEW s \in DOMAIN rows, NEW d \in w[1] .. w[2]
        PROVE  /\ Happens(s, d) /\ (ics(s) => Kept(asked[s], d)) => shown(s, d) # {}
               /\ shown(s, d) # {} /\ (ics(s) => Expressible(asked[s]) /\ d \notin TakenOut(s))
                    => Happens(s, d)
               /\ s = "form" => \A oc \in shown(s, d) : <<oc.from, oc.to>> = Hours(asked[s])
    <2>1. /\ shown(s, d) # {} <=> OccursOn(rows[s], d)
          /\ \A oc \in shown(s, d) : oc = Occurrence(s, rows[s], d)
      BY <1>3, ShownWhereItOccurs
    <2>2. d \in Int /\ s \in {"form", "google", "icloud", "moved"}
      BY <1>2 DEF CalendarInv, RowsOK, Source
    <2> HIDE DEF shown, found, w
    <2>3. CASE s = "form"
      <3>1. FormKept(asked[s], rows[s])
        BY <2>3 DEF CalendarInv, AsWritten
      <3>2. OccursOn(rows[s], d) <=> Happens(s, d)
        BY <2>2, <2>3, <3>1, FormAsTyped DEF Happens
      <3>3. <<Occurrence(s, rows[s], d).from, Occurrence(s, rows[s], d).to>> = Hours(asked[s])
        BY <2>2, <2>3, <3>1, FormAsTyped
      <3> QED
        BY <2>1, <2>3, <3>2, <3>3
    <2>4. CASE s = "google"
      <3>1. GoogleKept(asked[s], rows[s], google)
        BY <2>4 DEF CalendarInv, AsWritten
      <3>2. OccursOn(rows[s], d) <=> Happens(s, d)
        BY <2>4, <3>1, GoogleAsAsked DEF Happens
      <3> QED
        BY <2>1, <2>4, <3>2
    <2>5. CASE ics(s)
      <3>1. IcloudKept(asked[s], rows[s]) /\ asked[s] \in Vevent
        BY <2>5 DEF CalendarInv, AsWritten, IcloudKept
      <3>2. Happens(s, d) <=> Falling(asked[s], Replaced(s), d)
        BY <2>5 DEF Happens, Falling
      <3>3. SameDay(asked[s]) =>
              /\ Falls(asked[s], d) /\ Kept(asked[s], d) => OccursOn(rows[s], d)
              /\ OccursOn(rows[s], d) /\ Expressible(asked[s]) /\ d \notin asked[s].excluded
                   => Falls(asked[s], d)
              /\ Falling(asked[s], Replaced(s), d) <=> Falls(asked[s], d) /\ d \notin Replaced(s)
        BY <2>2, <3>1, IcloudAsHeld, FallingIsFalls
      <3>4. /\ Expressible(asked[s]) => SameDay(asked[s])
            /\ Kept(asked[s], d) => SameDay(asked[s])
            /\ d \notin TakenOut(s) => d \notin asked[s].excluded /\ d \notin Replaced(s)
        BY DEF Expressible, Kept, TakenOut
      <3> QED
        BY <2>1, <2>5, <3>2, <3>3, <3>4
    <2> QED
      BY <2>2, <2>3, <2>4, <2>5
  <1> QED
    BY <1>3 DEF ShownAsAsked

\* ShownAsAsked for every zone of the household, of Google and of the VEVENTs,
\* every day, view and offset.
THEOREM PagesShowWhatWasAsked == Spec => []ShownAsAsked
  <1>1. CalendarInv => ShownAsAsked
    BY PageFits
  <1> QED
    BY <1>1, CalendarInvariance, PTL

-----------------------------------------------------------------------------
(* Meals.                                                                  *)

\* A request holds a dish as it was read; what it read is what is stored, unless
\* another edit of the dish came between or the dish is gone.
EditHeld(r, stock, kept) ==
  /\ r.pc = "edit" /\ r = [f \in {"pc", "dish", "old", "new", "overlapped"} |-> r[f]]
  /\ r.dish \in Dishes /\ r.dish \in DOMAIN kept /\ r.new \in M!Values
  /\ r.dish \in DOMAIN stock /\ ~r.overlapped => r.old = stock[r.dish]

PlanHeld(r) == r.pc = "plan" /\ r.name \in Names

RequestsHeld ==
  /\ request = [b \in Browsers |-> request[b]]
  /\ \A b \in Browsers : request[b] = M!Ready \/ EditHeld(request[b], dishes, saved) \/ PlanHeld(request[b])

\* A planned meal has three fields.
MealRows ==
  \A i \in DOMAIN meals : meals[i] = [f \in {"on", "dish", "name"} |-> meals[i][f]]

\* The inductive invariant of the meals and dishes pages.
MealsInv ==
  /\ M!MealsTypeOK /\ MealRows /\ RequestsHeld /\ MealsOutliveDishes /\ DishIsOneEdit

\* At first there is no dish, no meal and no request.
LEMMA MealsInit == PortalInit => MealsInv
  <1> SUFFICES ASSUME PortalInit PROVE MealsInv
    OBVIOUS
  <1>1. /\ date = FirstDate /\ dishes = <<>> /\ meals = <<>> /\ saved = <<>> /\ torn = {}
        /\ request = [b \in Browsers |-> M!Ready]
    BY DEF PortalInit, M!MealsInit
  <1>2. DOMAIN <<>> = {}
    OBVIOUS
  <1>3. M!Ready.pc = "ready"
    BY DEF M!Ready
  <1>4. M!MealsTypeOK
    BY <1>1, <1>2, <1>3, DatesAssumption DEF M!MealsTypeOK
  <1>5. MealRows /\ RequestsHeld
    BY <1>1, <1>2 DEF MealRows, RequestsHeld
  <1>6. MealsOutliveDishes /\ DishIsOneEdit
    BY <1>1, <1>2 DEF MealsOutliveDishes, DishIsOneEdit, M!MealsOutliveDishes, M!DishIsOneEdit
  <1> QED
    BY <1>4, <1>5, <1>6 DEF MealsInv

\* A request is ready, holds a dish or holds a dish's name.
LEMMA RequestPc ==
  ASSUME RequestsHeld, NEW b \in Browsers
  PROVE  request[b].pc \in {"ready", "edit", "plan"} /\ (request[b].pc = "edit" => EditHeld(request[b], dishes, saved))
         /\ (request[b].pc = "plan" => PlanHeld(request[b]))
  BY DEF RequestsHeld, EditHeld, PlanHeld, M!Ready

\* A new dish is stored as it was sent.
LEMMA CreateDishKeeps ==
  ASSUME MealsInv, NEW d \in Dishes, NEW v \in M!Values, M!CreateDish(d, v)
  PROVE  MealsInv'
  <1>1. /\ d \notin DOMAIN saved /\ dishes' = M!Put(dishes, d, v) /\ saved' = M!Put(saved, d, v)
        /\ UNCHANGED <<date, meals, request, torn>>
    BY DEF M!CreateDish
  <1>2. /\ DOMAIN dishes' = DOMAIN dishes \cup {d} /\ dishes'[d] = v
        /\ DOMAIN saved' = DOMAIN saved \cup {d} /\ saved'[d] = v
        /\ \A k \in DOMAIN dishes \ {d} : dishes'[k] = dishes[k]
        /\ \A k \in DOMAIN saved \ {d} : saved'[k] = saved[k]
    BY <1>1 DEF M!Put
  <1>3. DOMAIN dishes \subseteq DOMAIN saved
    BY DEF MealsInv, M!MealsTypeOK
  <1>4. M!MealsTypeOK'
    BY <1>1, <1>2 DEF MealsInv, M!MealsTypeOK
  <1>5. MealRows' /\ MealsOutliveDishes'
    BY <1>1, <1>2 DEF MealsInv, MealRows, MealsOutliveDishes, M!MealsOutliveDishes
  <1>6. RequestsHeld'
    <2>1. ASSUME NEW b \in Browsers, EditHeld(request[b], dishes, saved)  PROVE EditHeld(request[b], dishes', saved')
      BY <1>1, <1>2, <2>1 DEF EditHeld
    <2> QED
      BY <1>1, <2>1 DEF MealsInv, RequestsHeld, M!Ready
  <1>7. DishIsOneEdit'
    BY <1>1, <1>2, <1>3 DEF MealsInv, DishIsOneEdit, M!DishIsOneEdit
  <1> QED
    BY <1>4, <1>5, <1>6, <1>7 DEF MealsInv

\* A deleted dish is taken out of the meals that refer to it.
LEMMA DeleteDishKeeps ==
  ASSUME MealsInv, NEW d \in Dishes, M!DeleteDish(d)
  PROVE  MealsInv'
  <1>1. /\ dishes' = [k \in DOMAIN dishes \ {d} |-> dishes[k]]
        /\ meals' = [i \in DOMAIN meals |->
             IF meals[i].dish = d THEN [meals[i] EXCEPT !.dish = M!NoDish] ELSE meals[i]]
        /\ UNCHANGED <<date, request, saved, torn>>
    BY DEF M!DeleteDish, M!Less
  <1>4. M!MealsTypeOK'
    BY <1>1 DEF MealsInv, M!MealsTypeOK
  <1>5. \A i \in DOMAIN meals :
          /\ meals'[i] = [f \in {"on", "dish", "name"} |-> meals'[i][f]]
          /\ meals'[i].name = meals[i].name
          /\ meals'[i].dish = IF meals[i].dish = d THEN M!NoDish ELSE meals[i].dish
    BY <1>1 DEF MealsInv, MealRows
  <1>6. MealRows' /\ MealsOutliveDishes'
    <2>1. DOMAIN meals' = DOMAIN meals /\ DOMAIN dishes' = DOMAIN dishes \ {d}
      BY <1>1
    <2>2. M!NoDish' = M!NoDish
      BY DEF M!NoDish
    <2> QED
      BY <1>5, <2>1, <2>2 DEF MealsInv, MealRows, MealsOutliveDishes, M!MealsOutliveDishes, M!OneOff, M!NoDish
  <1>7. RequestsHeld'
    <2>1. ASSUME NEW b \in Browsers, EditHeld(request[b], dishes, saved)  PROVE EditHeld(request[b], dishes', saved')
      BY <1>1, <2>1 DEF EditHeld
    <2> QED
      BY <1>1, <2>1 DEF MealsInv, RequestsHeld, M!Ready
  <1>8. DishIsOneEdit'
    BY <1>1 DEF MealsInv, DishIsOneEdit, M!DishIsOneEdit
  <1> QED
    BY <1>4, <1>6, <1>7, <1>8 DEF MealsInv

\* A request that begins or ends, beside whatever the step does to the meals.
LEMMA RequestKeeps ==
  ASSUME MealsInv, NEW b \in Browsers, NEW s, request' = [request EXCEPT ![b] = s],
         s = M!Ready \/ EditHeld(s, dishes, saved) \/ PlanHeld(s), UNCHANGED <<date, dishes, saved, torn>>
  PROVE  /\ RequestsHeld' /\ DishIsOneEdit'
         /\ UNCHANGED meals => MealsInv'
         /\ DOMAIN meals' \subseteq 1 .. MaxMeals /\ MealRows' /\ MealsOutliveDishes' => MealsInv'
  <1>1. request' = [c \in Browsers |-> IF c = b THEN s ELSE request[c]]
    BY DEF MealsInv, RequestsHeld
  <1>2. ASSUME NEW r, r = M!Ready \/ EditHeld(r, dishes, saved) \/ PlanHeld(r)
        PROVE  /\ r = M!Ready' \/ EditHeld(r, dishes', saved') \/ PlanHeld(r)
               /\ r.pc \in {"ready", "edit", "plan"}
    BY <1>2 DEF EditHeld, PlanHeld, M!Ready, M!Values
  <1>3. ASSUME NEW c \in Browsers  PROVE request'[c] = M!Ready \/ EditHeld(request'[c], dishes, saved) \/ PlanHeld(request'[c])
    BY <1>1 DEF MealsInv, RequestsHeld
  <1>4. RequestsHeld'
    BY <1>1, <1>2, <1>3 DEF RequestsHeld, EditHeld, PlanHeld, M!Ready, M!Values
  <1>5. DishIsOneEdit'
    BY DEF MealsInv, DishIsOneEdit, M!DishIsOneEdit
  <1>6. ASSUME DOMAIN meals' \subseteq 1 .. MaxMeals  PROVE M!MealsTypeOK'
    BY <1>2, <1>3, <1>6 DEF MealsInv, M!MealsTypeOK, M!Values
  <1>7. UNCHANGED meals => DOMAIN meals' \subseteq 1 .. MaxMeals /\ MealRows' /\ MealsOutliveDishes'
    BY DEF MealsInv, M!MealsTypeOK, MealRows, MealsOutliveDishes, M!MealsOutliveDishes, M!NoDish, M!OneOff
  <1> QED
    BY <1>4, <1>5, <1>6, <1>7 DEF MealsInv

\* EditRead: what is held is what is stored.
LEMMA EditReadKeeps ==
  ASSUME MealsInv, NEW b \in Browsers, NEW d \in Dishes, NEW v \in M!Values, M!EditRead(b, d, v)
  PROVE  MealsInv'
  <1> DEFINE s == [pc |-> "edit", dish |-> d, old |-> dishes[d], new |-> v, overlapped |-> FALSE]
  <1>1. /\ d \in DOMAIN dishes /\ request' = [request EXCEPT ![b] = s]
        /\ UNCHANGED <<date, dishes, meals, saved, torn>>
    BY DEF M!EditRead, M!Hold
  <1>2. d \in DOMAIN saved
    BY <1>1 DEF MealsInv, M!MealsTypeOK
  <1>3. EditHeld(s, dishes, saved)
    BY <1>1, <1>2 DEF EditHeld
  <1> HIDE DEF s
  <1> QED
    BY <1>1, <1>3, RequestKeeps

\* PlanRead: the name is the dish's.
LEMMA PlanReadKeeps ==
  ASSUME MealsInv, NEW b \in Browsers, NEW w, NEW on, NEW d \in Dishes, M!PlanRead(b, w, on, d)
  PROVE  MealsInv'
  <1> DEFINE s == [pc |-> "plan", dish |-> d, on |-> on, name |-> dishes[d].name]
  <1>1. /\ d \in DOMAIN dishes /\ request' = [request EXCEPT ![b] = s]
        /\ UNCHANGED <<date, dishes, meals, saved, torn>>
    BY DEF M!PlanRead, M!Hold
  <1>2. dishes[d].name \in Names
    BY <1>1 DEF MealsInv, M!MealsTypeOK, M!Values
  <1>3. PlanHeld(s)
    BY <1>2 DEF PlanHeld
  <1> HIDE DEF s
  <1> QED
    BY <1>1, <1>3, RequestKeeps

\* An inserted meal has a row of its own.
LEMMA InsertKeeps ==
  ASSUME MealsInv, NEW on, NEW dish \in DOMAIN dishes \cup {M!NoDish}, NEW name \in Names \cup {M!OneOff},
         M!Insert(on, dish, name), UNCHANGED dishes
  PROVE  DOMAIN meals' \subseteq 1 .. MaxMeals /\ MealRows' /\ MealsOutliveDishes'
  <1> DEFINE row == [on |-> on, dish |-> dish, name |-> name]
  <1>1. PICK i \in 1 .. MaxMeals \ DOMAIN meals : meals' = M!Put(meals, i, row)
    BY DEF M!Insert
  <1>2. /\ row = [f \in {"on", "dish", "name"} |-> row[f]]
        /\ row.dish \in DOMAIN dishes \cup {M!NoDish} /\ row.name \in Names \cup {M!OneOff}
    OBVIOUS
  <1> HIDE DEF row
  <1>3. /\ DOMAIN meals' = DOMAIN meals \cup {i} /\ meals'[i] = row
        /\ \A k \in DOMAIN meals \ {i} : meals'[k] = meals[k]
    BY <1>1 DEF M!Put
  <1>4. /\ DOMAIN meals \subseteq 1 .. MaxMeals
        /\ \A k \in DOMAIN meals : /\ meals[k] = [f \in {"on", "dish", "name"} |-> meals[k][f]]
                                   /\ meals[k].dish \in DOMAIN dishes \cup {M!NoDish}
                                   /\ meals[k].name \in Names \cup {M!OneOff}
    BY DEF MealsInv, M!MealsTypeOK, MealRows, MealsOutliveDishes, M!MealsOutliveDishes
  <1>5. ASSUME NEW k \in DOMAIN meals'
        PROVE  /\ meals'[k] = [f \in {"on", "dish", "name"} |-> meals'[k][f]]
               /\ meals'[k].dish \in DOMAIN dishes \cup {M!NoDish}
               /\ meals'[k].name \in Names \cup {M!OneOff}
    <2>1. CASE k = i
      BY <1>2, <1>3, <2>1
    <2>2. CASE k # i
      BY <1>3, <1>4, <2>2
    <2> QED
      BY <2>1, <2>2
  <1> QED
    BY <1>3, <1>4, <1>5 DEF MealRows, MealsOutliveDishes, M!MealsOutliveDishes, M!NoDish, M!OneOff

\* PlanWrite: the dish is there still, or nothing is inserted.
LEMMA PlanWriteKeeps ==
  ASSUME MealsInv, NEW b \in Browsers, M!PlanWrite(b)
  PROVE  MealsInv'
  <1>1. /\ request[b].pc = "plan" /\ request' = [request EXCEPT ![b] = M!Ready]
        /\ UNCHANGED <<date, dishes, saved, torn>>
        /\ \/ UNCHANGED meals
           \/ /\ request[b].dish \in DOMAIN dishes
              /\ M!Insert(request[b].on, request[b].dish, request[b].name)
    BY DEF M!PlanWrite, M!Hold
  <1>2. CASE UNCHANGED meals
    BY <1>1, <1>2, RequestKeeps
  <1>3. CASE /\ request[b].dish \in DOMAIN dishes
             /\ M!Insert(request[b].on, request[b].dish, request[b].name)
    <2>1. request[b].name \in Names
      BY <1>1, RequestPc DEF MealsInv, PlanHeld
    <2>2. DOMAIN meals' \subseteq 1 .. MaxMeals /\ MealRows' /\ MealsOutliveDishes'
      BY <1>1, <1>3, <2>1, InsertKeeps
    <2> QED
      BY <1>1, <2>2, RequestKeeps
  <1> QED
    BY <1>1, <1>2, <1>3

\* A step of the week's page that leaves the dishes and their requests alone.
LEMMA WeekKeeps ==
  ASSUME MealsInv, date' \in FirstDate .. LastDate, UNCHANGED <<dishes, request, saved, torn>>,
         DOMAIN meals' \subseteq 1 .. MaxMeals, MealRows', MealsOutliveDishes'
  PROVE  MealsInv'
  <1>1. M!MealsTypeOK'
    BY DEF MealsInv, M!MealsTypeOK, M!Values
  <1>2. RequestsHeld'
    <2>1. ASSUME NEW b \in Browsers, EditHeld(request[b], dishes, saved)  PROVE EditHeld(request[b], dishes', saved')
      BY <2>1 DEF EditHeld, M!Values
    <2> QED
      BY <2>1 DEF MealsInv, RequestsHeld, PlanHeld, M!Ready
  <1>3. DishIsOneEdit'
    BY DEF MealsInv, DishIsOneEdit, M!DishIsOneEdit
  <1> QED
    BY <1>1, <1>2, <1>3 DEF MealsInv

\* PlanOneOff, Remove and NextDay.
LEMMA OneOffKeeps ==
  ASSUME MealsInv, NEW w, NEW on, M!PlanOneOff(w, on)
  PROVE  MealsInv'
  <1>1. M!Insert(on, M!NoDish, M!OneOff) /\ UNCHANGED <<date, dishes, request, saved, torn>>
    BY DEF M!PlanOneOff
  <1>2. DOMAIN meals' \subseteq 1 .. MaxMeals /\ MealRows' /\ MealsOutliveDishes'
    BY <1>1, InsertKeeps
  <1>3. date' \in FirstDate .. LastDate
    BY <1>1 DEF MealsInv, M!MealsTypeOK
  <1> QED
    BY <1>1, <1>2, <1>3, WeekKeeps

\* A meal is removed.
LEMMA RemoveKeeps ==
  ASSUME MealsInv, NEW w, NEW on, NEW i \in DOMAIN meals, M!Remove(w, on, i)
  PROVE  MealsInv'
  <1>1. meals' = [k \in DOMAIN meals \ {i} |-> meals[k]] /\ UNCHANGED <<date, dishes, request, saved, torn>>
    BY DEF M!Remove, M!Less
  <1>2. DOMAIN meals' \subseteq 1 .. MaxMeals
    BY <1>1 DEF MealsInv, M!MealsTypeOK
  <1>3. MealRows' /\ MealsOutliveDishes'
    BY <1>1 DEF MealsInv, MealRows, MealsOutliveDishes, M!MealsOutliveDishes, M!NoDish, M!OneOff
  <1>4. date' \in FirstDate .. LastDate
    BY <1>1 DEF MealsInv, M!MealsTypeOK
  <1> QED
    BY <1>1, <1>2, <1>3, <1>4, WeekKeeps

\* A day passes.
LEMMA NextDayKeeps ==
  ASSUME MealsInv, M!NextDay
  PROVE  MealsInv'
  <1>1. date < LastDate /\ date' = date + 1 /\ UNCHANGED <<dishes, meals, request, saved, torn>>
    BY DEF M!NextDay
  <1>2. date' \in FirstDate .. LastDate
    BY <1>1, DatesAssumption DEF MealsInv, M!MealsTypeOK
  <1>3. DOMAIN meals' \subseteq 1 .. MaxMeals /\ MealRows' /\ MealsOutliveDishes'
    BY <1>1 DEF MealsInv, M!MealsTypeOK, MealRows, MealsOutliveDishes, M!MealsOutliveDishes, M!NoDish, M!OneOff
  <1> QED
    BY <1>1, <1>2, <1>3, WeekKeeps

\* EditWrite: the columns that differ are written, and with nothing between the
\* two transactions that is the dish as it was submitted.
LEMMA EditWriteKeeps ==
  ASSUME MealsInv, NEW b \in Browsers, M!EditWrite(b)
  PROVE  MealsInv'
  <1> DEFINE r == request[b]
             d == r.dish
             now == dishes[d]
             Late(c) == [request[c] EXCEPT !.overlapped = TRUE]
  <1>1. /\ r.pc = "edit" /\ UNCHANGED <<date, meals>>
        /\ request' = [c \in Browsers |-> IF c = b THEN M!Ready ELSE IF M!Editing(c, d) THEN Late(c) ELSE request[c]]
    BY DEF M!EditWrite
  <1>2. EditHeld(r, dishes, saved) /\ DOMAIN dishes \subseteq DOMAIN saved /\ d \in Dishes
    BY <1>1, RequestPc DEF MealsInv, M!MealsTypeOK, EditHeld
  <1>3. ASSUME NEW c \in Browsers, M!Editing(c, d)
        PROVE  /\ Late(c).pc = "edit" /\ Late(c) = [f \in {"pc", "dish", "old", "new", "overlapped"} |-> Late(c)[f]]
               /\ Late(c).dish = d /\ Late(c).new \in M!Values /\ Late(c).overlapped = TRUE
    <2>1. EditHeld(request[c], dishes, saved) /\ request[c].dish = d
      BY <1>3, RequestPc DEF MealsInv, M!Editing
    <2> QED
      BY <2>1 DEF EditHeld
  \* The rows of the other dishes, and which dishes there are, stay.
  <1>4. /\ DOMAIN dishes' = DOMAIN dishes /\ DOMAIN saved' = DOMAIN saved
        /\ \A k \in DOMAIN dishes \ {d} : dishes'[k] = dishes[k]
    <2>1. CASE d \notin DOMAIN dishes
      BY <2>1 DEF M!EditWrite
    <2>2. CASE d \in DOMAIN dishes
      <3>1. dishes' = [dishes EXCEPT ![d] = M!Changed(r, now)] /\ saved' = [saved EXCEPT ![d] = r.new]
        BY <2>2 DEF M!EditWrite
      <3> QED
        BY <3>1
    <2> QED
      BY <2>1, <2>2
  <1>5. RequestsHeld'
    <2>1. ASSUME NEW c \in Browsers
          PROVE  request'[c] = M!Ready \/ EditHeld(request'[c], dishes', saved') \/ PlanHeld(request'[c])
      <3>1. CASE c = b
        BY <1>1, <3>1
      <3>2. CASE c # b /\ M!Editing(c, d)
        <4>1. EditHeld(Late(c), dishes', saved')
          BY <1>2, <1>3, <1>4, <3>2 DEF EditHeld
        <4> HIDE DEF Late
        <4> QED
          BY <1>1, <3>2, <4>1
      <3>3. CASE c # b /\ ~M!Editing(c, d)
        <4>1. request'[c] = request[c]
          BY <1>1, <3>3
        <4>2. CASE EditHeld(request[c], dishes, saved)
          <5>1. request[c].dish # d
            BY <3>3, <4>2 DEF M!Editing, EditHeld
          <5> QED
            BY <1>4, <4>1, <4>2, <5>1 DEF EditHeld
        <4>3. CASE request[c] = M!Ready \/ PlanHeld(request[c])
          BY <4>1, <4>3
        <4> QED
          BY <4>2, <4>3 DEF MealsInv, RequestsHeld
      <3> QED
        BY <3>1, <3>2, <3>3
    <2>2. request' = [c \in Browsers |-> request'[c]]
      BY <1>1
    <2> QED
      BY <2>1, <2>2 DEF RequestsHeld, M!Ready
  <1>6. MealRows' /\ MealsOutliveDishes'
    BY <1>1, <1>4 DEF MealsInv, MealRows, MealsOutliveDishes, M!MealsOutliveDishes, M!NoDish, M!OneOff
  <1>7. \A c \in Browsers : request'[c].pc \in {"ready", "edit", "plan"}
    BY <1>5 DEF RequestsHeld, EditHeld, PlanHeld, M!Ready
  \* The dish is gone: the rows stay as they are.
  <1>8. CASE d \notin DOMAIN dishes
    <2>1. UNCHANGED <<dishes, saved, torn>>
      BY <1>8 DEF M!EditWrite
    <2>2. M!MealsTypeOK'
      BY <1>1, <1>7, <2>1 DEF MealsInv, M!MealsTypeOK, M!Values
    <2>3. DishIsOneEdit'
      BY <2>1 DEF MealsInv, DishIsOneEdit, M!DishIsOneEdit
    <2> QED
      BY <1>5, <1>6, <2>2, <2>3 DEF MealsInv
  \* The dish is there: it becomes what was submitted, or is torn.
  <1>9. CASE d \in DOMAIN dishes
    <2>1. /\ dishes' = [dishes EXCEPT ![d] = M!Changed(r, now)] /\ saved' = [saved EXCEPT ![d] = r.new]
          /\ torn' = IF r.overlapped THEN torn \cup {d} ELSE torn \ {d}
      BY <1>9 DEF M!EditWrite
    <2>2. now \in M!Values /\ r.new \in M!Values
      BY <1>2, <1>9 DEF MealsInv, M!MealsTypeOK, EditHeld
    <2> DEFINE written == M!Changed(r, now)
               new == r.new
               old == r.old
    <2>3. written = [c \in {"name", "tags"} |-> IF new[c] = old[c] THEN now[c] ELSE new[c]]
      BY DEF M!Changed
    <2>4. r.overlapped \/ old = now
      BY <1>2, <1>9 DEF EditHeld
    <2> HIDE DEF written, new, old, now
    <2>5. written \in M!Values
      BY <2>2, <2>3 DEF M!Values, new
    <2>6. r.overlapped \/ written = new
      <3> SUFFICES ASSUME ~r.overlapped PROVE written = new
        OBVIOUS
      <3>1. new = [c \in {"name", "tags"} |-> new[c]]
        BY <2>2 DEF M!Values, new
      <3> QED
        BY <2>3, <2>4, <3>1
    <2>7. dishes'[d] = written /\ saved'[d] = new
      BY <1>2, <1>9, <2>1 DEF written, new, now, EditHeld
    <2>8. \A k \in DOMAIN saved \ {d} : saved'[k] = saved[k]
      BY <2>1
    <2>9. M!MealsTypeOK'
      <3>1. \A k \in DOMAIN dishes : dishes'[k] \in M!Values
        BY <1>4, <2>5, <2>7 DEF MealsInv, M!MealsTypeOK
      <3>2. torn' \subseteq Dishes
        BY <1>2, <2>1 DEF MealsInv, M!MealsTypeOK
      <3> QED
        BY <1>1, <1>4, <1>7, <3>1, <3>2 DEF MealsInv, M!MealsTypeOK, M!Values
    <2>10. DishIsOneEdit'
      <3> SUFFICES ASSUME NEW k \in DOMAIN dishes PROVE k \in torn' \/ dishes'[k] = saved'[k]
        BY <1>4 DEF DishIsOneEdit, M!DishIsOneEdit
      <3>1. CASE k = d
        <4> HIDE DEF r, d
        <4> QED
          BY <2>1, <2>6, <2>7, <3>1
      <3>2. CASE k # d
        <4>1. k \in torn \/ dishes[k] = saved[k]
          BY DEF MealsInv, DishIsOneEdit, M!DishIsOneEdit
        <4>2. k \in DOMAIN saved
          BY <1>2
        <4> HIDE DEF r, d
        <4> QED
          BY <1>4, <2>1, <2>8, <3>2, <4>1, <4>2
      <3> QED
        BY <3>1, <3>2
    <2> QED
      BY <1>5, <1>6, <2>9, <2>10 DEF MealsInv
  <1> QED
    BY <1>8, <1>9

\* The invariant of the meals and dishes pages, at every step of them.
LEMMA MealsStep ==
  ASSUME MealsInv, M!MealsNext \/ UNCHANGED mealVars
  PROVE  MealsInv'
  <1>1. CASE UNCHANGED mealVars
    <2>1. /\ UNCHANGED <<date, dishes, meals, request, saved, torn>>
      BY <1>1 DEF mealVars
    <2>2. /\ date' \in FirstDate .. LastDate /\ DOMAIN meals' \subseteq 1 .. MaxMeals
          /\ MealRows' /\ MealsOutliveDishes'
      BY <2>1 DEF MealsInv, M!MealsTypeOK, MealRows, MealsOutliveDishes, M!MealsOutliveDishes, M!NoDish, M!OneOff
    <2> QED
      BY <2>1, <2>2, WeekKeeps
  <1>2. ASSUME NEW d \in Dishes, NEW v \in M!Values, M!CreateDish(d, v)  PROVE MealsInv'
    BY <1>2, CreateDishKeeps
  <1>3. ASSUME NEW d \in Dishes, M!DeleteDish(d)  PROVE MealsInv'
    BY <1>3, DeleteDishKeeps
  <1>4. ASSUME NEW b \in Browsers, M!EditWrite(b)  PROVE MealsInv'
    BY <1>4, EditWriteKeeps
  <1>5. ASSUME NEW b \in Browsers, M!PlanWrite(b)  PROVE MealsInv'
    BY <1>5, PlanWriteKeeps
  <1>6. ASSUME NEW b \in Browsers, NEW d \in Dishes, NEW v \in M!Values, M!EditRead(b, d, v)  PROVE MealsInv'
    BY <1>6, EditReadKeeps
  <1>7. ASSUME NEW b \in Browsers, NEW w, NEW on, NEW d \in Dishes, M!PlanRead(b, w, on, d)  PROVE MealsInv'
    BY <1>7, PlanReadKeeps
  <1>8. ASSUME NEW w, NEW on, M!PlanOneOff(w, on)  PROVE MealsInv'
    BY <1>8, OneOffKeeps
  <1>9. ASSUME NEW w, NEW on, NEW i \in DOMAIN meals, M!Remove(w, on, i)  PROVE MealsInv'
    BY <1>9, RemoveKeeps
  <1>10. CASE M!NextDay
    BY <1>10, NextDayKeeps
  <1> QED
    BY <1>1, <1>2, <1>3, <1>4, <1>5, <1>6, <1>7, <1>8, <1>9, <1>10 DEF M!MealsNext

-----------------------------------------------------------------------------
(* The assistant.                                                          *)

FamilyRow ==
  {row \in [kind : {"task", "fact", "commitment"}, due : {"week", "later"},
            status : {"open", "done"}] :
     row.kind # "task" => row.due = "week" /\ row.status = "open"}

MessageHeld(s, n, k) ==
  /\ s = [f \in {"pc", "conv", "knows", "since"} |-> s[f]]
  /\ s.pc \in A!Working \cup {"unsent", "over", "failed"}
  /\ s.conv \in 0 .. n /\ s.knows \subseteq 1 .. k /\ s.since \in 0 .. k

\* Messages know of rows and conversations that are there.
StoredInv ==
  /\ conversations \in Seq(Seq(Messages)) /\ family \in Seq(FamilyRow)
  /\ message = [m \in Messages |-> message[m]]
  /\ \A m \in Messages : MessageHeld(message[m], Len(conversations), Len(family))

\* AssistantKnows of message m.
Recalls(m) ==
  message[m].pc = "agent" =>
    \A i \in 1 .. message[m].since : i \in message[m].knows \/ A!OutOfSight(i)

\* The inductive invariant of the assistant.
AssistantInv == StoredInv /\ \A m \in Messages : Recalls(m)

\* At first there is no conversation and no message is sent.
LEMMA AssistantInit == PortalInit => AssistantInv
  <1> SUFFICES ASSUME PortalInit PROVE AssistantInv
    OBVIOUS
  <1>1. message = [m \in Messages |-> A!Unsent] /\ conversations = <<>> /\ family = <<>>
    BY DEF PortalInit, A!AssistantInit
  <1>2. A!Unsent = [pc |-> "unsent", conv |-> 0, knows |-> {}, since |-> 0]
    BY DEF A!Unsent
  <1>3. MessageHeld(A!Unsent, 0, 0)
    BY <1>2 DEF MessageHeld
  <1>4. StoredInv
    BY <1>1, <1>3 DEF StoredInv
  <1>5. \A m \in Messages : Recalls(m)
    BY <1>1, <1>2 DEF Recalls
  <1> QED
    BY <1>4, <1>5 DEF AssistantInv

\* Assistant counts as this module does.
LEMMA SameCount ==
  ASSUME NEW S
  PROVE  A!Cardinality(S) = Cardinality(S)
  BY DEF A!Cardinality, Cardinality

\* What a step does to the rows of the family: none goes, a task may be done.
Grown ==
  /\ family' \in Seq(FamilyRow) /\ Len(family) <= Len(family')
  /\ \A i \in 1 .. Len(family) :
       /\ family'[i].kind = family[i].kind /\ family'[i].due = family[i].due
       /\ family[i].status = "done" => family'[i].status = "done"

\* The rows of the family are numbered from 1.
LEMMA FamilyDomain ==
  ASSUME NEW f \in Seq(FamilyRow)
  PROVE  Len(f) \in Nat /\ DOMAIN f = 1 .. Len(f) /\ \A i \in 1 .. Len(f) : f[i] \in FamilyRow
  OBVIOUS

\* The facts that came after row i.
Followers(f, i) == {j \in DOMAIN f : j > i /\ f[j].kind = "fact"}

\* What a context may leave out it may leave out for good: a task stays done or
\* for later, and newer facts stay newer.
LEMMA StaysOutOfSight ==
  ASSUME family \in Seq(FamilyRow), Grown, NEW i \in 1 .. Len(family), A!OutOfSight(i)
  PROVE  A!OutOfSight(i)'
  <1>1. /\ Len(family) \in Nat /\ Len(family') \in Nat /\ Len(family) <= Len(family')
        /\ DOMAIN family = 1 .. Len(family) /\ DOMAIN family' = 1 .. Len(family')
    BY DEF Grown
  <1>2. CASE family[i].kind = "task" /\ (family[i].status = "done" \/ family[i].due = "later")
    BY <1>2 DEF A!OutOfSight, Grown
  <1>3. CASE family[i].kind = "fact" /\ A!Cardinality(Followers(family, i)) >= FactLimit
    <2> DEFINE old == Followers(family, i)
               new == Followers(family', i)
    <2>1. new \subseteq 1 .. Len(family') /\ old \subseteq new
      BY <1>1 DEF Grown, Followers
    <2> HIDE DEF old, new
    <2>2. /\ Cardinality(old) \in Nat /\ Cardinality(new) \in Nat
          /\ Cardinality(old) <= Cardinality(new)
      <3>1. IsFiniteSet(1 .. Len(family'))
        BY <1>1, FS_Interval
      <3>2. IsFiniteSet(new)
        BY <2>1, <3>1, FS_Subset
      <3>3. IsFiniteSet(old) /\ Cardinality(old) <= Cardinality(new)
        BY <2>1, <3>2, FS_Subset
      <3> QED
        BY <3>2, <3>3, FS_CardinalityType
    <2>3. Cardinality(new) >= FactLimit
      BY <1>3, <2>2, SameCount, LimitAssumption DEF old
    <2>4. family'[i].kind = "fact" /\ A!Cardinality(Followers(family', i)) >= FactLimit
      BY <1>3, <2>3, SameCount DEF Grown, new
    <2> QED
      BY <2>4 DEF A!OutOfSight, Followers
  <1> QED
    BY <1>2, <1>3 DEF A!OutOfSight, Followers

\* A step of message m that keeps what it has in mind, or reads a new context.
LEMMA MessageKeeps ==
  ASSUME AssistantInv, NEW m \in Messages, NEW s, message' = [message EXCEPT ![m] = s],
         conversations' \in Seq(Seq(Messages)), Len(conversations) <= Len(conversations'), Grown,
         MessageHeld(s, Len(conversations'), Len(family')),
         s.pc = "agent" =>
           \/ /\ message[m].pc = "agent" /\ s.since = message[m].since
              /\ message[m].knows \subseteq s.knows
           \/ \A i \in 1 .. s.since : i \in s.knows \/ A!OutOfSight(i)'
  PROVE  AssistantInv'
  <1>1. /\ StoredInv /\ \A n \in Messages : Recalls(n)
        /\ family' \in Seq(FamilyRow) /\ Len(family) <= Len(family')
        /\ Len(family) \in Nat /\ Len(family') \in Nat
        /\ Len(conversations) \in Nat /\ Len(conversations') \in Nat
    BY DEF AssistantInv, StoredInv, Grown
  <1>2. message' = [n \in Messages |-> IF n = m THEN s ELSE message[n]]
    BY <1>1 DEF StoredInv
  <1>3. ASSUME NEW n \in Messages
        PROVE  MessageHeld(message'[n], Len(conversations'), Len(family'))
    <2>1. MessageHeld(message[n], Len(conversations), Len(family))
      BY <1>1 DEF StoredInv
    <2>2. MessageHeld(message[n], Len(conversations'), Len(family'))
      BY <1>1, <2>1 DEF MessageHeld
    <2> QED
      BY <1>2, <2>2
  <1>4. StoredInv'
    BY <1>1, <1>2, <1>3 DEF StoredInv
  <1>5. \A i \in 1 .. Len(family) : A!OutOfSight(i) => A!OutOfSight(i)'
    BY <1>1, StaysOutOfSight DEF StoredInv
  <1>6. ASSUME NEW n \in Messages  PROVE Recalls(n)'
    <2>1. message[n].since \in 0 .. Len(family)
      BY <1>1 DEF StoredInv, MessageHeld
    <2>2. message[n].pc = "agent" =>
            \A i \in 1 .. message[n].since : i \in message[n].knows \/ A!OutOfSight(i)'
      BY <1>1, <1>5, <2>1 DEF Recalls
    <2>3. message'[n].pc = "agent" =>
            \A i \in 1 .. message'[n].since : i \in message'[n].knows \/ A!OutOfSight(i)'
      BY <1>2, <2>2
    <2> QED
      BY <2>3 DEF Recalls
  <1> QED
    BY <1>4, <1>6 DEF AssistantInv

\* Nothing but a step that makes or completes a row touches the family.
LEMMA FamilyKept ==
  ASSUME StoredInv, UNCHANGED family
  PROVE  Grown
  BY DEF StoredInv, Grown

\* A step of message m that leaves the family alone and reads no context.
LEMMA QuietKeeps ==
  ASSUME AssistantInv, NEW m \in Messages, NEW s, message' = [message EXCEPT ![m] = s],
         UNCHANGED family,
         UNCHANGED conversations \/ conversations' = Append(conversations, <<>>),
         s = [f \in {"pc", "conv", "knows", "since"} |-> s[f]],
         s.pc \in A!Working \cup {"unsent", "over", "failed"},
         s.conv \in 0 .. Len(conversations'),
         s.knows \subseteq 1 .. Len(family), s.since \in 0 .. Len(family),
         s.pc = "agent" => /\ message[m].pc = "agent" /\ s.since = message[m].since
                           /\ message[m].knows \subseteq s.knows
  PROVE  AssistantInv'
  <1>1. /\ StoredInv /\ conversations \in Seq(Seq(Messages))
    BY DEF AssistantInv, StoredInv
  <1>2. conversations' \in Seq(Seq(Messages)) /\ Len(conversations) <= Len(conversations')
    <2>1. CASE UNCHANGED conversations
      BY <1>1, <2>1
    <2>2. CASE conversations' = Append(conversations, <<>>)
      <3>1. <<>> \in Seq(Messages)
        OBVIOUS
      <3> QED
        BY <1>1, <2>2, <3>1
    <2> QED
      BY <2>1, <2>2
  <1>3. Grown
    BY <1>1, FamilyKept
  <1>4. MessageHeld(s, Len(conversations'), Len(family'))
    BY DEF MessageHeld
  <1> QED
    BY <1>2, <1>3, <1>4, MessageKeeps

\* A message is loaded, ends, fails, or looks something up: the family stays.
LEMMA QuietStep ==
  ASSUME AssistantInv, NEW m \in Messages,
         \/ A!Create(m) \/ A!Conclude(m) \/ A!Save(m) \/ A!Fail(m)
         \/ \E k \in DOMAIN conversations : A!Load(m, k)
         \/ \E facts \in BOOLEAN : A!LookUp(m, facts)
  PROVE  AssistantInv'
  <1>1. /\ conversations \in Seq(Seq(Messages)) /\ Len(conversations) \in Nat
        /\ DOMAIN conversations = 1 .. Len(conversations)
        /\ Len(family) \in Nat /\ DOMAIN family = 1 .. Len(family)
    BY DEF AssistantInv, StoredInv
  <1>2. /\ message[m].conv \in 0 .. Len(conversations) /\ message[m].knows \subseteq 1 .. Len(family)
        /\ message[m].since \in 0 .. Len(family)
        /\ message[m] = [f \in {"pc", "conv", "knows", "since"} |-> message[m][f]]
    BY DEF AssistantInv, StoredInv, MessageHeld
  <1>3. CASE A!Create(m)
    <2> DEFINE s == [message[m] EXCEPT !.pc = "context", !.conv = Len(conversations) + 1]
    <2>1. /\ message' = [message EXCEPT ![m] = s]
          /\ UNCHANGED family /\ conversations' = Append(conversations, <<>>)
          /\ Len(conversations') = Len(conversations) + 1
      BY <1>1, <1>3 DEF A!Create, A!Set
    <2>2. /\ s.pc = "context" /\ s.conv = Len(conversations) + 1 /\ s.knows = message[m].knows /\ s.since = message[m].since
          /\ s = [f \in {"pc", "conv", "knows", "since"} |-> s[f]]
      BY <1>2
    <2> HIDE DEF s
    <2>3. /\ s.pc \in A!Working \cup {"unsent", "over", "failed"} /\ s.pc # "agent"
          /\ s.conv \in 0 .. Len(conversations')
          /\ s.knows \subseteq 1 .. Len(family) /\ s.since \in 0 .. Len(family)
      BY <1>1, <1>2, <2>1, <2>2 DEF A!Working
    <2> QED
      BY <2>1, <2>2, <2>3, QuietKeeps
  <1>4. CASE A!Conclude(m)
    <2> DEFINE s == [message[m] EXCEPT !.pc = "save", !.knows = {}, !.since = 0]
    <2>1. /\ message' = [message EXCEPT ![m] = s]
          /\ UNCHANGED <<conversations, family>>
      BY <1>4 DEF A!Conclude, A!Set
    <2>2. /\ s.pc = "save" /\ s.conv = message[m].conv /\ s.knows = {} /\ s.since = 0
          /\ s = [f \in {"pc", "conv", "knows", "since"} |-> s[f]]
      BY <1>2
    <2> HIDE DEF s
    <2>3. /\ s.pc \in A!Working \cup {"unsent", "over", "failed"} /\ s.pc # "agent"
          /\ s.conv \in 0 .. Len(conversations')
          /\ s.knows \subseteq 1 .. Len(family) /\ s.since \in 0 .. Len(family)
      BY <1>1, <1>2, <2>1, <2>2 DEF A!Working
    <2> QED
      BY <2>1, <2>2, <2>3, QuietKeeps
  <1>5. CASE A!Save(m)
    <2> DEFINE s == [message[m] EXCEPT !.pc = "over"]
    <2>1. /\ message' = [message EXCEPT ![m] = s]
          /\ UNCHANGED <<conversations, family>>
      BY <1>5 DEF A!Save, A!Set
    <2>2. /\ s.pc = "over" /\ s.conv = message[m].conv /\ s.knows = message[m].knows /\ s.since = message[m].since
          /\ s = [f \in {"pc", "conv", "knows", "since"} |-> s[f]]
      BY <1>2
    <2> HIDE DEF s
    <2>3. /\ s.pc \in A!Working \cup {"unsent", "over", "failed"} /\ s.pc # "agent"
          /\ s.conv \in 0 .. Len(conversations')
          /\ s.knows \subseteq 1 .. Len(family) /\ s.since \in 0 .. Len(family)
      BY <1>1, <1>2, <2>1, <2>2 DEF A!Working
    <2> QED
      BY <2>1, <2>2, <2>3, QuietKeeps
  <1>6. CASE A!Fail(m)
    <2> DEFINE s == [A!Unsent EXCEPT !.pc = "failed", !.conv = message[m].conv]
    <2>1. /\ message' = [message EXCEPT ![m] = s]
          /\ UNCHANGED <<conversations, family>>
      BY <1>6 DEF A!Fail, A!Set
    <2>2. /\ s.pc = "failed" /\ s.conv = message[m].conv /\ s.knows = {} /\ s.since = 0
          /\ s = [f \in {"pc", "conv", "knows", "since"} |-> s[f]]
      BY <1>2 DEF A!Unsent
    <2> HIDE DEF s
    <2>3. /\ s.pc \in A!Working \cup {"unsent", "over", "failed"} /\ s.pc # "agent"
          /\ s.conv \in 0 .. Len(conversations')
          /\ s.knows \subseteq 1 .. Len(family) /\ s.since \in 0 .. Len(family)
      BY <1>1, <1>2, <2>1, <2>2 DEF A!Working
    <2> QED
      BY <2>1, <2>2, <2>3, QuietKeeps
  <1>7. ASSUME NEW k \in DOMAIN conversations, A!Load(m, k)
        PROVE  AssistantInv'
    <2> DEFINE s == [message[m] EXCEPT !.pc = "context", !.conv = k]
    <2>1. /\ message' = [message EXCEPT ![m] = s]
          /\ UNCHANGED <<conversations, family>>
      BY <1>7, Zenon DEF A!Load, A!Set
    <2>2. /\ s.pc = "context" /\ s.conv = k /\ s.knows = message[m].knows /\ s.since = message[m].since
          /\ s = [f \in {"pc", "conv", "knows", "since"} |-> s[f]]
      BY <1>2
    <2> HIDE DEF s
    <2>3. /\ s.pc \in A!Working \cup {"unsent", "over", "failed"} /\ s.pc # "agent"
          /\ s.conv \in 0 .. Len(conversations')
          /\ s.knows \subseteq 1 .. Len(family) /\ s.since \in 0 .. Len(family)
      BY <1>1, <1>2, <2>1, <2>2, <1>7 DEF A!Working
    <2> QED
      BY <2>1, <2>2, <2>3, QuietKeeps
  <1>8. ASSUME NEW facts \in BOOLEAN, A!LookUp(m, facts)
        PROVE  AssistantInv'
    <2> DEFINE found == IF facts THEN A!Facts ELSE A!OpenTasks
               s == [message[m] EXCEPT !.knows = message[m].knows \cup found]
    <2>1. /\ message[m].pc = "agent" /\ message' = [message EXCEPT ![m] = s]
          /\ UNCHANGED <<conversations, family>>
      BY <1>8 DEF A!LookUp, A!Set
    <2>2. found \subseteq 1 .. Len(family)
      BY <1>1 DEF A!Facts, A!OpenTasks
    <2> HIDE DEF found
    <2>3. /\ s.pc = "agent" /\ s.conv = message[m].conv /\ s.since = message[m].since
          /\ s.knows = message[m].knows \cup found
          /\ s = [f \in {"pc", "conv", "knows", "since"} |-> s[f]]
      BY <1>2, <2>1
    <2> HIDE DEF s
    <2>4. /\ s.pc \in A!Working \cup {"unsent", "over", "failed"}
          /\ s.conv \in 0 .. Len(conversations')
          /\ s.knows \subseteq 1 .. Len(family) /\ s.since \in 0 .. Len(family)
      BY <1>2, <2>1, <2>2, <2>3 DEF A!Working
    <2> QED
      BY <2>1, <2>3, <2>4, QuietKeeps
  <1> QED
    BY <1>3, <1>4, <1>5, <1>6, <1>7, <1>8

\* What the context does not show is out of sight.
LEMMA ContextKeeps ==
  ASSUME AssistantInv, NEW m \in Messages, A!Context(m)
  PROVE  AssistantInv'
  <1> DEFINE shown == A!RecentFacts \cup A!OpenTasks \cup A!OpenCommitments
             s == [message[m] EXCEPT !.pc = "agent", !.since = Len(family), !.knows = shown]
  <1>1. /\ message' = [message EXCEPT ![m] = s] /\ UNCHANGED <<conversations, family>>
    BY DEF A!Context, A!Set
  <1>2. /\ StoredInv /\ MessageHeld(message[m], Len(conversations), Len(family))
        /\ conversations \in Seq(Seq(Messages)) /\ Len(conversations) \in Nat
    BY DEF AssistantInv, StoredInv
  <1>3. Len(family) \in Nat /\ DOMAIN family = 1 .. Len(family) /\ \A i \in 1 .. Len(family) : family[i] \in FamilyRow
    BY <1>2, FamilyDomain DEF StoredInv
  <1>4. shown \subseteq 1 .. Len(family)
    BY <1>3 DEF A!RecentFacts, A!Facts, A!OpenTasks, A!OpenCommitments
  <1>5. ASSUME NEW i \in 1 .. Len(family), i \notin shown
        PROVE  A!OutOfSight(i)
    <2>1. CASE family[i].kind = "fact"
      <3>1. A!Newer(i) = Followers(family, i)
        BY <1>3 DEF A!Newer, A!Facts, Followers
      <3>2. ~(A!Cardinality(Followers(family, i)) < FactLimit)
        BY <1>3, <1>5, <2>1, <3>1 DEF A!RecentFacts, A!Facts
      <3>3. Followers(family, i) \subseteq 1 .. Len(family)
        BY <1>3 DEF Followers
      <3>4. Cardinality(Followers(family, i)) \in Nat
        <4>1. IsFiniteSet(1 .. Len(family))
          BY <1>3, FS_Interval
        <4> QED
          BY <3>3, <4>1, FS_Subset, FS_CardinalityType
      <3>5. A!Cardinality(Followers(family, i)) >= FactLimit
        BY <3>2, <3>4, SameCount, LimitAssumption
      <3> QED
        BY <2>1, <3>5 DEF A!OutOfSight, Followers
    <2>2. CASE family[i].kind # "fact"
      BY <1>3, <1>5, <2>2 DEF A!OutOfSight, A!OpenTasks, A!OpenCommitments, FamilyRow
    <2> QED
      BY <2>1, <2>2
  <1> HIDE DEF shown
  <1>6. /\ s.pc = "agent" /\ s.conv = message[m].conv /\ s.since = Len(family) /\ s.knows = shown
        /\ s = [f \in {"pc", "conv", "knows", "since"} |-> s[f]]
    BY <1>2 DEF MessageHeld
  <1> HIDE DEF s
  <1>7. MessageHeld(s, Len(conversations), Len(family))
    BY <1>2, <1>3, <1>4, <1>6 DEF MessageHeld, A!Working
  <1>8. Grown
    BY <1>1, <1>2, FamilyKept
  <1>9. \A i \in 1 .. Len(family) : A!OutOfSight(i) => A!OutOfSight(i)'
    BY <1>2, <1>8, StaysOutOfSight DEF StoredInv
  <1> QED
    BY <1>1, <1>2, <1>5, <1>6, <1>7, <1>8, <1>9, MessageKeeps

\* A row that is made is the message's own.
LEMMA MakeKeeps ==
  ASSUME AssistantInv, NEW m \in Messages, NEW kind \in {"task", "fact", "commitment"},
         NEW due \in {"week", "later"}, kind # "task" => due = "week", A!Make(m, kind, due)
  PROVE  AssistantInv'
  <1> DEFINE s == [message[m] EXCEPT !.knows = message[m].knows \cup {Len(family) + 1}]
             row == [kind |-> kind, due |-> due, status |-> "open"]
  <1>1. /\ message[m].pc = "agent" /\ message' = [message EXCEPT ![m] = s]
        /\ family' = Append(family, row) /\ UNCHANGED conversations
    BY DEF A!Make, A!Set
  <1>2. /\ StoredInv /\ MessageHeld(message[m], Len(conversations), Len(family))
        /\ conversations \in Seq(Seq(Messages)) /\ Len(conversations) \in Nat
        /\ family \in Seq(FamilyRow) /\ Len(family) \in Nat
    BY DEF AssistantInv, StoredInv
  <1>3. row \in FamilyRow
    BY DEF FamilyRow
  <1> HIDE DEF row
  <1>4. /\ s.pc = "agent" /\ s.conv = message[m].conv /\ s.since = message[m].since
        /\ s.knows = message[m].knows \cup {Len(family) + 1}
        /\ s = [f \in {"pc", "conv", "knows", "since"} |-> s[f]]
    BY <1>1, <1>2 DEF MessageHeld
  <1> HIDE DEF s
  <1>5. /\ family' \in Seq(FamilyRow) /\ Len(family') = Len(family) + 1
        /\ \A i \in 1 .. Len(family) : family'[i] = family[i]
    BY <1>1, <1>2, <1>3
  <1>6. MessageHeld(s, Len(conversations), Len(family'))
    BY <1>2, <1>4, <1>5 DEF MessageHeld, A!Working
  <1>7. Grown
    BY <1>2, <1>5 DEF Grown
  <1>8. conversations' \in Seq(Seq(Messages)) /\ Len(conversations) <= Len(conversations')
    BY <1>1, <1>2
  <1>9. MessageHeld(s, Len(conversations'), Len(family'))
    BY <1>1, <1>6
  <1> QED
    BY <1>1, <1>4, <1>7, <1>8, <1>9, MessageKeeps

\* A task that is done.
LEMMA CompleteKeeps ==
  ASSUME AssistantInv, NEW m \in Messages, NEW i \in DOMAIN family, A!Complete(m, i)
  PROVE  AssistantInv'
  <1> DEFINE done == [family[i] EXCEPT !.status = "done"]
             s == message[m]
  <1>1. /\ family[i].kind = "task" /\ family' = [family EXCEPT ![i] = done]
        /\ UNCHANGED <<message, conversations>>
    BY DEF A!Complete
  <1>2. /\ StoredInv /\ MessageHeld(s, Len(conversations), Len(family))
        /\ conversations \in Seq(Seq(Messages)) /\ Len(conversations) \in Nat
        /\ family \in Seq(FamilyRow) /\ Len(family) \in Nat /\ DOMAIN family = 1 .. Len(family)
    BY DEF AssistantInv, StoredInv
  <1>3. family[i] \in FamilyRow
    BY <1>2
  <1>4. /\ done \in FamilyRow /\ done.kind = family[i].kind /\ done.due = family[i].due
        /\ done.status = "done"
    BY <1>1, <1>3 DEF FamilyRow
  <1> HIDE DEF done
  <1>5. /\ family' \in Seq(FamilyRow) /\ Len(family') = Len(family)
        /\ \A j \in 1 .. Len(family) : family'[j] = IF j = i THEN done ELSE family[j]
    BY <1>1, <1>2, <1>4
  <1>6. Grown
    BY <1>2, <1>4, <1>5 DEF Grown
  <1>7. message' = [message EXCEPT ![m] = s] /\ message[m].pc = "agent"
    BY <1>1, <1>2 DEF StoredInv, A!Complete
  <1>8. s.since = message[m].since /\ message[m].knows \subseteq s.knows
    OBVIOUS
  <1>9. /\ conversations' \in Seq(Seq(Messages)) /\ Len(conversations) <= Len(conversations')
        /\ MessageHeld(s, Len(conversations'), Len(family'))
    BY <1>1, <1>2, <1>5
  <1> HIDE DEF s
  <1> QED
    BY <1>6, <1>7, <1>8, <1>9, MessageKeeps

\* Every step of the assistant, and every step elsewhere, keeps the invariant.
LEMMA AssistantStep ==
  ASSUME AssistantInv, A!AssistantNext \/ UNCHANGED assistantVars
  PROVE  AssistantInv'
  <1>1. CASE UNCHANGED assistantVars \/ A!AllServed
    <2>1. UNCHANGED <<message, conversations, family>>
      BY <1>1 DEF assistantVars, A!AllServed, A!assistantVars
    <2>2. StoredInv' /\ \A m \in Messages : Recalls(m)'
      BY <2>1 DEF AssistantInv, StoredInv, Recalls, A!OutOfSight
    <2> QED
      BY <2>2 DEF AssistantInv
  <1>2. ASSUME NEW m \in Messages,
               \/ A!Create(m) \/ A!Conclude(m) \/ A!Save(m) \/ A!Fail(m)
               \/ \E k \in DOMAIN conversations : A!Load(m, k)
               \/ \E facts \in BOOLEAN : A!LookUp(m, facts)
        PROVE  AssistantInv'
    BY <1>2, QuietStep
  <1>3. ASSUME NEW m \in Messages, A!Context(m)
        PROVE  AssistantInv'
    BY <1>3, ContextKeeps
  <1>4. ASSUME NEW m \in Messages,
               A!Make(m, "fact", "week") \/ A!Make(m, "commitment", "week")
               \/ \E due \in {"week", "later"} : A!Make(m, "task", due)
        PROVE  AssistantInv'
    BY <1>4, MakeKeeps
  <1>5. ASSUME NEW m \in Messages, NEW i \in DOMAIN family, A!Complete(m, i)
        PROVE  AssistantInv'
    BY <1>5, CompleteKeeps
  <1> QED
    BY <1>1, <1>2, <1>3, <1>4, <1>5 DEF A!AssistantNext

\* The invariant has the type invariant of Assistant.
LEMMA AssistantTypes ==
  ASSUME AssistantInv
  PROVE  A!AssistantTypeOK
  <1>1. /\ conversations \in Seq(Seq(Messages)) /\ family \in Seq(FamilyRow)
        /\ \A m \in Messages : MessageHeld(message[m], Len(conversations), Len(family))
    BY DEF AssistantInv, StoredInv
  <1>2. \A m \in Messages : /\ message[m].pc \in A!Working \cup {"unsent", "over", "failed"}
                            /\ message[m].conv \in 0 .. Len(conversations)
                            /\ message[m].knows \subseteq DOMAIN family
                            /\ message[m].since \in 0 .. Len(family)
    BY <1>1, FamilyDomain DEF MessageHeld
  <1>3. \A k \in DOMAIN conversations : conversations[k] \in Seq(Messages)
    BY <1>1
  <1>4. ASSUME NEW i \in DOMAIN family
        PROVE  <<family[i].kind, family[i].due, family[i].status>> \in A!Tasks \cup A!Rest
    <2>1. family[i] \in FamilyRow
      BY <1>1
    <2> QED
      BY <2>1 DEF FamilyRow, A!Tasks, A!Rest
  <1> QED
    BY <1>2, <1>3, <1>4 DEF A!AssistantTypeOK

-----------------------------------------------------------------------------
(* The portal: each part of it keeps to its own pages.                     *)

\* Whatever the pages of meals and the assistant do in between, the calendar of
\* the portal is a calendar page: CalendarPage's theorems hold of it.
THEOREM PortalIsACalendar == PortalSpec => Spec
  <1>1. PortalInit => Init
    BY DEF PortalInit
  <1>2. [PortalNext]_portalVars => [Next]_vars
    BY DEF PortalNext, portalVars
  <1> QED
    BY <1>1, <1>2, PTL DEF PortalSpec, Spec

\* The invariant of the meals and dishes pages holds in every state.
THEOREM MealsInvariance == PortalSpec => []MealsInv
  <1>1. MealsInv /\ [PortalNext]_portalVars => MealsInv'
    <2>1. [PortalNext]_portalVars => M!MealsNext \/ UNCHANGED mealVars
      BY DEF PortalNext, portalVars
    <2> QED
      BY <2>1, MealsStep
  <1> QED
    BY MealsInit, <1>1, PTL DEF PortalSpec

\* A planned meal refers to a dish that is there or to none and always has a
\* name, whatever is deleted while it is planned (dishes.py 4-5).
THEOREM MealsOutliveTheirDishes == PortalSpec => []MealsOutliveDishes
  <1>1. MealsInv => MealsOutliveDishes
    BY DEF MealsInv
  <1> QED
    BY <1>1, MealsInvariance, PTL

\* A stored dish is what one request wrote, fields and tags, unless two edits of
\* it overlapped.
THEOREM DishesAreOneEdit == PortalSpec => []DishIsOneEdit
  <1>1. MealsInv => DishIsOneEdit
    BY DEF MealsInv
  <1> QED
    BY <1>1, MealsInvariance, PTL

\* The invariant of the assistant holds in every state.
THEOREM AssistantInvariance == PortalSpec => []AssistantInv
  <1>1. AssistantInv /\ [PortalNext]_portalVars => AssistantInv'
    <2>1. [PortalNext]_portalVars => A!AssistantNext \/ UNCHANGED assistantVars
      BY DEF PortalNext, portalVars
    <2> QED
      BY <2>1, AssistantStep
  <1> QED
    BY AssistantInit, <1>1, PTL DEF PortalSpec

\* Whatever other messages had made when it read its context, a message that the
\* model works on knows, or a context may leave it out (context.py, recent, open).
THEOREM AssistantKnowsTheFamily == PortalSpec => []AssistantKnows
  <1>1. AssistantInv => AssistantKnows
    BY DEF AssistantInv, Recalls, AssistantKnows, A!AssistantKnows
  <1> QED
    BY <1>1, AssistantInvariance, PTL

\* Every variable of the portal has its type in every state.
THEOREM PortalTypeCorrect == PortalSpec => []PortalTypeOK
  <1>1. MealsInv => M!MealsTypeOK
    BY DEF MealsInv
  <1>2. AssistantInv => A!AssistantTypeOK
    BY AssistantTypes
  <1>3. TypeOK /\ M!MealsTypeOK /\ A!AssistantTypeOK => PortalTypeOK
    BY DEF PortalTypeOK
  <1> QED
    BY <1>1, <1>2, <1>3, PortalIsACalendar, CalendarTypeCorrect, MealsInvariance,
       AssistantInvariance, PTL
=============================================================================
