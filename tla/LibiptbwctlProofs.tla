------------------------- MODULE LibiptbwctlProofs -------------------------
(***************************************************************************)
(* Theorems about libiptbwctl.                                             *)
(*                                                                         *)
(* The history of a rule (BwHistory): the kernel's histories tell the      *)
(* truth, and so does the backup file, for any zone, interval, calendar    *)
(* and number of hosts, and through any sequence of packets, backups,      *)
(* restarts and power losses.  The proof goes by indices: a true history   *)
(* covers n intervals from that of index a, and what the kernel and the    *)
(* file have of it is computed from a and n.  It has three parts: what     *)
(* the library's functions compute of such a history, what the kernel's    *)
(* do, and that every step keeps the histories such.                       *)
(*                                                                         *)
(* The semaphore (BwSemaphore): it is a lock for any number of processes,  *)
(* kills and signals included, until the handler of some process raises a  *)
(* semaphore that the process does not own (stray), which without signals  *)
(* never happens.                                                          *)
(***************************************************************************)
EXTENDS BwHistory, BwSemaphore, NaturalSets, SequenceTheorems, TLAPS

-----------------------------------------------------------------------------
\* The greatest of a set, and the offset from UTC.

\* A bounded set of integers that is not empty has a greatest element.
LEMMA MaxIs ==
  ASSUME NEW S, S \subseteq Int, NEW b \in Int, \A n \in S : n <= b, S # {}
  PROVE  Max(S) \in S /\ \A n \in S : n <= Max(S)
<1> DEFINE C == {b - n : n \in S}
<1>1. C \subseteq Nat
  <2> SUFFICES ASSUME NEW n \in S PROVE b - n \in Nat
    OBVIOUS
  <2>1. n \in Int /\ n <= b
    OBVIOUS
  <2> QED  BY <2>1
<1>0. C # {}
  OBVIOUS
<1>2. PICK k \in C : \A m \in C : k <= m
  <2> HIDE DEF C
  <2> QED  BY <1>0, <1>1, Smallest
<1>3. PICK n \in S : k = b - n
  BY <1>2
<1>4. \A m \in S : n >= m
  <2> TAKE m \in S
  <2>1. b - m \in C
    OBVIOUS
  <2>2. k <= b - m
    BY <2>1, <1>2
  <2>3. m \in Int /\ n \in Int
    OBVIOUS
  <2> QED  BY <2>2, <2>3, <1>3
<1>5. \A m \in S : Max(S) >= m /\ Max(S) \in S
  BY <1>4 DEF Max
<1> QED  BY <1>5

\* Who belongs to a set and is no less than any other is its greatest.
LEMMA MaxOf ==
  ASSUME NEW S, S \subseteq Int, NEW m \in S, \A n \in S : n <= m
  PROVE  Max(S) = m
<1>0. \E x \in S : \A y \in S : x >= y
  <2>1. \A y \in S : m >= y
    OBVIOUS
  <2> QED  BY <2>1
<1>1. Max(S) \in S /\ \A n \in S : Max(S) >= n
  BY <1>0 DEF Max
<1>2. Max(S) \in Int /\ m \in Int /\ Max(S) >= m /\ Max(S) <= m
  BY <1>1
<1> QED  BY <1>2

\* Who belongs to a set and is no greater than any other is its least.
LEMMA MinOf ==
  ASSUME NEW S, S \subseteq Int, NEW m \in S, \A n \in S : m <= n
  PROVE  Min(S) = m
<1>0. \E x \in S : \A y \in S : x =< y
  OBVIOUS
<1>1. Min(S) \in S /\ \A n \in S : Min(S) =< n
  BY <1>0 DEF Min
<1>2. Min(S) \in Int /\ m \in Int /\ Min(S) <= m /\ Min(S) >= m
  BY <1>1
<1> QED  BY <1>2


-----------------------------------------------------------------------------
\* The calendar and the offset from UTC.

\* A time after the first day of a month.
Dated(t) == t \in Int /\ \E m \in MonthStarts : (m + 1) * Day <= t
\* The month of day d began on this day; its days are numbered from 1.
FirstDay(d) == Max({m \in MonthStarts : m <= d})

\* The month of a day is the last one that has begun.
LEMMA MonthOf ==
  ASSUME NEW d \in Int, NEW m0 \in MonthStarts, m0 <= d
  PROVE  /\ FirstDay(d) \in MonthStarts /\ FirstDay(d) <= d
         /\ \A m \in MonthStarts : m <= d => m <= FirstDay(d)
<1> DEFINE S == {m \in MonthStarts : m <= d}
<1>1. S \subseteq Int /\ S # {} /\ \A n \in S : n <= d
  BY CalendarAssumption
<1>2. Max(S) \in S /\ \A n \in S : n <= Max(S)
  <2> HIDE DEF S
  <2> QED  BY <1>1, MaxIs
<1> QED  BY <1>2 DEF FirstDay

\* The number of a day in its month.
InMonth(d) == d - FirstDay(d) + 1
\* The day after another is the next one of its month or the first of the
\* next month, in which case the other is no earlier than the 28th.
LEMMA NextDayOfMonth ==
  ASSUME NEW d \in Int, NEW m0 \in MonthStarts, m0 <= d
  PROVE  /\ InMonth(d) \in Int /\ InMonth(d) >= 1
         /\ \/ InMonth(d + 1) = InMonth(d) + 1
            \/ InMonth(d + 1) = 1 /\ InMonth(d) >= 28
<1>1. /\ FirstDay(d) \in MonthStarts /\ FirstDay(d) <= d
      /\ \A m \in MonthStarts : m <= d => m <= FirstDay(d)
  BY MonthOf
<1>2. d + 1 \in Int /\ m0 <= d + 1 /\ m0 \in Int
  BY CalendarAssumption
<1>3. /\ FirstDay(d + 1) \in MonthStarts /\ FirstDay(d + 1) <= d + 1
      /\ \A m \in MonthStarts : m <= d + 1 => m <= FirstDay(d + 1)
  BY <1>2, MonthOf
<1>4. FirstDay(d) \in Int /\ FirstDay(d + 1) \in Int
  <2>1. MonthStarts \subseteq Int
    BY CalendarAssumption
  <2>2. FirstDay(d) \in MonthStarts /\ FirstDay(d + 1) \in MonthStarts
    BY <1>1, <1>3
  <2> QED  BY <2>1, <2>2
<1>5. CASE FirstDay(d + 1) <= d
  <2>1. FirstDay(d + 1) = FirstDay(d)
    <3>1. FirstDay(d + 1) <= FirstDay(d)
      BY <1>1, <1>3, <1>5
    <3>2. FirstDay(d) <= d + 1
      BY <1>1, <1>4
    <3>3. FirstDay(d) <= FirstDay(d + 1)
      BY <1>1, <1>3, <3>2
    <3> QED  BY <1>4, <3>1, <3>3
  <2> QED  BY <1>1, <1>4, <2>1 DEF InMonth
<1>6. CASE FirstDay(d + 1) = d + 1
  <2>1. FirstDay(d) + 28 <= d + 1
    BY <1>1, <1>3, <1>4, <1>6, CalendarAssumption
  <2> QED  BY <1>1, <1>4, <1>6, <2>1 DEF InMonth
<1> QED  BY <1>3, <1>4, <1>5, <1>6

\* The offsets of the zone.
Offsets == {case.zone.before, case.zone.after}

\* They are of less than a day.
LEMMA ZoneShape ==
  ASSUME case \in Cases
  PROVE  /\ case.zone.change \in Int /\ Offsets \subseteq OffsetRange
         /\ Offsets \subseteq Int
         /\ \A t : West(t) \in Offsets /\ West(t) \in Int
<1>1. /\ case.zone.change \in Int /\ case.zone.before \in OffsetRange
      /\ case.zone.after \in OffsetRange
  BY CaseAssumption DEF RuleShape
<1>2. ASSUME NEW x \in OffsetRange PROVE x \in Int
  BY DEF OffsetRange
<1>3. Offsets \subseteq OffsetRange
  BY <1>1 DEF Offsets
<1>4. Offsets \subseteq Int
  BY <1>2, <1>3
<1>5. ASSUME NEW t PROVE West(t) \in Offsets
  BY DEF Offsets, West, WestIn
<1>6. \A t : West(t) \in Offsets /\ West(t) \in Int
  BY <1>4, <1>5
<1> QED  BY <1>1, <1>3, <1>4, <1>6

\* A time is a number of days and a rest.
LEMMA DayAndRest ==
  ASSUME NEW t \in Int
  PROVE  /\ t \div Day \in Int /\ t % Day \in Int
         /\ t = 86400 * (t \div Day) + (t % Day)
         /\ 0 <= t % Day /\ t % Day < 86400
<1> DEFINE q == t \div Day   r == t % Day
<1>1. r = t - 86400 * q
  BY DEF Day
<1>2. q \in Int /\ r \in Int
  BY DEF Day
<1>3. 0 <= r /\ r < 86400
  BY DEF Day
<1>4. t = 86400 * q + r
  <2> HIDE DEF q, r
  <2> QED  BY <1>1, <1>2
<1> QED  BY <1>2, <1>3, <1>4

\* get_minutes_west, which compares the days of the month and the minutes of
\* the day in UTC and in local time, computes the offset from UTC, in every
\* zone and on every day, the first and the last of a month included.
THEOREM MinutesWestRight ==
  ASSUME case \in Cases, NEW t \in Int, Dated(t - Day)
  PROVE  GetMinutesWest(t) = West(t)
<1> DEFINE w == West(t)
           l == t - 60 * w
           day == t \div Day   lday == l \div Day
           rest == t % Day     lrest == l % Day
<1>1. w \in Int /\ -1439 <= w /\ w <= 1439
  <2>1. ASSUME NEW x \in OffsetRange
        PROVE  x \in Int /\ -1439 <= x /\ x <= 1439
    BY DEF OffsetRange
  <2>2. w \in OffsetRange
    BY ZoneShape
  <2> HIDE DEF w
  <2> QED  BY <2>1, <2>2
<1>2. l = Local(t) /\ l \in Int
  <2>1. l = Local(t)
    BY DEF Local, LocalIn, West
  <2> HIDE DEF w
  <2>2. l \in Int
    BY <1>1
  <2> QED  BY <2>1, <2>2
<1> HIDE DEF w
<1>3. /\ day \in Int /\ lday \in Int /\ rest \in Int /\ lrest \in Int
      /\ t = 86400 * day + rest /\ l = 86400 * lday + lrest
      /\ 0 <= rest /\ rest < 86400 /\ 0 <= lrest /\ lrest < 86400
  BY <1>2, DayAndRest
<1> HIDE DEF day, lday, rest, lrest
<1>4. lday - 1 <= day /\ day <= lday + 1
  <2>1. l = t - 60 * w
    OBVIOUS
  <2> HIDE DEF l
  <2>2. -86400 < t - l /\ t - l < 86400
    BY <1>1, <1>2, <2>1
  <2> QED  BY <1>2, <1>3, <2>2
<1>5. rest \div 60 - lrest \div 60 = w - 1440 * (day - lday)
  BY <1>1, <1>3 DEF l
<1>6. PICK m0 \in MonthStarts : m0 + 1 <= day
  <2>1. PICK m \in MonthStarts : (m + 1) * Day <= t - Day
    BY DEF Dated
  <2> QED  BY <2>1, <1>3, CalendarAssumption DEF Day
<1>7. m0 \in Int
  BY CalendarAssumption
<1> DEFINE a == InMonth(day)
           b == InMonth(lday)
<1>8. DayOfMonth(t) = a /\ DayOfMonth(l) = b
  BY DEF DayOfMonth, FirstDay, InMonth, day, lday
<1> DEFINE utc == IF a < b - 1 THEN b + 1 ELSE a
           tz == IF b < utc - 1 THEN utc + 1 ELSE b
<1>9. GetMinutesWest(t) = 1440 * (utc - tz) + rest \div 60 - lrest \div 60
  <2>1. Day \div 60 = 1440
    BY DEF Day
  <2> HIDE DEF a, b, l
  <2> QED  BY <1>2, <1>8, <2>1 DEF GetMinutesWest, rest, lrest
<1>10. utc \in Int /\ tz \in Int /\ utc - tz = day - lday
  <2>1. \/ day = lday /\ a = b
        \/ day = lday + 1 /\ b >= 1 /\ (a = b + 1 \/ (a = 1 /\ b >= 28))
        \/ lday = day + 1 /\ a >= 1 /\ (b = a + 1 \/ (b = 1 /\ a >= 28))
    <3>1. CASE day = lday
      BY <3>1
    <3>2. CASE day = lday + 1
      <4>1. m0 <= lday /\ lday \in Int
        BY <1>3, <1>6, <1>7, <3>2
      <4> QED  BY <3>2, <4>1, NextDayOfMonth
    <3>3. CASE lday = day + 1
      <4>1. m0 <= day /\ day \in Int
        BY <1>3, <1>6, <1>7
      <4> QED  BY <3>3, <4>1, NextDayOfMonth
    <3> QED  BY <1>3, <1>4, <3>1, <3>2, <3>3
  <2>2. a \in Int /\ b \in Int
    <3>1. m0 <= lday /\ m0 <= day
      BY <1>3, <1>4, <1>6, <1>7
    <3> QED  BY <1>3, <3>1, NextDayOfMonth
  <2> HIDE DEF a, b
  <2>3. utc \in Int /\ tz \in Int
    BY <2>2
  <2> QED  BY <2>1, <2>2, <2>3, <1>3
<1>11. rest \div 60 \in Int /\ lrest \div 60 \in Int
  BY <1>3
<1> HIDE DEF utc, tz
<1>12. GetMinutesWest(t) = w
  <2> DEFINE x == rest \div 60   y == lrest \div 60
  <2>1. /\ x \in Int /\ y \in Int /\ x - y = w - 1440 * (day - lday)
        /\ GetMinutesWest(t) = 1440 * (utc - tz) + x - y
    BY <1>5, <1>9, <1>11
  <2>2. w \in Int /\ day \in Int /\ lday \in Int
    BY <1>1, <1>3
  <2> HIDE DEF x, y
  <2>3. GetMinutesWest(t) = 1440 * (day - lday) + x - y
    BY <2>1, <1>10
  <2> QED  BY <2>1, <2>2, <2>3
<1> QED  BY <1>12 DEF w

-----------------------------------------------------------------------------
\* How the library finds where intervals begin.

\* The times at which intervals begin, in increasing order.
Starts == case.starts
Total == Len(case.starts)

\* They are two or more times that grow.
LEMMA StartShape ==
  ASSUME case \in Cases
  PROVE  /\ Total \in Nat /\ Total >= 2 /\ Starts \in [1 .. Total -> Int]
         /\ \A i, j \in 1 .. Total : i < j => Starts[i] < Starts[j]
<1>1. StartsShape(case)
  BY CaseAssumption
<1>2. Starts \in Seq(Int) /\ Total >= 2
  BY <1>1 DEF StartsShape, Starts, Total
<1>3. \A i, j \in 1 .. Total : i < j => Starts[i] < Starts[j]
  BY <1>1 DEF StartsShape, Starts, Total
<1>4. Total \in Nat /\ Starts \in [1 .. Total -> Int]
  BY <1>2, LenProperties DEF Starts, Total
<1> QED  BY <1>2, <1>3, <1>4

\* A start is on the same side of the change of the zone in every view.
LEMMA SameSide ==
  ASSUME case \in Cases, NEW i \in 1 .. Total, NEW w \in Offsets
  PROVE  West(View(Starts[i], w)) = West(Starts[i])
<1>1. FarFromChange(case)
  BY CaseAssumption
<1>2. WestIn(case.zone, ViewIn(case.zone, Starts[i], w))
        = WestIn(case.zone, Starts[i])
  BY <1>1 DEF FarFromChange, Offsets, Starts, Total
<1> QED  BY <1>2 DEF West, View

\* mktime finds the start again that a local time is of.
LEMMA MkTimeRight ==
  ASSUME case \in Cases, NEW i \in 1 .. Total
  PROVE  MkTime(Local(Starts[i])) = Starts[i]
<1> DEFINE s == Starts[i]   l == Local(s)   w == West(s)
           C == {l + 60 * case.zone.before, l + 60 * case.zone.after}
<1>0. \A v \in Offsets : v \in Int
  BY ZoneShape
<1>1. s \in Int /\ w \in Offsets /\ w \in Int
  <2>1. Starts \in [1 .. Total -> Int]
    BY StartShape
  <2>2. West(s) \in Offsets
    BY ZoneShape
  <2> QED  BY <1>0, <2>1, <2>2
<1>2. l = s - 60 * w
  BY DEF Local, LocalIn, West
<1>3. l \in Int /\ Offsets \subseteq Int
  <2> HIDE DEF s, w, l
  <2> QED  BY <1>0, <1>1, <1>2
<1>4. C = {l + 60 * v : v \in Offsets}
  BY DEF Offsets
<1>5. s \in C
  <2>1. s = l + 60 * w
    BY <1>1, <1>2, <1>3
  <2> HIDE DEF s, l, w, C
  <2> QED  BY <1>1, <1>4, <2>1
<1>6. ASSUME NEW t \in C, Local(t) = l PROVE t = s
  <2>1. PICK v \in Offsets : t = l + 60 * v
    BY <1>4
  <2>2. v \in Int /\ West(t) \in Int /\ t \in Int
    <3>1. West(t) \in Offsets
      BY ZoneShape
    <3>2. v \in Int /\ West(t) \in Int
      BY <1>0, <3>1
    <3>3. t \in Int
      <4> HIDE DEF l, C
      <4> QED  BY <2>1, <1>3, <3>2
    <3> QED  BY <3>2, <3>3
  <2>3. Local(t) = t - 60 * West(t)
    BY DEF Local, LocalIn, West
  <2>4. West(t) = v
    <3> HIDE DEF l, C
    <3>1. l = t - 60 * West(t)
      BY <1>6, <2>3
    <3>2. t \in Int /\ West(t) \in Int /\ v \in Int /\ l \in Int
      BY <1>3, <2>2
    <3> QED  BY <2>1, <3>1, <3>2
  <2>5. View(s, v) = s + 60 * (v - w)
    BY DEF View, ViewIn, West
  <2>6. t = View(s, v)
    <3> HIDE DEF l, s, w
    <3> QED  BY <1>1, <1>2, <1>3, <2>1, <2>2, <2>5
  <2>7. v = w
    BY <2>4, <2>6, SameSide
  <2> HIDE DEF l, s, w
  <2> QED  BY <1>1, <1>2, <2>1, <2>7
<1>7. MkTime(l) = CHOOSE t \in C : Local(t) = l
  BY DEF MkTime
<1>8. Local(s) = l
  OBVIOUS
<1> HIDE DEF s, l, w, C
<1>9. (CHOOSE t \in C : Local(t) = l) = s
  BY <1>5, <1>6, <1>8
<1> QED  BY <1>7, <1>9 DEF s, l

\* Adding one to a quotient gives the next multiple: minutes, hours, days.
LEMMA Multiple ==
  ASSUME NEW u \in {60, Hour, Day}, NEW k \in Int, NEW l \in Int,
         k < l, l % u = 0, l - u <= k
  PROVE  (k \div u + 1) * u = l
<1>1. CASE u = 60
  BY <1>1
<1>2. CASE u = 3600
  BY <1>2
<1>3. CASE u = 86400
  BY <1>3
<1> QED  BY <1>1, <1>2, <1>3 DEF Hour, Day

\* The next Sunday is the next multiple of seven days.
LEMMA WeekMultiple ==
  ASSUME NEW k \in Int, NEW l \in Int,
         k < l, l % (7 * Day) = 0, l - 7 * Day <= k
  PROVE  Min({d \in k \div Day + 1 .. k \div Day + 7 : d % 7 = 0}) * Day = l
<1>1. PICK q \in Int : l = 604800 * q
  <2>1. l % 604800 = 0
    BY DEF Day
  <2> QED  BY <2>1
<1> DEFINE c == k \div Day   W == {d \in c + 1 .. c + 7 : d % 7 = 0}
<1>2. c \in Int /\ 86400 * c <= k /\ k < 86400 * c + 86400
  <2>1. k \in Int /\ k % Day \in Int /\ c \in Int
    BY DayAndRest
  <2>2. k = 86400 * c + (k % Day) /\ 0 <= k % Day /\ k % Day < 86400
    BY DayAndRest
  <2> DEFINE r == k % Day
  <2> HIDE DEF c, r
  <2> QED  BY <2>1, <2>2 DEF r
<1> HIDE DEF c
<1>3. c + 1 <= 7 * q /\ 7 * q <= c + 7
  BY <1>1, <1>2 DEF Day
<1>4. (7 * q) % 7 = 0
  OBVIOUS
<1>5. 7 * q \in W
  BY <1>1, <1>2, <1>3, <1>4
<1>6. \A d \in W : 7 * q <= d
  <2> SUFFICES ASSUME NEW d \in c + 1 .. c + 7, d % 7 = 0 PROVE 7 * q <= d
    OBVIOUS
  <2>1. d \in Int
    BY <1>2
  <2>2. PICK p \in Int : d = 7 * p
    BY <2>1
  <2> QED  BY <1>1, <1>2, <1>3, <2>2
<1>7. W \subseteq Int
  BY <1>2
<1> HIDE DEF W
<1>8. Min(W) = 7 * q
  BY <1>5, <1>6, <1>7, MinOf
<1> QED  BY <1>1, <1>8 DEF c, W, Day

\* The next first day of a month.
LEMMA MonthMultiple ==
  ASSUME NEW k \in Int, NEW m \in MonthStarts, k < m * Day,
         \A n \in MonthStarts : n * Day > k => n >= m
  PROVE  Min({n \in MonthStarts : n * Day > k}) = m
<1>1. MonthStarts \subseteq Int
  BY CalendarAssumption
<1> DEFINE M == {n \in MonthStarts : n * Day > k}
<1>2. M \subseteq Int /\ \A n \in M : m <= n
  BY <1>1
<1>3. m \in M
  BY <1>1 DEF Day
<1> HIDE DEF M
<1>4. Min(M) = m
  BY <1>2, <1>3, MinOf
<1> QED  BY <1>4 DEF M

\* get_next_node_start_time finds where the next interval begins, whatever the
\* interval is and through a change of the zone.
THEOREM NextStartRight ==
  ASSUME case \in Cases, NEW i \in 1 .. Total - 1
  PROVE  NextStart(Starts[i]) = Starts[i + 1]
<1> DEFINE k == Local(Starts[i])   l == Local(Starts[i + 1])
<1>1. Total \in Nat /\ i \in 1 .. Total /\ i + 1 \in 1 .. Total
  BY StartShape
<1>0. RuleShape(case) /\ StartsFollow(case)
  BY CaseAssumption
<1>2. CASE case.constant
  BY <1>0, <1>2 DEF StartsFollow, NextStart, Starts, Total
<1>3. CASE ~case.constant
  <2>1. Follows(case.interval, k, l) /\ case.interval \in Nat
    <3>1. Follows(case.interval, k, l)
      BY <1>0, <1>3 DEF StartsFollow, Starts, Total, Local
    <3> QED  BY <1>0, <3>1 DEF RuleShape
  <2>2. k \in Int /\ l \in Int
    <3>1. ASSUME NEW t \in Int PROVE Local(t) \in Int
      <4>1. West(t) \in Int
        BY ZoneShape
      <4> QED  BY <4>1 DEF Local, LocalIn, West
    <3> QED  BY <3>1, <1>1, StartShape
  <2>3. NextLocal(k) = l
    <3> HIDE DEF k, l
    <3> USE DEF BANDWIDTH_MINUTE, BANDWIDTH_HOUR, BANDWIDTH_DAY, BANDWIDTH_WEEK
    <3>1. CASE case.interval = BANDWIDTH_MINUTE
      <4>1. k < l /\ l % 60 = 0 /\ l - 60 <= k
        BY <2>1, <3>1 DEF Follows
      <4>2. (k \div 60 + 1) * 60 = l
        BY <2>2, <4>1, Multiple
      <4> QED  BY <3>1, <4>2 DEF NextLocal
    <3>2. CASE case.interval = BANDWIDTH_HOUR
      <4>1. k < l /\ l % Hour = 0 /\ l - Hour <= k
        BY <2>1, <3>2 DEF Follows
      <4>2. (k \div Hour + 1) * Hour = l
        BY <2>2, <4>1, Multiple
      <4> QED  BY <3>2, <4>2 DEF NextLocal
    <3>3. CASE case.interval = BANDWIDTH_DAY
      <4>1. k < l /\ l % Day = 0 /\ l - Day <= k
        BY <2>1, <3>3 DEF Follows
      <4>2. (k \div Day + 1) * Day = l
        BY <2>2, <4>1, Multiple
      <4> QED  BY <3>3, <4>2 DEF NextLocal
    <3>4. CASE case.interval = BANDWIDTH_WEEK
      <4>1. k < l /\ l % (7 * Day) = 0 /\ l - 7 * Day <= k
        BY <2>1, <3>4 DEF Follows
      <4>2. Min({d \in k \div Day + 1 .. k \div Day + 7 : d % 7 = 0}) * Day = l
        BY <2>2, <4>1, WeekMultiple
      <4> QED  BY <3>4, <4>2 DEF NextLocal
    <3>5. CASE case.interval \notin BANDWIDTH_MINUTE .. BANDWIDTH_WEEK
      <4>1. PICK m \in MonthStarts :
              l = m * Day /\ \A n \in MonthStarts : n * Day > k => n >= m
        BY <2>1, <3>5 DEF Follows
      <4>2. k < m * Day
        BY <2>1, <4>1 DEF Follows
      <4>3. Min({n \in MonthStarts : n * Day > k}) = m
        BY <2>2, <4>1, <4>2, MonthMultiple
      <4>4. NextLocal(k) = Min({n \in MonthStarts : n * Day > k}) * Day
        BY <3>5 DEF NextLocal
      <4> QED  BY <4>1, <4>3, <4>4
    <3> QED  BY <2>1, <3>1, <3>2, <3>3, <3>4, <3>5
  <2>4. MkTime(l) = Starts[i + 1]
    BY <1>1, MkTimeRight
  <2> QED  BY <1>3, <2>3, <2>4 DEF NextStart
<1> QED  BY <1>2, <1>3

\* A stretch of the intervals: from the one of index a, n of them.
Stretch(s, a, n) == [i \in 1 .. n |-> s[a + i - 1]]

\* get_interval_starts_for_history finds the start of every interval of a
\* history from the first one.
THEOREM IntervalStartsRight ==
  ASSUME case \in Cases, NEW history, NEW n \in Nat, NEW a \in 1 .. Total,
         Len(history.bws) = n, a + n - 1 <= Total, history.start = Starts[a]
  PROVE  IntervalStarts(history) = Stretch(Starts, a, n)
<1> DEFINE Step(f) == [i \in 1 .. n |->
                        IF i = 1 THEN history.start ELSE NextStart(f[i - 1])]
           right == Stretch(Starts, a, n)
           start == CHOOSE f : f = Step(f)
<1>1. right = Step(right)
  <2>1. ASSUME NEW i \in 1 .. n PROVE right[i] = Step(right)[i]
    <3>1. CASE i = 1
      BY <3>1 DEF Stretch
    <3>2. CASE i # 1
      <4>1. i - 1 \in 1 .. n /\ a + (i - 1) - 1 \in 1 .. Total - 1 /\ Total \in Nat
        BY <3>2, StartShape
      <4>2. right[i - 1] = Starts[a + (i - 1) - 1]
        BY <4>1 DEF Stretch
      <4>3. NextStart(right[i - 1]) = Starts[(a + (i - 1) - 1) + 1]
        BY <4>1, <4>2, NextStartRight
      <4>4. (a + (i - 1) - 1) + 1 = a + i - 1
        OBVIOUS
      <4> QED  BY <3>2, <4>3, <4>4 DEF Stretch
    <3> QED  BY <3>1, <3>2
  <2> QED  BY <2>1 DEF Stretch
<1>2. start = Step(start)
  <2> HIDE DEF right
  <2> QED  BY <1>1
<1>3. \A i \in 1 .. n : start[i] = right[i]
  <2> DEFINE T == {j \in Nat : j + 1 \in 1 .. n => start[j + 1] = right[j + 1]}
  <2> HIDE DEF start, right
  <2>1. 0 \in T
    <3> SUFFICES ASSUME 1 \in 1 .. n PROVE start[1] = right[1]
      OBVIOUS
    <3>1. start[1] = history.start
      BY <1>2
    <3>2. right[1] = history.start
      BY <1>1
    <3> QED  BY <3>1, <3>2
  <2>2. ASSUME NEW j \in Nat, j \in T PROVE j + 1 \in T
    <3> SUFFICES ASSUME (j + 1) + 1 \in 1 .. n
                 PROVE  start[(j + 1) + 1] = right[(j + 1) + 1]
      OBVIOUS
    <3>1. start[j + 1] = right[j + 1]
      BY <2>2
    <3> DEFINE i == (j + 1) + 1
    <3>2. i \in 1 .. n /\ i # 1 /\ i - 1 = j + 1
      OBVIOUS
    <3> HIDE DEF i
    <3>3. start[i] = NextStart(start[j + 1]) /\ right[i] = NextStart(right[j + 1])
      BY <1>1, <1>2, <3>2
    <3> QED  BY <3>1, <3>3 DEF i
  <2> HIDE DEF T
  <2>3. \A j \in Nat : j \in T
    BY <2>1, <2>2, Induction
  <2> TAKE i \in 1 .. n
  <2>4. i - 1 \in Nat /\ (i - 1) + 1 = i
    OBVIOUS
  <2> QED  BY <2>3, <2>4 DEF T
<1>4. IntervalStarts(history) = [i \in 1 .. n |-> start[i]]
  BY DEF IntervalStarts
<1> QED  BY <1>3, <1>4 DEF Stretch

-----------------------------------------------------------------------------
\* The interval the clock is in.

\* An interval of integers has as many members as its ends are apart, and one.
LEMMA CountOf ==
  ASSUME NEW a \in Int, NEW b \in Int, a <= b + 1
  PROVE  Cardinality(a .. b) = b - a + 1
<1>1. Cardinality(a .. b) = IF a > b THEN 0 ELSE b - a + 1
  BY FS_Interval
<1> QED  BY <1>1

\* The clock is in one of the intervals, before the last start, and the kernel
\* has one of the offsets of the zone.
Timely ==
    /\ case \in Cases
    /\ clock \in Int /\ Starts[1] <= clock /\ clock < Starts[Total]
    /\ sys_west \in Offsets

\* Present is the interval the clock is in.
LEMMA PresentIs ==
  ASSUME Timely
  PROVE  /\ Present \in 1 .. Total - 1
         /\ \A i \in 1 .. Total : Starts[i] <= clock <=> i <= Present
<1> DEFINE B == {i \in DOMAIN case.starts : case.starts[i] <= clock}
<1>1. DOMAIN case.starts = 1 .. Total /\ Total \in Nat /\ Total >= 2
  BY StartShape DEF Timely, Starts
<1>2. B = {i \in 1 .. Total : Starts[i] <= clock}
  BY <1>1 DEF Starts
<1>3. B \subseteq Int /\ Total \in Int /\ \A i \in B : i <= Total
  BY <1>1
<1>4. 1 \in B
  BY <1>1, <1>2 DEF Timely
<1>5. Max(B) \in B /\ \A i \in B : i <= Max(B)
  <2> HIDE DEF B
  <2> QED  BY <1>3, <1>4, MaxIs
<1>6. Present = Max(B)
  BY DEF Present
<1>7. Present \in 1 .. Total /\ Starts[Present] <= clock
  BY <1>2, <1>5, <1>6
<1>8. \A i \in 1 .. Total : Starts[i] <= clock => i <= Present
  BY <1>2, <1>5, <1>6
<1>9. Present # Total
  <2> SUFFICES ASSUME Present = Total PROVE FALSE
    OBVIOUS
  <2>1. Starts[Total] \in Int
    BY <1>1, StartShape DEF Timely
  <2> QED  BY <1>7, <2>1 DEF Timely
<1>10. ASSUME NEW i \in 1 .. Total, i <= Present PROVE Starts[i] <= clock
  <2>1. Starts[i] \in Int /\ Starts[Present] \in Int
    BY <1>7, StartShape DEF Timely
  <2>2. i = Present \/ Starts[i] < Starts[Present]
    BY <1>7, <1>10, StartShape DEF Timely
  <2> QED  BY <1>7, <2>1, <2>2 DEF Timely
<1> HIDE DEF B
<1>11. Present \in 1 .. Total - 1
  BY <1>1, <1>7, <1>9
<1> QED  BY <1>8, <1>10, <1>11

\* The kernel's view of the starts keeps their order.
LEMMA ViewsGrow ==
  ASSUME case \in Cases, NEW w \in Int, NEW i \in 1 .. Total, NEW j \in 1 .. Total
  PROVE  /\ View(Starts[i], w) \in Int
         /\ i < j => View(Starts[i], w) < View(Starts[j], w)
<1> DEFINE s == Starts[i]   t == Starts[j]   before == case.zone.before
           after == case.zone.after   change == case.zone.change
<1>1. s \in Int /\ t \in Int /\ (i < j => s < t)
  <2>1. /\ Starts \in [1 .. Total -> Int]
        /\ \A x, y \in 1 .. Total : x < y => Starts[x] < Starts[y]
    BY StartShape
  <2> QED  BY <2>1
<1>2. change \in Int /\ before \in Int /\ after \in Int /\ after \in Offsets
  <2>1. before \in Offsets /\ after \in Offsets
    BY DEF Offsets
  <2> HIDE DEF before, after
  <2> QED  BY <2>1, ZoneShape
<1>3. /\ West(s) = IF s < change THEN before ELSE after
      /\ West(t) = IF t < change THEN before ELSE after
  BY DEF West, WestIn
<1>4. /\ View(s, w) = s + 60 * (w - West(s))
      /\ View(t, w) = t + 60 * (w - West(t))
      /\ View(s, after) = s + 60 * (after - West(s))
  BY DEF View, ViewIn, West
<1>5. West(View(s, after)) = West(s)
  BY <1>2, SameSide
<1>6. West(View(s, after)) = IF View(s, after) < change THEN before ELSE after
  BY DEF West, WestIn
<1> HIDE DEF s, t, before, after, change
<1>7. View(s, w) \in Int /\ View(t, w) \in Int
  BY <1>1, <1>2, <1>3, <1>4
<1>8. CASE West(s) = West(t)
  BY <1>1, <1>2, <1>3, <1>4, <1>8 DEF s, t
<1>9. ASSUME West(s) # West(t), i < j PROVE View(s, w) < View(t, w)
  <2>1. s < change /\ change <= t /\ before # after
    BY <1>1, <1>2, <1>3, <1>9
  <2>2. s + 60 * (after - before) < change
    BY <1>2, <1>3, <1>4, <1>5, <1>6, <2>1
  <2>3. View(s, w) = s + 60 * (w - before) /\ View(t, w) = t + 60 * (w - after)
    BY <1>1, <1>2, <1>3, <1>4, <2>1
  <2> QED  BY <1>1, <1>2, <2>1, <2>2, <2>3
<1> QED  BY <1>7, <1>8, <1>9 DEF s, t

-----------------------------------------------------------------------------
\* What the kernel keeps.

\* The last Nodes of a sequence, or all of it if it is no longer than that.
LEMMA LatestIs ==
  ASSUME NEW V, NEW s \in Seq(V), Len(s) >= 1
  PROVE  LET n == Len(s)   k == IF n <= Nodes THEN n ELSE Nodes
         IN /\ Latest(s) \in Seq(V) /\ Len(Latest(s)) = k
            /\ \A i \in 1 .. k : Latest(s)[i] = s[n - k + i]
            /\ n <= Nodes => Latest(s) = s
<1> DEFINE n == Len(s)   k == IF n <= Nodes THEN n ELSE Nodes
           M == {1, n - Nodes + 1}
<1>1. n \in Nat /\ Nodes \in Nat /\ Nodes >= 1 /\ k \in 1 .. n
  BY BoundAssumption
<1>2. Max(M) = n - k + 1
  <2>1. M \subseteq Int
    BY <1>1
  <2>2. \/ n - k + 1 = 1 /\ n - Nodes + 1 <= 1
        \/ n - k + 1 = n - Nodes + 1 /\ n - k + 1 >= 1
    <3>1. CASE n <= Nodes
      <4>1. k = n
        BY <3>1
      <4> HIDE DEF n, k
      <4> QED  BY <1>1, <3>1, <4>1
    <3>2. CASE ~(n <= Nodes)
      <4>1. k = Nodes
        BY <3>2
      <4> HIDE DEF n, k
      <4> QED  BY <1>1, <3>2, <4>1
    <3> QED  BY <3>1, <3>2
  <2>3. n - k + 1 \in M
    BY <1>1, <2>2
  <2>4. \A m \in M : m <= n - k + 1
    BY <1>1, <2>2
  <2> HIDE DEF M, n, k
  <2> QED  BY <2>1, <2>3, <2>4, MaxOf
<1>3. Latest(s) = SubSeq(s, n - k + 1, n)
  BY <1>2 DEF Latest
<1> DEFINE a == n - k + 1
<1>4. a \in Int /\ n \in Int /\ a <= n /\ n - a + 1 = k /\ \A i \in a .. n : s[i] \in V
  BY <1>1
<1>5. /\ SubSeq(s, a, n) \in Seq(V) /\ Len(SubSeq(s, a, n)) = n - a + 1
      /\ \A i \in 1 .. n - a + 1 : SubSeq(s, a, n)[i] = s[a + i - 1]
  <2> HIDE DEF a, n
  <2> QED  BY <1>4, SubSeqProperties
<1>6. \A i \in 1 .. k : s[a + i - 1] = s[n - k + i]
  <2> HIDE DEF n, k
  <2> TAKE i \in 1 .. k
  <2>1. a + i - 1 = n - k + i
    BY <1>1
  <2> QED  BY <2>1
<1>7. ASSUME n <= Nodes PROVE Latest(s) = s
  <2>1. a = 1
    BY <1>7, <1>1
  <2>2. SubSeq(s, 1, n) = s
    BY SubSeqFull
  <2> QED  BY <1>3, <2>1, <2>2
<1> HIDE DEF a
<1>8. /\ Latest(s) \in Seq(V) /\ Len(Latest(s)) = k
      /\ \A i \in 1 .. k : Latest(s)[i] = s[n - k + i]
  <2> HIDE DEF n, k
  <2> QED  BY <1>3, <1>4, <1>5, <1>6 DEF a
<1> QED  BY <1>7, <1>8

\* What is true of a history.
Truth == [starts : Seq(Int), bws : Seq(Nat)]

\* What is told covers the n intervals from the one of index a, which have all
\* begun at time t.
Covers(c, t, a, n, told) ==
    /\ a \in 1 .. Len(c.starts) /\ n \in 1 .. Nodes
    /\ a + n \in 1 .. Len(c.starts)
    /\ c.starts[a + n - 1] <= t
    /\ told \in Truth
    /\ told.starts = Stretch(c.starts, a, n) /\ Len(told.bws) = n

\* How many of n intervals are kept.
Capped(n) == IF n <= Nodes THEN n ELSE Nodes

\* The intervals that are told of are among those that have begun, and lie in
\* the past or are the present one; what is kept of them and of those since
\* begins no earlier than what is told.
LEMMA CoversPast ==
  ASSUME Timely, NEW a, NEW n, NEW told, Covers(case, clock, a, n, told)
  PROVE  /\ a \in 1 .. Total /\ n \in 1 .. Nodes /\ a + n \in 1 .. Total
         /\ a \in Nat /\ n \in Nat
         /\ Present \in 1 .. Total - 1 /\ Present \in Nat /\ Total \in Nat
         /\ Nodes \in Nat /\ a + n - 1 <= Present
         /\ a + n - 1 \in 1 .. Total
         /\ Present - Capped(Present - a + 1) + 1 >= a
<1>1. a \in 1 .. Total /\ n \in 1 .. Nodes /\ a + n \in 1 .. Total
  BY DEF Covers, Total
<1>2. Total \in Nat /\ Nodes \in Nat
  BY StartShape, BoundAssumption DEF Timely
<1>3. Present \in 1 .. Total - 1
  BY PresentIs
<1>4. a + n - 1 \in 1 .. Total
  BY <1>1, <1>2
<1>5. Starts[a + n - 1] <= clock
  BY DEF Covers, Starts
<1>6. a + n - 1 <= Present
  BY <1>4, <1>5, PresentIs
<1>7. /\ a \in Nat /\ n \in Nat /\ Present \in Nat
  BY <1>1, <1>2, <1>3
<1>8. Present - Capped(Present - a + 1) + 1 >= a
  BY <1>1, <1>2, <1>6, <1>7 DEF Capped
<1> QED  BY <1>1, <1>2, <1>3, <1>4, <1>6, <1>7, <1>8

\* What really happened, brought up to the present: zeros for the intervals in
\* which nothing was transferred, and the oldest forgotten.
LEMMA TrueSinceRight ==
  ASSUME Timely, NEW a, NEW n, NEW told, Covers(case, clock, a, n, told)
  PROVE  LET k == Capped(Present - a + 1)
         IN /\ Covers(case, clock, Present - k + 1, k, TrueSince(told))
            /\ TrueSince(told).bws
                = Latest(told.bws \o Zeros(Present - (a + n - 1)))
<1> DEFINE last == told.starts[Len(told.starts)]
           L == {i \in 1 .. Present : case.starts[i] > last}
           m == Present - (a + n - 1)
           k == Capped(Present - a + 1)
           news == SubSeq(case.starts, Present - Cardinality(L) + 1, Present)
           all == told.starts \o news
           bws == told.bws \o Zeros(m)
<1>1. /\ a \in 1 .. Total /\ n \in 1 .. Nodes /\ a + n \in 1 .. Total
      /\ a \in Nat /\ n \in Nat /\ Nodes \in Nat /\ Total \in Nat
      /\ Present \in 1 .. Total - 1 /\ Present \in Nat
      /\ a + n - 1 <= Present /\ a + n - 1 \in 1 .. Total
  BY CoversPast
<1>2. /\ told \in Truth /\ told.starts = Stretch(Starts, a, n)
      /\ Len(told.bws) = n
  BY DEF Covers, Starts
<1>3. /\ told.starts \in Seq(Int) /\ told.bws \in Seq(Nat)
  BY <1>2 DEF Truth
<1>4. Len(told.starts) = n /\ \A i \in 1 .. n : told.starts[i] = Starts[a + i - 1]
  <2>1. DOMAIN told.starts = 1 .. n
    BY <1>2 DEF Stretch
  <2>2. Len(told.starts) = n
    BY <2>1, <1>1, <1>3
  <2> QED  BY <2>2, <1>2 DEF Stretch
<1>5. last = Starts[a + n - 1]
  BY <1>1, <1>4
<1>6. L = a + n .. Present
  <2>1. L = {i \in 1 .. Present : Starts[i] > last}
    BY DEF Starts
  <2>2. \A i \in 1 .. Present : i \in 1 .. Total
    BY <1>1
  <2>3. case \in Cases
    BY DEF Timely
  <2>4. /\ \A i, j \in 1 .. Total : i < j => Starts[i] < Starts[j]
        /\ \A i \in 1 .. Total : Starts[i] \in Int
    BY <2>3, StartShape
  <2>5. \A i \in 1 .. Total : Starts[i] > Starts[a + n - 1] <=> i > a + n - 1
    <3> TAKE i \in 1 .. Total
    <3>1. /\ i < a + n - 1 => Starts[i] < Starts[a + n - 1]
          /\ a + n - 1 < i => Starts[a + n - 1] < Starts[i]
          /\ Starts[i] \in Int /\ Starts[a + n - 1] \in Int
      BY <1>1, <2>4
    <3>2. i \in Int /\ a + n - 1 \in Int
      BY <1>1
    <3>3. i < a + n - 1 \/ i = a + n - 1 \/ a + n - 1 < i
      BY <3>2
    <3> QED  BY <3>1, <3>2, <3>3
  <2> HIDE DEF L, last
  <2>6. \A i \in 1 .. Present : i \in L <=> i > a + n - 1
    BY <2>1, <2>2, <2>5, <1>5
  <2>7. \A i : i \in L => i \in 1 .. Present
    BY <2>1
  <2>8. \A i : i \in a + n .. Present => i \in 1 .. Present /\ i > a + n - 1
    BY <1>1
  <2>9. \A i \in 1 .. Present : i > a + n - 1 => i \in a + n .. Present
    BY <1>1
  <2> QED  BY <2>6, <2>7, <2>8, <2>9
<1>7. Cardinality(L) = m /\ m \in Nat
  <2>1. a + n \in Int /\ Present \in Int /\ a + n <= Present + 1
    BY <1>1
  <2>2. Cardinality(a + n .. Present) = Present - (a + n) + 1
    BY <2>1, CountOf
  <2>3. Present - (a + n) + 1 = m /\ m \in Nat
    BY <1>1
  <2> QED  BY <1>6, <2>2, <2>3
<1> HIDE DEF L, last
<1>8. /\ news \in Seq(Int) /\ Len(news) = m
      /\ \A i \in 1 .. m : news[i] = Starts[a + n + i - 1]
  <2>1. news = SubSeq(Starts, a + n, Present)
    <3>1. Present - Cardinality(L) + 1 = a + n
      BY <1>1, <1>7
    <3> QED  BY <3>1 DEF Starts
  <2>2. \A i \in a + n .. Present : Starts[i] \in Int
    BY <1>1, StartShape DEF Timely
  <2>3. a + n \in Int /\ Present \in Int
    BY <1>1
  <2> HIDE DEF news
  <2>4. /\ news \in Seq(Int)
        /\ Len(news) = IF a + n <= Present THEN Present - (a + n) + 1 ELSE 0
        /\ \A i \in 1 .. Present - (a + n) + 1 : news[i] = Starts[a + n + i - 1]
    BY <2>1, <2>2, <2>3, SubSeqProperties
  <2>5. m = Present - (a + n) + 1
    BY <1>1
  <2>6. m = IF a + n <= Present THEN Present - (a + n) + 1 ELSE 0
    BY <1>1
  <2> QED  BY <2>4, <2>5, <2>6
<1> HIDE DEF news
<1>9. /\ all \in Seq(Int) /\ Len(all) = n + m
      /\ \A i \in 1 .. n + m : all[i] = Starts[a + i - 1]
  <2>1. /\ all \in Seq(Int) /\ Len(all) = n + m
        /\ \A i \in 1 .. n + m : all[i] = IF i <= n THEN told.starts[i]
                                          ELSE news[i - n]
    <3> DEFINE olds == told.starts
    <3>1. olds \in Seq(Int) /\ Len(olds) = n /\ news \in Seq(Int) /\ Len(news) = m
      BY <1>3, <1>4, <1>8
    <3> HIDE DEF olds, m
    <3>2. /\ olds \o news \in Seq(Int)
          /\ Len(olds \o news) = Len(olds) + Len(news)
          /\ \A i \in 1 .. Len(olds) + Len(news) :
                (olds \o news)[i] = IF i <= Len(olds) THEN olds[i]
                                    ELSE news[i - Len(olds)]
      BY <3>1, ConcatProperties
    <3>3. all = olds \o news
      BY DEF olds
    <3> HIDE DEF all
    <3> QED  BY <3>1, <3>2, <3>3 DEF olds
  <2>2. ASSUME NEW i \in 1 .. n + m, i > n
        PROVE  news[i - n] = Starts[a + i - 1]
    <3>1. i - n \in 1 .. m /\ a + n + (i - n) - 1 = a + i - 1
      BY <1>1, <1>7, <2>2
    <3> QED  BY <1>8, <3>1
  <2>3. ASSUME NEW i \in 1 .. n + m, i <= n
        PROVE  told.starts[i] = Starts[a + i - 1]
    <3>1. i \in 1 .. n
      BY <1>1, <1>7, <2>3
    <3> QED  BY <1>4, <3>1
  <2> HIDE DEF all, m
  <2>4. \A i \in 1 .. n + m : i <= n \/ i > n
    BY <1>1, <1>7
  <2> QED  BY <2>1, <2>2, <2>3, <2>4
<1> HIDE DEF all
<1>10. k = Capped(n + m) /\ k \in 1 .. Nodes /\ k <= n + m /\ n + m >= 1
  <2>1. n + m = Present - a + 1
    BY <1>1
  <2> QED  BY <1>1, <1>7, <2>1 DEF Capped
<1>11. /\ Latest(all) \in Seq(Int) /\ Len(Latest(all)) = k
       /\ \A i \in 1 .. k : Latest(all)[i] = all[Len(all) - k + i]
  <2>1. Len(all) >= 1
    BY <1>9, <1>10
  <2>2. k = IF Len(all) <= Nodes THEN Len(all) ELSE Nodes
    BY <1>9, <1>10 DEF Capped
  <2> HIDE DEF k, m
  <2>3. /\ Latest(all) \in Seq(Int) /\ Len(Latest(all)) = k
        /\ \A i \in 1 .. k : Latest(all)[i] = all[Len(all) - k + i]
    BY <1>9, <2>1, <2>2, LatestIs, BoundAssumption
  <2> QED  BY <2>3
<1> DEFINE b == Present - k + 1
<1>12. b \in 1 .. Total /\ b + k \in 1 .. Total /\ b + k - 1 = Present
       /\ b = a + (n + m - k) /\ b \in Nat
  <2> HIDE DEF k
  <2> QED  BY <1>1, <1>7, <1>10
<1>13. Latest(all) = Stretch(Starts, b, k)
  <2>1. ASSUME NEW i \in 1 .. k PROVE Latest(all)[i] = Starts[b + i - 1]
    <3>0. Len(all) = n + m
      BY <1>9
    <3>1. Len(all) - k + i \in 1 .. n + m
      <4> HIDE DEF k, m
      <4> QED  BY <1>1, <1>7, <1>10, <3>0
    <3>2. a + (Len(all) - k + i) - 1 = b + i - 1
      <4>1. b = a + (n + m - k) /\ b \in Nat
        BY <1>12
      <4>2. n \in Int /\ a \in Int /\ m \in Int
        BY <1>1, <1>7
      <4> HIDE DEF k, m, b
      <4>3. k \in Int /\ i \in Int
        BY <1>1, <1>10
      <4> QED  BY <3>0, <4>1, <4>2, <4>3
    <3> DEFINE j == Len(all) - k + i
    <3>3. Latest(all)[i] = all[j]
      BY <1>11
    <3>4. j \in 1 .. n + m /\ a + j - 1 = b + i - 1
      BY <3>1, <3>2
    <3> HIDE DEF j
    <3>5. all[j] = Starts[a + j - 1]
      BY <1>9, <3>4
    <3> QED  BY <3>3, <3>4, <3>5
  <2>2. Latest(all) \in [1 .. k -> Int]
    BY <1>11
  <2> HIDE DEF b, k, m
  <2> QED  BY <2>1, <2>2 DEF Stretch
<1>14. Zeros(m) \in Seq(Nat) /\ Len(Zeros(m)) = m
  <2> HIDE DEF m
  <2> QED  BY <1>7 DEF Zeros
<1>15. bws \in Seq(Nat) /\ Len(bws) = n + m
  <2> DEFINE old == told.bws
  <2>1. old \in Seq(Nat) /\ Len(old) = n
    BY <1>2, <1>3
  <2> HIDE DEF old, m
  <2>2. old \o Zeros(m) \in Seq(Nat) /\ Len(old \o Zeros(m)) = n + m
    BY <2>1, <1>14, ConcatProperties
  <2> QED  BY <2>2 DEF old
<1>16. Latest(bws) \in Seq(Nat) /\ Len(Latest(bws)) = k
  <2> HIDE DEF bws
  <2> QED  BY <1>10, <1>15, LatestIs, BoundAssumption DEF Capped
<1>17. TrueSince(told) = [starts |-> Latest(all), bws |-> Latest(bws)]
  BY <1>7 DEF TrueSince, all, news, L, last
<1>18. TrueSince(told) \in Truth
  <2> HIDE DEF bws
  <2> QED  BY <1>11, <1>16, <1>17 DEF Truth
<1>19. Starts[b + k - 1] <= clock
  <2>1. Present \in 1 .. Total
    BY <1>1
  <2> QED  BY <1>12, <2>1, PresentIs, <1>1
<1> HIDE DEF k, b, m
<1>20. Covers(case, clock, b, k, TrueSince(told))
  BY <1>10, <1>12, <1>13, <1>16, <1>17, <1>18, <1>19 DEF Covers, Starts, Total
<1>21. TrueSince(told).bws = Latest(bws)
  BY <1>17
<1> QED  BY <1>20, <1>21 DEF k, b, m

\* The history the kernel has of what is told, in the view of an offset.
SeenAs(c, w, a, n, told) ==
    [start |-> ViewIn(c.zone, c.starts[a], w),
     end |-> ViewIn(c.zone, c.starts[a + n], w), bws |-> told.bws]

\* Brought up to the present, the kernel's history is that of the truth
\* brought up to the present: as many intervals are added and forgotten.
LEMMA CurrentRight ==
  ASSUME Timely, NEW w \in Int, NEW a, NEW n, NEW told,
         Covers(case, clock, a, n, told)
  PROVE  LET k == Capped(Present - a + 1)
         IN Current(SeenAs(case, w, a, n, told), w)
                = SeenAs(case, w, Present - k + 1, k, TrueSince(told))
<1> DEFINE history == SeenAs(case, w, a, n, told)
           v(i) == View(Starts[i], w)
           M == {i \in 1 .. Present : v(i) >= history.end}
           m == Present - (a + n - 1)
           k == Capped(Present - a + 1)
           bws == history.bws \o Zeros(Cardinality(M))
           forgotten == Len(bws) - Nodes
           P(i) == {j \in DOMAIN case.starts : history.start < v(j) /\ v(j) <= v(i)}
           at == CHOOSE i \in DOMAIN case.starts : Cardinality(P(i)) = forgotten
<1>1. /\ a \in 1 .. Total /\ n \in 1 .. Nodes /\ a + n \in 1 .. Total
      /\ a \in Nat /\ n \in Nat /\ Nodes \in Nat /\ Total \in Nat
      /\ Present \in 1 .. Total - 1 /\ Present \in Nat
      /\ a + n - 1 <= Present /\ a + n - 1 \in 1 .. Total
  BY CoversPast
<1>2. history.start = v(a) /\ history.end = v(a + n) /\ history.bws = told.bws
  BY DEF SeenAs, View, Starts
<1>3. case \in Cases /\ DOMAIN case.starts = 1 .. Total
  BY StartShape DEF Timely, Starts
<1>4. \A i, j \in 1 .. Total : v(i) \in Int /\ (i < j => v(i) < v(j))
  BY <1>3, ViewsGrow
<1> HIDE DEF v
<1>5. \A i, j \in 1 .. Total : v(i) <= v(j) <=> i <= j
  <2> TAKE i, j \in 1 .. Total
  <2>1. v(i) \in Int /\ v(j) \in Int /\ (i < j => v(i) < v(j)) /\ (j < i => v(j) < v(i))
    BY <1>4
  <2>2. i \in Int /\ j \in Int
    BY <1>1
  <2>3. i < j \/ i = j \/ j < i
    BY <2>2
  <2> QED  BY <2>1, <2>2, <2>3
<1>6. M = a + n .. Present
  <2>1. M = {i \in 1 .. Present : v(i) >= v(a + n)}
    BY <1>2
  <2>2. \A i \in 1 .. Present : i \in 1 .. Total
    BY <1>1
  <2>3. \A i \in 1 .. Present : v(i) >= v(a + n) <=> a + n <= i
    <3> TAKE i \in 1 .. Present
    <3>1. v(a + n) <= v(i) <=> a + n <= i
      BY <1>1, <1>5, <2>2
    <3>2. v(i) \in Int /\ v(a + n) \in Int
      BY <1>1, <1>4, <2>2
    <3> QED  BY <3>1, <3>2
  <2> HIDE DEF M
  <2>4. \A i \in 1 .. Present : i \in M <=> a + n <= i
    BY <2>1, <2>3
  <2>5. \A i : i \in M => i \in 1 .. Present
    BY <2>1
  <2>6. \A i : i \in a + n .. Present => i \in 1 .. Present /\ a + n <= i
    BY <1>1
  <2>7. \A i \in 1 .. Present : a + n <= i => i \in a + n .. Present
    BY <1>1
  <2> QED  BY <2>4, <2>5, <2>6, <2>7
<1>7. Cardinality(M) = m /\ m \in Nat
  <2>1. a + n \in Int /\ Present \in Int /\ a + n <= Present + 1
    BY <1>1
  <2>2. Cardinality(a + n .. Present) = Present - (a + n) + 1
    BY <2>1, CountOf
  <2>3. Present - (a + n) + 1 = m /\ m \in Nat
    BY <1>1
  <2> QED  BY <1>6, <2>2, <2>3
<1> HIDE DEF M
<1>8. told.bws \in Seq(Nat) /\ Len(told.bws) = n
  BY DEF Covers, Truth
<1>9. Zeros(m) \in Seq(Nat) /\ Len(Zeros(m)) = m
  <2> HIDE DEF m
  <2> QED  BY <1>7 DEF Zeros
<1>10. bws = told.bws \o Zeros(m) /\ Len(bws) = n + m
  <2> DEFINE old == told.bws
  <2>1. old \in Seq(Nat) /\ Len(old) = n
    BY <1>8
  <2>2. bws = old \o Zeros(m)
    BY <1>2, <1>7
  <2> HIDE DEF old, m, bws
  <2>3. Len(old \o Zeros(m)) = n + m
    BY <2>1, <1>9, ConcatProperties
  <2> QED  BY <2>2, <2>3 DEF old
<1>11. Latest(bws) = TrueSince(told).bws
  <2>1. TrueSince(told).bws = Latest(told.bws \o Zeros(Present - (a + n - 1)))
    BY TrueSinceRight
  <2> QED  BY <1>10, <2>1
<1>12. n + m = Present - a + 1 /\ forgotten \in Int /\ forgotten = Present - a + 1 - Nodes
  <2>1. Len(bws) = n + m
    BY <1>10
  <2>2. n + m = Present - a + 1
    BY <1>1
  <2>3. forgotten = Present - a + 1 - Nodes
    <3> HIDE DEF m, bws
    <3>1. Len(bws) = Present - a + 1
      BY <2>1, <2>2
    <3> QED  BY <1>1, <3>1
  <2>4. Present - a + 1 - Nodes \in Int
    BY <1>1
  <2> QED  BY <2>2, <2>3, <2>4
<1> HIDE DEF forgotten, bws
<1> DEFINE first == IF forgotten <= 0 THEN history.start ELSE v(at)
<1>13. ASSUME forgotten <= 0 PROVE first = v(Present - k + 1)
  <2>0. Present - a + 1 <= Nodes
    BY <1>1, <1>12, <1>13
  <2>1. k = Present - a + 1 /\ Present - k + 1 = a
    BY <1>1, <2>0 DEF Capped
  <2> QED  BY <1>2, <1>13, <2>1
<1>14. ASSUME ~(forgotten <= 0) PROVE first = v(Present - k + 1)
  <2>0. ~(Present - a + 1 <= Nodes)
    BY <1>1, <1>12, <1>14
  <2>1. k = Nodes /\ Present - k + 1 = a + forgotten
    <3>1. k = Nodes
      BY <2>0 DEF Capped
    <3> QED  BY <1>1, <1>12, <3>1
  <2>2. ASSUME NEW i \in 1 .. Total PROVE P(i) = a + 1 .. i
    <3>1. P(i) = {j \in 1 .. Total : v(a) < v(j) /\ v(j) <= v(i)}
      BY <1>2, <1>3
    <3>2. \A j \in 1 .. Total : (v(a) < v(j) /\ v(j) <= v(i)) <=> j \in a + 1 .. i
      <4> TAKE j \in 1 .. Total
      <4>1. /\ v(a) \in Int /\ v(j) \in Int /\ v(i) \in Int
            /\ (v(j) <= v(a) <=> j <= a) /\ (v(j) <= v(i) <=> j <= i)
        BY <1>1, <1>4, <1>5
      <4>2. a \in Int /\ j \in Int /\ i \in Int
        BY <1>1
      <4>3. v(a) < v(j) <=> a < j
        BY <4>1, <4>2
      <4> QED  BY <4>1, <4>2, <4>3
    <3>3. \A j : j \in a + 1 .. i => j \in 1 .. Total
      BY <1>1
    <3> HIDE DEF P
    <3> QED  BY <3>1, <3>2, <3>3
  <2> HIDE DEF P
  <2>3. ASSUME NEW i \in 1 .. Total
        PROVE  Cardinality(P(i)) = forgotten <=> i = a + forgotten
    <3>1. a + 1 \in Int /\ i \in Int /\ a \in Int /\ forgotten \in Int /\ forgotten > 0
      BY <1>1, <1>12, <1>14
    <3>2. CASE a <= i
      <4>1. Cardinality(P(i)) = i - (a + 1) + 1
        BY <2>2, <3>1, <3>2, CountOf
      <4> QED  BY <3>1, <4>1
    <3>3. CASE ~(a <= i)
      <4>1. Cardinality(a + 1 .. i) = 0
        BY <3>1, <3>3, FS_Interval
      <4> QED  BY <2>2, <3>1, <3>3, <4>1
    <3> QED  BY <3>2, <3>3
  <2>4. a + forgotten \in 1 .. Total
    BY <1>1, <1>12, <1>14
  <2>5. at = a + forgotten
    <3>1. at = CHOOSE i \in 1 .. Total : Cardinality(P(i)) = forgotten
      BY <1>3
    <3> HIDE DEF at
    <3> QED  BY <3>1, <2>3, <2>4
  <2> QED  BY <1>14, <2>1, <2>5
<1>15. first = v(Present - k + 1)
  BY <1>13, <1>14
<1>16. Current(history, w)
        = [start |-> first, end |-> View(Following, w), bws |-> Latest(bws)]
  BY DEF Current, first, at, P, forgotten, bws, M, v, Starts
<1>17. Present - k + 1 + k = Present + 1 /\ View(Following, w) = v(Present + 1)
  <2>1. k \in Int
    BY <1>1 DEF Capped
  <2> HIDE DEF k
  <2>2. Present - k + 1 + k = Present + 1
    BY <1>1, <2>1
  <2> QED  BY <2>2 DEF v, Following, Starts
<1> QED  BY <1>11, <1>15, <1>16, <1>17 DEF SeenAs, v, View, Starts

-----------------------------------------------------------------------------
\* What the library makes of a history.

\* The history of what is told, with true times.
TrueAs(c, a, n, told) ==
    [start |-> c.starts[a], end |-> c.starts[a + n], bws |-> told.bws]

\* All starts, seen with any offset, are late enough for the calendar.
LEMMA StartsDated ==
  ASSUME case \in Cases, NEW i \in 1 .. Total, NEW t \in Int,
         Starts[i] - 172680 <= t
  PROVE  Dated(t - Day)
<1>1. PICK m \in MonthStarts : (m + 4) * Day <= case.starts[1]
  BY CaseAssumption DEF InCalendar
<1>2. m \in Int
  BY CalendarAssumption
<1>3. Starts[1] \in Int /\ Starts[i] \in Int /\ Starts[1] <= Starts[i]
  <2>1. 1 \in 1 .. Total
    BY StartShape
  <2>2. Starts[1] \in Int /\ Starts[i] \in Int /\ (1 < i => Starts[1] < Starts[i])
    BY <2>1, StartShape
  <2>3. i = 1 \/ 1 < i
    OBVIOUS
  <2> QED  BY <2>2, <2>3
<1>4. (m + 4) * 86400 <= Starts[1]
  BY <1>1 DEF Starts, Day
<1>5. (m + 1) * 86400 <= t - 86400
  BY <1>2, <1>3, <1>4
<1> QED  BY <1>5 DEF Dated, Day

\* get_minutes_west is right of the present time.
LEMMA WestOfClock ==
  ASSUME Timely
  PROVE  GetMinutesWest(clock) = West(clock)
<1>1. 1 \in 1 .. Total /\ case \in Cases /\ clock \in Int /\ Starts[1] \in Int
      /\ Starts[1] <= clock
  BY StartShape DEF Timely
<1>2. Dated(clock - Day)
  BY <1>1, StartsDated
<1> QED  BY <1>1, <1>2, MinutesWestRight

\* It is right of the starts, the true ones and those the kernel has.
LEMMA WestOfStart ==
  ASSUME case \in Cases, NEW i \in 1 .. Total, NEW w \in Offsets
  PROVE  /\ GetMinutesWest(Starts[i]) = West(Starts[i])
         /\ GetMinutesWest(View(Starts[i], w)) = West(Starts[i])
<1> DEFINE s == Starts[i]   v == View(s, w)   x == West(s)
<1>1. /\ s \in Int /\ w \in Int /\ x \in Int
      /\ -1439 <= w /\ w <= 1439 /\ -1439 <= x /\ x <= 1439
  <2>1. ASSUME NEW y \in OffsetRange
        PROVE  y \in Int /\ -1439 <= y /\ y <= 1439
    BY DEF OffsetRange
  <2>2. w \in OffsetRange /\ x \in OffsetRange
    BY ZoneShape
  <2>3. s \in Int
    BY StartShape
  <2> HIDE DEF s, x
  <2> QED  BY <2>1, <2>2, <2>3
<1>2. v = s + 60 * (w - x)
  BY DEF View, ViewIn, West
<1>3. v \in Int /\ s - 172680 <= v /\ s - 172680 <= s
  <2> HIDE DEF s, v, x
  <2> QED  BY <1>1, <1>2
<1>4. Dated(s - Day) /\ Dated(v - Day)
  BY <1>1, <1>3, StartsDated
<1>5. GetMinutesWest(s) = West(s) /\ GetMinutesWest(v) = West(v)
  <2> HIDE DEF s, v
  <2> QED  BY <1>1, <1>3, <1>4, MinutesWestRight
<1> QED  BY <1>5, SameSide

\* parse_returned_ip_data turns the kernel's times into the true ones, with
\* whatever offsets the present and the intervals are.
THEOREM ReturnedRight ==
  ASSUME Timely, NEW a, NEW n, NEW told, Covers(case, clock, a, n, told)
  PROVE  Returned(SeenAs(case, West(clock), a, n, told)) = TrueAs(case, a, n, told)
<1> DEFINE w == West(clock)   seen == SeenAs(case, w, a, n, told)
           Shift(t) == 60 * (GetMinutesWest(t) - GetMinutesWest(clock))
<1>1. a \in 1 .. Total /\ a + n \in 1 .. Total /\ case \in Cases
  BY DEF Covers, Total, Timely
<1>2. w \in Offsets /\ w \in Int
  BY <1>1, ZoneShape
<1>3. seen.start = View(Starts[a], w) /\ seen.end = View(Starts[a + n], w)
      /\ seen.bws = told.bws
  BY DEF SeenAs, View, Starts
<1> HIDE DEF w
<1>4. ASSUME NEW i \in 1 .. Total
      PROVE  View(Starts[i], w) + Shift(View(Starts[i], w)) = Starts[i]
  <2>1. GetMinutesWest(View(Starts[i], w)) = West(Starts[i])
    BY <1>1, <1>2, WestOfStart
  <2>2. GetMinutesWest(clock) = w
    BY WestOfClock DEF w
  <2>3. View(Starts[i], w) = Starts[i] + 60 * (w - West(Starts[i]))
    BY DEF View, ViewIn, West
  <2>4. Starts[i] \in Int /\ West(Starts[i]) \in Int
    BY <1>1, StartShape, ZoneShape
  <2> QED  BY <1>2, <2>1, <2>2, <2>3, <2>4
<1>5. Returned(seen) = [seen EXCEPT !.start = @ + Shift(@), !.end = @ + Shift(@)]
  BY DEF Returned
<1>6. Returned(seen) = [start |-> seen.start + Shift(seen.start),
                        end |-> seen.end + Shift(seen.end), bws |-> seen.bws]
  <2> HIDE DEF Shift
  <2> QED  BY <1>5 DEF SeenAs
<1>7. seen.start + Shift(seen.start) = Starts[a]
  BY <1>1, <1>3, <1>4
<1>8. seen.end + Shift(seen.end) = Starts[a + n]
  BY <1>1, <1>3, <1>4
<1>9. Returned(seen) = TrueAs(case, a, n, told)
  <2> HIDE DEF seen, Shift
  <2> QED  BY <1>3, <1>6, <1>7, <1>8 DEF TrueAs, Starts
<1> QED  BY <1>9 DEF w

\* set_ip_block adds minutes to seconds; if the history it sends is none the
\* less the one it was given, that is the one the kernel should have.
LEMMA SentRight ==
  ASSUME Timely, NEW a, NEW n, NEW told, Covers(case, clock, a, n, told),
         Sent(TrueAs(case, a, n, told)) = TrueAs(case, a, n, told)
  PROVE  TrueAs(case, a, n, told) = SeenAs(case, West(clock), a, n, told)
<1> DEFINE w == West(clock)   history == TrueAs(case, a, n, told)
           Shift(t) == GetMinutesWest(t) - GetMinutesWest(clock)
<1>1. a \in 1 .. Total /\ a + n \in 1 .. Total /\ case \in Cases
  BY DEF Covers, Total, Timely
<1>2. w \in Offsets /\ w \in Int
  BY <1>1, ZoneShape
<1>3. history.start = Starts[a] /\ history.end = Starts[a + n]
      /\ history.bws = told.bws
  BY DEF TrueAs, Starts
<1> HIDE DEF w
<1>4. ASSUME NEW i \in 1 .. Total, Starts[i] + Shift(Starts[i]) = Starts[i]
      PROVE  View(Starts[i], w) = Starts[i]
  <2>1. GetMinutesWest(Starts[i]) = West(Starts[i])
    BY <1>1, <1>2, WestOfStart
  <2>2. GetMinutesWest(clock) = w
    BY WestOfClock DEF w
  <2>3. View(Starts[i], w) = Starts[i] + 60 * (w - West(Starts[i]))
    BY DEF View, ViewIn, West
  <2>4. Starts[i] \in Int /\ West(Starts[i]) \in Int
    BY <1>1, StartShape, ZoneShape
  <2> QED  BY <1>2, <1>4, <2>1, <2>2, <2>3, <2>4
<1>5. Sent(history) = [history EXCEPT !.start = @ + Shift(@), !.end = @ + Shift(@)]
  BY DEF Sent
<1>6. /\ Sent(history).start = history.start + Shift(history.start)
      /\ Sent(history).end = history.end + Shift(history.end)
  <2> HIDE DEF Shift
  <2> QED  BY <1>5 DEF TrueAs
<1>7. Starts[a] + Shift(Starts[a]) = Starts[a]
  BY <1>3, <1>6
<1>8. Starts[a + n] + Shift(Starts[a + n]) = Starts[a + n]
  BY <1>3, <1>6
<1>9. View(Starts[a], w) = Starts[a] /\ View(Starts[a + n], w) = Starts[a + n]
  BY <1>1, <1>4, <1>7, <1>8
<1>10. history = SeenAs(case, w, a, n, told)
  BY <1>9 DEF TrueAs, SeenAs, View, Starts
<1> QED  BY <1>10 DEF w

\* settimeofday moves a history from the view of the old offset to that of the
\* present one.
LEMMA MovedRight ==
  ASSUME Timely, NEW a, NEW n, NEW told, Covers(case, clock, a, n, told),
         NEW seen, seen = SeenAs(case, sys_west, a, n, told),
         NEW shift, shift = 60 * (West(clock) - sys_west),
         NEW moved,
         moved = [start |-> seen.start + shift, end |-> seen.end + shift,
                  bws |-> seen.bws]
  PROVE  moved = SeenAs(case, West(clock), a, n, told)
<1> DEFINE w == West(clock)
<1>1. a \in 1 .. Total /\ a + n \in 1 .. Total /\ case \in Cases
  BY DEF Covers, Total, Timely
<1>2. sys_west \in Int /\ w \in Int
  BY <1>1, ZoneShape DEF Timely
<1>0. shift = 60 * (w - sys_west)
  OBVIOUS
<1> HIDE DEF w
<1>3. ASSUME NEW i \in 1 .. Total
      PROVE  View(Starts[i], sys_west) + shift = View(Starts[i], w)
  <2>1. /\ View(Starts[i], sys_west) = Starts[i] + 60 * (sys_west - West(Starts[i]))
        /\ View(Starts[i], w) = Starts[i] + 60 * (w - West(Starts[i]))
    BY DEF View, ViewIn, West
  <2>2. Starts[i] \in Int /\ West(Starts[i]) \in Int
    BY <1>1, StartShape, ZoneShape
  <2> QED  BY <1>0, <1>2, <2>1, <2>2
<1>4. seen.start = View(Starts[a], sys_west) /\ seen.end = View(Starts[a + n], sys_west)
      /\ seen.bws = told.bws
  BY DEF SeenAs, View, Starts
<1>6. seen.start + shift = View(Starts[a], w) /\ seen.end + shift = View(Starts[a + n], w)
  BY <1>1, <1>3, <1>4
<1>7. moved = SeenAs(case, w, a, n, told)
  BY <1>4, <1>6 DEF SeenAs, View, Starts
<1> QED  BY <1>7 DEF w

\* save_history_to_file writes every volume as it is: one that does not fit in
\* 32 bits makes the fields of its host 64 bits wide.
THEOREM SavedRight ==
  ASSUME NEW history, history.bws \in Seq(Nat)
  PROVE  Saved(history) = [history EXCEPT !.bws = history.bws]
<1> DEFINE bits == Bits(history.bws)
           Field(v) == IF bits = 32 THEN v % Word ELSE v
<1>1. Word \in Nat \ {0}
  BY BoundAssumption
<1>2. ASSUME NEW i \in DOMAIN history.bws PROVE Field(history.bws[i]) = history.bws[i]
  <2> DEFINE v == history.bws[i]
  <2>1. v \in Nat
    <3>1. history.bws \in [1 .. Len(history.bws) -> Nat]
      BY LenProperties
    <3> QED  BY <3>1
  <2>2. CASE bits = 32
    <3>1. v < Word \div 2 - 1
      BY <2>2 DEF Bits, Int32Max
    <3> HIDE DEF v
    <3>2. v < Word
      BY <1>1, <2>1, <3>1
    <3>3. v % Word = v
      <4>1. ASSUME NEW x \in Nat, NEW y \in Nat, x < y PROVE x % y = x
        BY <4>1, SMT
      <4> QED  BY <1>1, <2>1, <3>2, <4>1
    <3> QED  BY <2>2, <3>3 DEF v
  <2>3. CASE bits # 32
    BY <2>3
  <2> QED  BY <2>2, <2>3
<1>3. Saved(history) =
        [history EXCEPT !.bws = [i \in DOMAIN history.bws |-> Field(history.bws[i])]]
  BY DEF Saved
<1>4. [i \in DOMAIN history.bws |-> Field(history.bws[i])] = history.bws
  <2> HIDE DEF Field
  <2> QED  BY <1>2
<1> QED  BY <1>3, <1>4

-----------------------------------------------------------------------------
\* The inductive invariant.

\* A history as the kernel has it at time t under offset w, of intervals
\* that have begun by then; and one as it truly was.
Seen(c, t, w, history, told) ==
    \E a \in 1 .. Len(c.starts), n \in 1 .. Nodes :
        Covers(c, t, a, n, told) /\ history = SeenAs(c, w, a, n, told)
Sound(c, t, history, told) ==
    \E a \in 1 .. Len(c.starts), n \in 1 .. Nodes :
        Covers(c, t, a, n, told) /\ history = TrueAs(c, a, n, told)

\* The same of some hosts.
AllSeen(c, t, w, histories, truths) ==
    \E H \in SUBSET Hosts :
        /\ histories \in [H -> History] /\ truths \in [H -> Truth]
        /\ \A h \in H : Seen(c, t, w, histories[h], truths[h])
AllSound(c, t, histories, truths) ==
    \E H \in SUBSET Hosts :
        /\ histories \in [H -> History] /\ truths \in [H -> Truth]
        /\ \A h \in H : Sound(c, t, histories[h], truths[h])

\* Who backs up: cron and the init script.
Writers == {"cron", "stop"}
Records ==
    /\ DOMAIN proc = Writers
    /\ \A p \in Writers : DOMAIN proc[p] = {"pc", "data", "told", "alone"}

\* The kernel has what is told of the rule, in the view of its offset.
KernelSeen ==
    kernel # None /\ truth # Unknown =>
        AllSeen(case, clock, sys_west, kernel, truth)
\* The rule is there while it waits for its history.
RuleThere == init = "start" /\ truth # Unknown => kernel # None
\* Whoever has an answer of the kernel has the truth told with it.
AnswerSound(p) ==
    proc[p].pc \in {"open", "write"} /\ proc[p].told # Unknown =>
        AllSound(case, clock, proc[p].data, proc[p].told)
AnswersSound == \A p \in Writers : AnswerSound(p)
\* The file has the truth it should tell; nothing is told of no file.
FileSound ==
    kept # Unknown =>
        \/ file = None /\ kept = <<>>
        \/ /\ file # None /\ file.whole
           /\ AllSound(case, clock, file.hosts, kept)

\* The inductive invariant: what HistoryTrue says of the kernel's histories
\* holds on the way they take through the processes and the file, as long as
\* the truth is known.
IInv ==
    Timely /\ Records /\ KernelSeen /\ RuleThere /\ AnswersSound /\ FileSound

-----------------------------------------------------------------------------

\* The histories of what is told are histories.
LEMMA ShapeOfCovered ==
  ASSUME case \in Cases, NEW t, NEW a, NEW n, NEW told, NEW w \in Int,
         Covers(case, t, a, n, told)
  PROVE  /\ a \in 1 .. Len(case.starts) /\ n \in 1 .. Nodes
         /\ told \in Truth
         /\ SeenAs(case, w, a, n, told) \in History
         /\ TrueAs(case, a, n, told) \in History
<1>1. /\ a \in 1 .. Total /\ a + n \in 1 .. Total /\ told \in Truth
      /\ n \in 1 .. Nodes
  BY DEF Covers, Total
<1>2. Starts[a] \in Int /\ Starts[a + n] \in Int
  BY <1>1, StartShape
<1>3. ASSUME NEW s \in Int PROVE ViewIn(case.zone, s, w) \in Int
  <2>1. WestIn(case.zone, s) \in Int
    BY <1>3, ZoneShape DEF West
  <2> QED  BY <2>1, <1>3 DEF ViewIn
<1>4. told.bws \in Seq(Nat)
  BY <1>1 DEF Truth
<1>5. SeenAs(case, w, a, n, told) \in History
  <2>1. /\ ViewIn(case.zone, case.starts[a], w) \in Int
        /\ ViewIn(case.zone, case.starts[a + n], w) \in Int
    BY <1>2, <1>3 DEF Starts
  <2> QED  BY <1>4, <2>1 DEF SeenAs, History
<1>6. TrueAs(case, a, n, told) \in History
  BY <1>2, <1>4 DEF TrueAs, History, Starts
<1> QED  BY <1>1, <1>5, <1>6 DEF Total

\* What has begun stays begun.
LEMMA CoversLater ==
  ASSUME case \in Cases, NEW t \in Int, NEW u \in Int, t <= u,
         NEW a, NEW n, NEW told, Covers(case, t, a, n, told)
  PROVE  Covers(case, u, a, n, told)
<1>1. a \in 1 .. Total /\ a + n \in 1 .. Total /\ n \in 1 .. Nodes
  BY DEF Covers, Total
<1>2. Total \in Nat /\ Nodes \in Nat
  BY StartShape, BoundAssumption
<1>3. a + n - 1 \in 1 .. Total
  BY <1>1, <1>2
<1>4. Starts[a + n - 1] \in Int /\ Starts[a + n - 1] <= t
  BY <1>3, StartShape DEF Covers, Starts
<1>5. Starts[a + n - 1] <= u
  BY <1>4
<1> QED  BY <1>5 DEF Covers, Starts

\* The kernel's histories stay right as time goes on.
LEMMA SeenLater ==
  ASSUME case \in Cases, NEW t \in Int, NEW u \in Int, t <= u, NEW w,
         NEW hs, NEW ts, AllSeen(case, t, w, hs, ts)
  PROVE  AllSeen(case, u, w, hs, ts)
<1>1. PICK H \in SUBSET Hosts :
        /\ hs \in [H -> History] /\ ts \in [H -> Truth]
        /\ \A h \in H : Seen(case, t, w, hs[h], ts[h])
  BY DEF AllSeen
<1>2. ASSUME NEW h \in H PROVE Seen(case, u, w, hs[h], ts[h])
  <2>1. PICK a \in 1 .. Len(case.starts), n \in 1 .. Nodes :
          Covers(case, t, a, n, ts[h]) /\ hs[h] = SeenAs(case, w, a, n, ts[h])
    BY <1>1 DEF Seen
  <2>2. Covers(case, u, a, n, ts[h])
    BY <2>1, CoversLater
  <2> QED  BY <2>1, <2>2 DEF Seen
<1> QED  BY <1>1, <1>2 DEF AllSeen

\* So do the true ones.
LEMMA SoundLater ==
  ASSUME case \in Cases, NEW t \in Int, NEW u \in Int, t <= u,
         NEW hs, NEW ts, AllSound(case, t, hs, ts)
  PROVE  AllSound(case, u, hs, ts)
<1>1. PICK H \in SUBSET Hosts :
        /\ hs \in [H -> History] /\ ts \in [H -> Truth]
        /\ \A h \in H : Sound(case, t, hs[h], ts[h])
  BY DEF AllSound
<1>2. ASSUME NEW h \in H PROVE Sound(case, u, hs[h], ts[h])
  <2>1. PICK a \in 1 .. Len(case.starts), n \in 1 .. Nodes :
          Covers(case, t, a, n, ts[h]) /\ hs[h] = TrueAs(case, a, n, ts[h])
    BY <1>1 DEF Sound
  <2>2. Covers(case, u, a, n, ts[h])
    BY <2>1, CoversLater
  <2> QED  BY <2>1, <2>2 DEF Sound
<1> QED  BY <1>1, <1>2 DEF AllSound

\* settimeofday moves all histories into the view of the present offset.
LEMMA InZoneSeen ==
  ASSUME Timely, NEW hs, NEW ts, AllSeen(case, clock, sys_west, hs, ts)
  PROVE  AllSeen(case, clock, West(clock), InZone(hs), ts)
<1> DEFINE shift == 60 * (West(clock) - sys_west)
           moved(h) == [hs[h] EXCEPT !.start = @ + shift, !.end = @ + shift]
<1>1. PICK H \in SUBSET Hosts :
        /\ hs \in [H -> History] /\ ts \in [H -> Truth]
        /\ \A h \in H : Seen(case, clock, sys_west, hs[h], ts[h])
  BY DEF AllSeen
<1>2. case \in Cases /\ West(clock) \in Int
  BY ZoneShape DEF Timely
<1>3. ASSUME NEW h \in H
      PROVE  /\ moved(h) \in History
             /\ Seen(case, clock, West(clock), moved(h), ts[h])
  <2>1. PICK a \in 1 .. Len(case.starts), n \in 1 .. Nodes :
          /\ Covers(case, clock, a, n, ts[h])
          /\ hs[h] = SeenAs(case, sys_west, a, n, ts[h])
    BY <1>1 DEF Seen
  <2>2. moved(h) = SeenAs(case, West(clock), a, n, ts[h])
    <3>1. PICK s : s = shift
      OBVIOUS
    <3>2. PICK m : m = [hs[h] EXCEPT !.start = @ + s, !.end = @ + s]
      OBVIOUS
    <3>3. m = [start |-> hs[h].start + s, end |-> hs[h].end + s,
               bws |-> hs[h].bws]
      <4>1. PICK x, y, z : hs[h] = [start |-> x, end |-> y, bws |-> z]
        BY <2>1 DEF SeenAs
      <4> QED  BY <3>2, <4>1
    <3>4. m = SeenAs(case, West(clock), a, n, ts[h])
      <4> HIDE DEF moved
      <4> QED  BY <2>1, <3>1, <3>3, MovedRight DEF shift
    <3>5. m = moved(h)
      BY <3>1, <3>2
    <3> QED  BY <3>4, <3>5
  <2>3. SeenAs(case, West(clock), a, n, ts[h]) \in History
    BY <1>2, <2>1, ShapeOfCovered
  <2> HIDE DEF moved
  <2> QED  BY <2>1, <2>2, <2>3 DEF Seen
<1>4. InZone(hs) = [h \in H |-> moved(h)]
  BY <1>1 DEF InZone
<1> HIDE DEF moved
<1> QED  BY <1>1, <1>3, <1>4 DEF AllSeen

\* bw_get -h gets true histories of what is true by now.
LEMMA ReturnedSound ==
  ASSUME Timely, NEW hs, NEW ts, AllSeen(case, clock, West(clock), hs, ts)
  PROVE  AllSound(case, clock,
            [h \in DOMAIN hs |-> Returned(Current(hs[h], West(clock)))],
            [h \in DOMAIN ts |-> TrueSince(ts[h])])
<1> DEFINE w == West(clock)
           returned(h) == Returned(Current(hs[h], w))
<1>1. PICK H \in SUBSET Hosts :
        /\ hs \in [H -> History] /\ ts \in [H -> Truth]
        /\ \A h \in H : Seen(case, clock, w, hs[h], ts[h])
  BY DEF AllSeen
<1>2. case \in Cases /\ w \in Int
  BY ZoneShape DEF Timely
<1>3. ASSUME NEW h \in H
      PROVE  /\ returned(h) \in History /\ TrueSince(ts[h]) \in Truth
             /\ Sound(case, clock, returned(h), TrueSince(ts[h]))
  <2>1. PICK a \in 1 .. Len(case.starts), n \in 1 .. Nodes :
          /\ Covers(case, clock, a, n, ts[h])
          /\ hs[h] = SeenAs(case, w, a, n, ts[h])
    BY <1>1 DEF Seen
  <2> DEFINE k == Capped(Present - a + 1)   b == Present - k + 1
             told == TrueSince(ts[h])
  <2>2. Covers(case, clock, b, k, told)
    BY <2>1, TrueSinceRight
  <2>3. Current(hs[h], w) = SeenAs(case, w, b, k, told)
    BY <1>2, <2>1, CurrentRight
  <2> HIDE DEF b, k, told
  <2>4. returned(h) = TrueAs(case, b, k, told)
    BY <2>2, <2>3, ReturnedRight
  <2>5. /\ b \in 1 .. Len(case.starts) /\ k \in 1 .. Nodes /\ told \in Truth
        /\ TrueAs(case, b, k, told) \in History
    BY <1>2, <2>2, ShapeOfCovered
  <2>6. Sound(case, clock, returned(h), told)
    <3> HIDE DEF returned
    <3> QED  BY <2>2, <2>4, <2>5 DEF Sound
  <2> HIDE DEF returned
  <2> QED  BY <2>4, <2>5, <2>6 DEF told
<1> HIDE DEF returned
<1>4. /\ [h \in DOMAIN hs |-> returned(h)] = [h \in H |-> returned(h)]
      /\ [h \in DOMAIN ts |-> TrueSince(ts[h])] = [h \in H |-> TrueSince(ts[h])]
  BY <1>1
<1>5. AllSound(case, clock, [h \in H |-> returned(h)],
                            [h \in H |-> TrueSince(ts[h])])
  BY <1>3 DEF AllSound
<1> QED  BY <1>4, <1>5 DEF returned

\* bw_set -h gives the kernel the histories it should have, if they are sent as
\* they are.
LEMMA SentSeen ==
  ASSUME Timely, NEW hs, NEW ts, AllSound(case, clock, hs, ts),
         [h \in DOMAIN hs |-> Sent(hs[h])] = hs
  PROVE  AllSeen(case, clock, West(clock), hs, ts)
<1>1. PICK H \in SUBSET Hosts :
        /\ hs \in [H -> History] /\ ts \in [H -> Truth]
        /\ \A h \in H : Sound(case, clock, hs[h], ts[h])
  BY DEF AllSound
<1>2. ASSUME NEW h \in H
      PROVE  Seen(case, clock, West(clock), hs[h], ts[h])
  <2>1. PICK a \in 1 .. Len(case.starts), n \in 1 .. Nodes :
          /\ Covers(case, clock, a, n, ts[h])
          /\ hs[h] = TrueAs(case, a, n, ts[h])
    BY <1>1 DEF Sound
  <2>2. Sent(hs[h]) = hs[h]
    BY <1>1
  <2>3. hs[h] = SeenAs(case, West(clock), a, n, ts[h])
    BY <2>1, <2>2, SentRight
  <2> QED  BY <2>1, <2>3 DEF Seen
<1> QED  BY <1>1, <1>2 DEF AllSeen

\* The content of the file is the answer of the kernel.
LEMMA SavedAll ==
  ASSUME NEW t, NEW hs, NEW ts, AllSound(case, t, hs, ts)
  PROVE  [h \in DOMAIN hs |-> Saved(hs[h])] = hs
<1>1. PICK H \in SUBSET Hosts : hs \in [H -> History]
  BY DEF AllSound
<1>2. ASSUME NEW h \in H PROVE Saved(hs[h]) = hs[h]
  <2>1. hs[h] \in History /\ hs[h].bws \in Seq(Nat)
    BY <1>1 DEF History
  <2>2. Saved(hs[h]) = [hs[h] EXCEPT !.bws = hs[h].bws]
    BY <2>1, SavedRight
  <2> QED  BY <2>1, <2>2 DEF History
<1> QED  BY <1>1, <1>2

\* Histories are not the absence of any.
LEMMA NoneSeen ==
  ASSUME NEW c, NEW t, NEW w, NEW hs, NEW ts, AllSeen(c, t, w, hs, ts)
  PROVE  hs # None
BY NoneAssumption DEF AllSeen

\* A new rule has no histories and there is nothing to tell.
LEMMA NothingSeen ==
  ASSUME NEW c, NEW t, NEW w
  PROVE  AllSeen(c, t, w, <<>>, <<>>)
<1>1. ASSUME NEW T PROVE <<>> \in [{} -> T]
  <2>1. <<>> \in Seq(T) /\ Len(<<>>) = 0
    OBVIOUS
  <2>2. <<>> \in [1 .. 0 -> T]
    BY <2>1, LenProperties
  <2>3. 1 .. 0 = {}
    OBVIOUS
  <2> QED  BY <2>2, <2>3
<1> HIDE DEF History, Truth
<1> QED  BY <1>1 DEF AllSeen

\* Adding to the last of a sequence of volumes gives one.
LEMMA AddToLastShape ==
  ASSUME NEW s \in Seq(Nat), NEW v \in Nat, Len(s) >= 1
  PROVE  AddToLast(s, v) \in Seq(Nat) /\ Len(AddToLast(s, v)) = Len(s)
<1> DEFINE n == Len(s)   r == [s EXCEPT ![n] = s[n] + v]
<1>1. n \in Nat /\ s \in [1 .. n -> Nat] /\ n \in 1 .. n
  BY LenProperties
<1>2. s[n] + v \in Nat
  BY <1>1
<1>3. r \in [1 .. n -> Nat]
  BY <1>1, <1>2
<1>4. r \in Seq(Nat) /\ Len(r) = n
  <2> HIDE DEF r, n
  <2>1. r \in Seq(Nat)
    BY <1>1, <1>3, IsASeq
  <2>2. DOMAIN r = 1 .. n /\ DOMAIN r = 1 .. Len(r) /\ Len(r) \in Nat
    BY <1>3, <2>1, LenProperties
  <2> QED  BY <1>1, <2>1, <2>2
<1>5. AddToLast(s, v) = r
  BY DEF AddToLast
<1> QED  BY <1>4, <1>5

\* What is transferred is added to what both have of the present interval.
LEMMA AddedRight ==
  ASSUME NEW c, NEW t, NEW w, NEW a, NEW n, NEW told, Covers(c, t, a, n, told),
         NEW seen, seen = SeenAs(c, w, a, n, told), NEW v \in Nat,
         NEW told2, told2 = [starts |-> told.starts, bws |-> AddToLast(told.bws, v)],
         NEW seen2, seen2 = [start |-> seen.start, end |-> seen.end,
                             bws |-> AddToLast(seen.bws, v)]
  PROVE  Covers(c, t, a, n, told2) /\ seen2 = SeenAs(c, w, a, n, told2)
<1>1. /\ told.starts \in Seq(Int) /\ told.bws \in Seq(Nat)
      /\ Len(told.bws) = n /\ n \in 1 .. Nodes
  BY DEF Covers, Truth
<1>2. Len(told.bws) >= 1
  BY <1>1
<1>3. /\ AddToLast(told.bws, v) \in Seq(Nat)
      /\ Len(AddToLast(told.bws, v)) = n
  BY <1>1, <1>2, AddToLastShape
<1>4. told2.starts = told.starts /\ told2.bws = AddToLast(told.bws, v)
  OBVIOUS
<1>5. told2 \in Truth
  BY <1>1, <1>3 DEF Truth
<1>6. Covers(c, t, a, n, told2)
  BY <1>3, <1>4, <1>5 DEF Covers
<1>7. seen2 = SeenAs(c, w, a, n, told2)
  BY <1>4 DEF SeenAs
<1> QED  BY <1>6, <1>7

\* The history of a host that has none begins with the present interval.
LEMMA NewRight ==
  ASSUME Timely, NEW w \in Int
  PROVE  /\ Covers(case, clock, Present, 1, NewTruth)
         /\ NewHistory(w) = SeenAs(case, w, Present, 1, NewTruth)
<1>1. /\ Present \in 1 .. Total - 1 /\ Total \in Nat
      /\ Nodes \in Nat \ {0}
  BY PresentIs, StartShape, BoundAssumption DEF Timely
<1>2. /\ Present \in 1 .. Total /\ Present + 1 \in 1 .. Total
      /\ Present + 1 - 1 = Present /\ 1 \in 1 .. Nodes
  BY <1>1
<1>3. Starts[Present] <= clock /\ Starts[Present] \in Int
  BY <1>2, PresentIs, StartShape DEF Timely
<1>4. /\ <<case.starts[Present]>> = Stretch(case.starts, Present, 1)
      /\ <<case.starts[Present]>> \in Seq(Int)
      /\ <<0>> \in Seq(Nat) /\ Len(<<0>>) = 1
  <2>1. case.starts[Present] \in Int
    BY <1>3 DEF Starts
  <2>2. Stretch(case.starts, Present, 1) = [i \in 1 .. 1 |-> case.starts[Present]]
    <3>1. \A i \in 1 .. 1 : Present + i - 1 = Present
      BY <1>1
    <3> QED  BY <3>1 DEF Stretch
  <2> QED  BY <2>1, <2>2
<1>5. NewTruth \in Truth
  BY <1>4 DEF NewTruth, Truth
<1>6. NewTruth.starts = <<case.starts[Present]>> /\ NewTruth.bws = <<0>>
  BY DEF NewTruth
<1>7. Covers(case, clock, Present, 1, NewTruth)
  BY <1>2, <1>3, <1>4, <1>5, <1>6 DEF Covers, Starts, Total
<1>8. NewHistory(w) = SeenAs(case, w, Present, 1, NewTruth)
  BY <1>6 DEF NewHistory, SeenAs, View, Following
<1> QED  BY <1>7, <1>8

\* A packet.
LEMMA CountSeen ==
  ASSUME Timely, NEW hs, NEW ts, AllSeen(case, clock, sys_west, hs, ts),
         NEW h \in Hosts, NEW v \in Nat,
         NEW seen, seen = IF h \in DOMAIN hs THEN Current(hs[h], sys_west)
                          ELSE NewHistory(sys_west),
         NEW told, told = IF h \in DOMAIN ts THEN TrueSince(ts[h])
                          ELSE NewTruth
  PROVE  AllSeen(case, clock, sys_west,
            With(hs, h, [seen EXCEPT !.bws = AddToLast(@, v)]),
            With(ts, h, [told EXCEPT !.bws = AddToLast(@, v)]))
<1>1. PICK H \in SUBSET Hosts :
        /\ hs \in [H -> History] /\ ts \in [H -> Truth]
        /\ \A x \in H : Seen(case, clock, sys_west, hs[x], ts[x])
  BY DEF AllSeen
<1>2. case \in Cases /\ sys_west \in Int
  BY ZoneShape DEF Timely
<1>3. PICK a, n : /\ Covers(case, clock, a, n, told)
                  /\ seen = SeenAs(case, sys_west, a, n, told)
  <2>1. CASE h \in H
    <3>1. PICK a \in 1 .. Len(case.starts), n \in 1 .. Nodes :
            /\ Covers(case, clock, a, n, ts[h])
            /\ hs[h] = SeenAs(case, sys_west, a, n, ts[h])
      BY <1>1, <2>1 DEF Seen
    <3> DEFINE k == Capped(Present - a + 1)
    <3>2. seen = Current(hs[h], sys_west) /\ told = TrueSince(ts[h])
      BY <1>1, <2>1
    <3>3. Covers(case, clock, Present - k + 1, k, told)
      BY <3>1, <3>2, TrueSinceRight
    <3>4. seen = SeenAs(case, sys_west, Present - k + 1, k, told)
      BY <1>2, <3>1, <3>2, CurrentRight
    <3> HIDE DEF k
    <3> QED  BY <3>3, <3>4
  <2>2. CASE h \notin H
    <3>1. seen = NewHistory(sys_west) /\ told = NewTruth
      BY <1>1, <2>2
    <3> QED  BY <1>2, <3>1, NewRight
  <2> QED  BY <2>1, <2>2
<1>4. PICK seen2 : seen2 = [seen EXCEPT !.bws = AddToLast(@, v)]
  OBVIOUS
<1>5. PICK told2 : told2 = [told EXCEPT !.bws = AddToLast(@, v)]
  OBVIOUS
<1>6. seen2 = [start |-> seen.start, end |-> seen.end,
               bws |-> AddToLast(seen.bws, v)]
  BY <1>3, <1>4 DEF SeenAs
<1>7. told2 = [starts |-> told.starts, bws |-> AddToLast(told.bws, v)]
  <2>1. told \in Truth
    BY <1>3 DEF Covers
  <2> QED  BY <1>5, <2>1 DEF Truth
<1>8. Covers(case, clock, a, n, told2) /\ seen2 = SeenAs(case, sys_west, a, n, told2)
  BY <1>3, <1>6, <1>7, AddedRight
<1>9. /\ a \in 1 .. Len(case.starts) /\ n \in 1 .. Nodes
      /\ seen2 \in History /\ told2 \in Truth
  BY <1>2, <1>8, ShapeOfCovered
<1>10. Seen(case, clock, sys_west, seen2, told2)
  BY <1>8, <1>9 DEF Seen
<1> DEFINE hs2 == With(hs, h, seen2)   ts2 == With(ts, h, told2)
           G == H \cup {h}
<1>11. /\ hs2 \in [G -> History] /\ ts2 \in [G -> Truth]
       /\ hs2[h] = seen2 /\ ts2[h] = told2
       /\ \A x \in H \ {h} : hs2[x] = hs[x] /\ ts2[x] = ts[x]
  <2>1. /\ hs2 \in [G -> History] /\ hs2[h] = seen2
        /\ \A x \in H \ {h} : hs2[x] = hs[x]
    <3>1. hs \in [H -> History] /\ seen2 \in History
      BY <1>1, <1>9
    <3>2. /\ With(hs, h, seen2) \in [H \cup {h} -> History]
          /\ With(hs, h, seen2)[h] = seen2
          /\ \A x \in H \ {h} : With(hs, h, seen2)[x] = hs[x]
      BY <3>1 DEF With
    <3> QED  BY <3>2
  <2>2. /\ ts2 \in [G -> Truth] /\ ts2[h] = told2
        /\ \A x \in H \ {h} : ts2[x] = ts[x]
    <3>1. ts \in [H -> Truth] /\ told2 \in Truth
      BY <1>1, <1>9
    <3>2. /\ With(ts, h, told2) \in [H \cup {h} -> Truth]
          /\ With(ts, h, told2)[h] = told2
          /\ \A x \in H \ {h} : With(ts, h, told2)[x] = ts[x]
      BY <3>1 DEF With
    <3> QED  BY <3>2
  <2> QED  BY <2>1, <2>2
<1> HIDE DEF hs2, ts2
<1>12. \A x \in G : Seen(case, clock, sys_west, hs2[x], ts2[x])
  BY <1>1, <1>10, <1>11
<1>13. G \in SUBSET Hosts
  BY <1>1
<1> HIDE DEF G
<1>14. AllSeen(case, clock, sys_west, hs2, ts2)
  BY <1>11, <1>12, <1>13 DEF AllSeen
<1> QED  BY <1>4, <1>5, <1>14 DEF hs2, ts2

-----------------------------------------------------------------------------
\* The steps.

\* The invariant holds at the start.
LEMMA InitInv == Init => IInv
<1> SUFFICES ASSUME Init PROVE IInv
  OBVIOUS
<1> USE DEF Init
<1>1. case \in Cases
  OBVIOUS
<1>2. Timely
  <2>1. 1 \in 1 .. Total /\ Total \in 1 .. Total /\ 1 < Total
    BY <1>1, StartShape
  <2>2. Starts[1] \in Int /\ Starts[1] < Starts[Total]
    BY <1>1, <2>1, StartShape
  <2>3. clock = Starts[1]
    BY DEF Starts
  <2>4. sys_west \in Offsets
    BY <1>1, <2>2, <2>3, ZoneShape
  <2> QED  BY <1>1, <2>2, <2>3, <2>4 DEF Timely
<1>3. Records
  BY DEF Records, Writers, Idle
<1>4. KernelSeen /\ RuleThere /\ FileSound
  BY DEF KernelSeen, RuleThere, FileSound
<1>5. AnswersSound
  BY DEF AnswersSound, AnswerSound, Writers, Idle
<1> QED  BY <1>2, <1>3, <1>4, <1>5 DEF IInv

\* A step that changes nothing an invariant speaks of keeps it.
LEMMA AnswersKept ==
  ASSUME AnswersSound, UNCHANGED <<case, clock, proc>>
  PROVE  AnswersSound'
BY DEF AnswersSound, AnswerSound

\* The same of the file.
LEMMA FileKept ==
  ASSUME FileSound, UNCHANGED <<case, clock, file, kept>>
  PROVE  FileSound'
BY DEF FileSound

\* The kernel's offset is one of the zone after set_kernel_timezone.
LEMMA TimelyKept ==
  ASSUME Timely, UNCHANGED <<case, clock>>, sys_west' = sys_west \/ sys_west' = West(clock)
  PROVE  Timely'
<1>1. West(clock) \in Offsets
  BY ZoneShape DEF Timely
<1> QED  BY <1>1 DEF Timely, Starts, Total, Offsets

\* Time goes on within an interval or to the next one.
LEMMA TickInv == IInv /\ Tick => IInv'
<1> SUFFICES ASSUME IInv, Tick PROVE IInv'
  OBVIOUS
<1>1. /\ Present + 1 < Len(case.starts)
      /\ clock' = IF clock < case.zone.change
                  THEN Min({Following, case.zone.change}) ELSE Following
      /\ UNCHANGED <<case, sys_west, kernel, init, proc, file, truth, kept>>
  BY DEF Tick
<1>2. /\ Timely /\ case \in Cases /\ clock \in Int
      /\ Present \in 1 .. Total - 1 /\ Total \in Nat
      /\ case.zone.change \in Int
  <2>1. Timely /\ case \in Cases /\ clock \in Int
    BY DEF IInv, Timely
  <2> QED  BY <2>1, PresentIs, StartShape, ZoneShape
<1>3. /\ Present + 1 \in 1 .. Total /\ Present + 1 < Total
      /\ Total \in 1 .. Total /\ ~ (Present + 1 <= Present)
  BY <1>1, <1>2 DEF Total
<1>4. /\ Following \in Int /\ clock < Following /\ Following < Starts[Total]
  <2>1. Following = Starts[Present + 1]
    BY DEF Following, Starts
  <2>2. Starts[Present + 1] \in Int /\ Starts[Present + 1] < Starts[Total]
    BY <1>2, <1>3, StartShape
  <2>3. ~ (Starts[Present + 1] <= clock)
    BY <1>2, <1>3, PresentIs
  <2> QED  BY <1>2, <2>1, <2>2, <2>3
<1>5. clock' \in Int /\ clock <= clock' /\ clock' <= Following
  <2>1. CASE clock < case.zone.change
    <3> DEFINE S == {Following, case.zone.change}
    <3>1. Min(S) \in S /\ \A x \in S : Min(S) <= x
      <4>1. S \in SUBSET Int /\ Following \in S
        BY <1>2, <1>4
      <4>2. \E m \in S : \A x \in S : m <= x
        BY <1>2, <1>4
      <4> HIDE DEF S
      <4> QED  BY <4>2 DEF Min
    <3> QED  BY <1>1, <1>2, <1>4, <2>1, <3>1
  <2>2. CASE ~ (clock < case.zone.change)
    BY <1>1, <1>2, <1>4, <2>2
  <2> QED  BY <2>1, <2>2
<1>6. Timely'
  <2>1. Starts[1] \in Int /\ Starts[1] <= clock /\ sys_west \in Offsets
        /\ Starts[Total] \in Int
    BY <1>2, <1>3, StartShape DEF Timely
  <2>2. Starts[1] <= clock' /\ clock' < Starts[Total]
    BY <1>2, <1>4, <1>5, <2>1
  <2> QED  BY <1>1, <1>2, <1>5, <2>1, <2>2 DEF Timely, Starts, Total, Offsets
<1>7. KernelSeen'
  <2> SUFFICES ASSUME kernel # None, truth # Unknown
               PROVE  AllSeen(case, clock', sys_west, kernel, truth)
    BY <1>1 DEF KernelSeen
  <2>1. AllSeen(case, clock, sys_west, kernel, truth)
    BY DEF IInv, KernelSeen
  <2> QED  BY <1>2, <1>5, <2>1, SeenLater
<1>8. AnswersSound'
  <2> SUFFICES ASSUME NEW p \in Writers, proc[p].pc \in {"open", "write"},
                      proc[p].told # Unknown
               PROVE  AllSound(case, clock', proc[p].data, proc[p].told)
    BY <1>1 DEF AnswersSound, AnswerSound
  <2>1. AllSound(case, clock, proc[p].data, proc[p].told)
    BY DEF IInv, AnswersSound, AnswerSound
  <2> QED  BY <1>2, <1>5, <2>1, SoundLater
<1>9. FileSound'
  <2> SUFFICES ASSUME kept # Unknown, ~ (file = None /\ kept = <<>>)
               PROVE  /\ file # None /\ file.whole
                      /\ AllSound(case, clock', file.hosts, kept)
    BY <1>1 DEF FileSound
  <2>1. file # None /\ file.whole /\ AllSound(case, clock, file.hosts, kept)
    BY DEF IInv, FileSound
  <2> QED  BY <1>2, <1>5, <2>1, SoundLater
<1>10. Records' /\ RuleThere'
  BY <1>1 DEF IInv, Records, RuleThere
<1> QED  BY <1>6, <1>7, <1>8, <1>9, <1>10 DEF IInv

\* The kernel's histories move to the present offset.
LEMMA ZoneSetKept ==
  ASSUME Timely, KernelSeen, RuleThere, ZoneSet,
         UNCHANGED <<case, clock, truth>>, init' = init \/ init' # "start"
  PROVE  KernelSeen' /\ RuleThere'
<1>1. ASSUME kernel # None, truth # Unknown
      PROVE  /\ AllSeen(case, clock, West(clock), kernel', truth)
             /\ kernel' # None
  <2>1. AllSeen(case, clock, sys_west, kernel, truth)
    BY <1>1 DEF KernelSeen
  <2>2. AllSeen(case, clock, West(clock), InZone(kernel), truth)
    BY <2>1, InZoneSeen
  <2> QED  BY <1>1, <2>2, NoneSeen DEF ZoneSet
<1>2. kernel = None => kernel' = None
  BY DEF ZoneSet
<1>3. KernelSeen'
  BY <1>1, <1>2 DEF KernelSeen, ZoneSet
<1>4. RuleThere'
  BY <1>1 DEF RuleThere
<1> QED  BY <1>3, <1>4

\* Cron does so.
LEMMA SetKernelTimezoneInv == IInv /\ SetKernelTimezone => IInv'
<1> SUFFICES ASSUME IInv, SetKernelTimezone PROVE IInv'
  OBVIOUS
<1>1. /\ sys_west' = West(clock)
      /\ kernel' = IF kernel = None THEN None ELSE InZone(kernel)
      /\ UNCHANGED <<case, clock, init, proc, file, truth, kept>>
  BY DEF SetKernelTimezone, ZoneSet
<1>2. Timely'
  BY <1>1, TimelyKept DEF IInv
<1>4. KernelSeen' /\ RuleThere'
  BY <1>1, ZoneSetKept DEF IInv, ZoneSet
<1>6. AnswersSound' /\ FileSound' /\ Records'
  BY <1>1, AnswersKept, FileKept DEF IInv, Records
<1> QED  BY <1>2, <1>4, <1>6 DEF IInv

\* A packet is counted in both.
LEMMA CountInv ==
  ASSUME NEW h \in Hosts, NEW v \in Volumes
  PROVE  IInv /\ Count(h, v) => IInv'
<1> SUFFICES ASSUME IInv, Count(h, v) PROVE IInv'
  OBVIOUS
<1> DEFINE seen == IF h \in DOMAIN kernel THEN Current(kernel[h], sys_west)
                   ELSE NewHistory(sys_west)
           told == IF h \in DOMAIN truth THEN TrueSince(truth[h]) ELSE NewTruth
<1>1. /\ kernel # None
      /\ kernel' = With(kernel, h, [seen EXCEPT !.bws = AddToLast(@, v)])
      /\ truth # Unknown =>
            truth' = With(truth, h, [told EXCEPT !.bws = AddToLast(@, v)])
      /\ truth = Unknown => truth' = Unknown
      /\ UNCHANGED <<case, clock, sys_west, init, proc, file, kept>>
  BY DEF Count
<1>2. Timely' /\ v \in Nat
  BY <1>1, TimelyKept, BoundAssumption DEF IInv
<1>3. ASSUME truth' # Unknown
      PROVE  AllSeen(case, clock, sys_west, kernel', truth') /\ kernel' # None
  <2>1. AllSeen(case, clock, sys_west, kernel, truth) /\ truth # Unknown
    BY <1>1, <1>3 DEF IInv, KernelSeen
  <2>2. PICK s : s = seen
    OBVIOUS
  <2>3. PICK t : t = told
    OBVIOUS
  <2>4. AllSeen(case, clock, sys_west,
            With(kernel, h, [s EXCEPT !.bws = AddToLast(@, v)]),
            With(truth, h, [t EXCEPT !.bws = AddToLast(@, v)]))
    BY <1>2, <2>1, <2>2, <2>3, CountSeen DEF IInv
  <2>5. /\ kernel' = With(kernel, h, [s EXCEPT !.bws = AddToLast(@, v)])
        /\ truth' = With(truth, h, [t EXCEPT !.bws = AddToLast(@, v)])
    BY <1>1, <2>1, <2>2, <2>3
  <2> QED  BY <2>4, <2>5, NoneSeen
<1>4. KernelSeen' /\ RuleThere'
  BY <1>1, <1>3 DEF KernelSeen, RuleThere
<1>5. AnswersSound' /\ FileSound' /\ Records'
  BY <1>1, AnswersKept, FileKept DEF IInv, Records
<1> QED  BY <1>2, <1>4, <1>5 DEF IInv

\* What a step leaves of one who backs up.
LEMMA AnswerKept ==
  ASSUME AnswersSound, UNCHANGED <<case, clock>>, NEW p \in Writers,
         proc'[p].pc = proc[p].pc, proc'[p].data = proc[p].data,
         proc'[p].told = proc[p].told
  PROVE  AnswerSound(p)'
BY DEF AnswersSound, AnswerSound

\* A backup begins.
LEMMA CronStartsInv == IInv /\ CronStarts => IInv'
<1> SUFFICES ASSUME IInv, CronStarts PROVE IInv'
  OBVIOUS
<1>1. /\ proc' = [proc EXCEPT !["cron"].pc = "get"]
      /\ UNCHANGED <<case, clock, sys_west, kernel, init, file, truth, kept>>
  BY DEF CronStarts
<1>2. Records
  BY DEF IInv
<1>3. Timely'
  BY <1>1, TimelyKept DEF IInv
<1>4. KernelSeen' /\ RuleThere'
  BY <1>1 DEF IInv, KernelSeen, RuleThere
<1>5. FileSound'
  BY <1>1, FileKept DEF IInv
<1>6. Records'
  BY <1>1, <1>2 DEF Records, Writers
<1>7. AnswerSound("cron")'
  <2>1. proc'["cron"].pc = "get"
    BY <1>1, <1>2 DEF Records, Writers
  <2> QED  BY <2>1 DEF AnswerSound
<1>8. AnswerSound("stop")'
  <2>1. proc'["stop"] = proc["stop"]
    BY <1>1, <1>2 DEF Records, Writers
  <2> QED  BY <1>1, <2>1, AnswerKept DEF IInv, Writers
<1>9. AnswersSound'
  BY <1>7, <1>8 DEF AnswersSound, Writers
<1> QED  BY <1>3, <1>4, <1>5, <1>6, <1>9 DEF IInv

\* A backup ends without an answer.
LEMMA QueryFailsInv ==
  ASSUME NEW p \in Writers
  PROVE  IInv /\ QueryFails(p) => IInv'
<1> SUFFICES ASSUME IInv, QueryFails(p) PROVE IInv'
  OBVIOUS
<1>1. /\ proc' = [proc EXCEPT ![p] = Idle]
      /\ sys_west' = West(clock) /\ ZoneSet
      /\ UNCHANGED <<case, clock, init, file, truth, kept>>
  BY DEF QueryFails, ZoneSet
<1>2. Records
  BY DEF IInv
<1>3. Timely'
  BY <1>1, TimelyKept DEF IInv
<1>4. KernelSeen' /\ RuleThere'
  BY <1>1, ZoneSetKept DEF IInv
<1>5. FileSound'
  BY <1>1, FileKept DEF IInv
<1>6. Records'
  BY <1>1, <1>2 DEF Records, Writers, Idle
<1>7. ASSUME NEW q \in Writers PROVE AnswerSound(q)'
  <2>1. CASE q = p
    <3>1. proc'[q].pc = "idle"
      BY <1>1, <1>2, <2>1 DEF Records, Idle
    <3> QED  BY <3>1 DEF AnswerSound
  <2>2. CASE q # p
    <3>1. proc'[q] = proc[q]
      BY <1>1, <1>2, <2>2 DEF Records
    <3> QED  BY <1>1, <3>1, AnswerKept DEF IInv
  <2> QED  BY <2>1, <2>2
<1>8. AnswersSound'
  BY <1>7 DEF AnswersSound
<1> QED  BY <1>3, <1>4, <1>5, <1>6, <1>8 DEF IInv

\* Who has an answer, that is sound, goes on to the file.
LEMMA AnsweredInv ==
  ASSUME NEW p \in Writers, NEW data, NEW told, IInv, ZoneSet,
         Answered(p, data, told),
         UNCHANGED <<case, clock, init, file, truth, kept>>,
         told # Unknown => AllSound(case, clock, data, told)
  PROVE  IInv'
<1> DEFINE alone == proc[Other(p)].pc \notin {"open", "write"}
           entry == [pc |-> "open", data |-> data, told |-> told,
                     alone |-> alone]
<1>1. sys_west' = West(clock)
  BY DEF ZoneSet
<1>2. proc' = [proc EXCEPT ![p] = entry, ![Other(p)].alone = @ /\ alone]
  BY DEF Answered
<1>3. Records /\ Other(p) \in Writers /\ Other(p) # p
      /\ \A q \in Writers : q = p \/ q = Other(p)
  BY DEF IInv, Other, Writers
<1> HIDE DEF alone
<1>4. Timely'
  BY <1>1, TimelyKept DEF IInv
<1>7. KernelSeen' /\ RuleThere'
  BY <1>1, ZoneSetKept DEF IInv
<1>8. FileSound'
  BY <1>1, FileKept DEF IInv
<1> DEFINE o == Other(p)
<1>9. proc'[p] = entry
  <2> HIDE DEF entry
  <2> QED  BY <1>2, <1>3 DEF Records
<1>10. /\ proc'[o].pc = proc[o].pc /\ proc'[o].data = proc[o].data
       /\ proc'[o].told = proc[o].told
       /\ DOMAIN proc'[o] = DOMAIN proc[o] /\ DOMAIN proc' = DOMAIN proc
  <2> HIDE DEF entry
  <2> QED  BY <1>2, <1>3 DEF Records
<1>11. Records'
  <2>1. DOMAIN proc'[p] = {"pc", "data", "told", "alone"}
    BY <1>9
  <2> HIDE DEF entry, o
  <2> QED  BY <1>3, <1>10, <2>1 DEF Records, o
<1>12. AnswerSound(o)'
  <2> HIDE DEF entry
  <2> QED  BY <1>1, <1>3, <1>10, AnswerKept DEF IInv
<1>13. AnswerSound(p)'
  BY <1>9 DEF AnswerSound
<1>14. AnswersSound'
  BY <1>3, <1>12, <1>13 DEF AnswersSound
<1> QED  BY <1>4, <1>7, <1>8, <1>11, <1>14 DEF IInv

\* The answer of the kernel is the truth brought up to now.
LEMMA QueryInv ==
  ASSUME NEW p \in Writers
  PROVE  IInv /\ Query(p) => IInv'
<1> SUFFICES ASSUME IInv, Query(p) PROVE IInv'
  OBVIOUS
<1> DEFINE data == [h \in DOMAIN kernel |->
                       Returned(Current(kernel'[h], sys_west'))]
<1>1. /\ kernel # None /\ ZoneSet /\ Answered(p, data, Told)
      /\ sys_west' = West(clock) /\ kernel' = InZone(kernel)
      /\ UNCHANGED <<case, clock, init, file, truth, kept>>
  BY DEF Query, ZoneSet
<1>2. Told # Unknown => AllSound(case, clock, data, Told)
  <2> SUFFICES ASSUME Told # Unknown
               PROVE  AllSound(case, clock, data, Told)
    OBVIOUS
  <2>1. truth # Unknown /\ Told = [h \in DOMAIN truth |-> TrueSince(truth[h])]
    BY DEF Told
  <2>2. AllSeen(case, clock, West(clock), kernel', truth)
    <3>1. AllSeen(case, clock, sys_west, kernel, truth)
      BY <1>1, <2>1 DEF IInv, KernelSeen
    <3> QED  BY <1>1, <3>1, InZoneSeen DEF IInv
  <2>3. DOMAIN kernel = DOMAIN kernel'
    <3>1. DOMAIN InZone(kernel) = DOMAIN kernel
      BY Zenon DEF InZone
    <3> QED  BY <1>1, <3>1
  <2>4. data = [h \in DOMAIN kernel' |->
                    Returned(Current(kernel'[h], West(clock)))]
    BY <1>1, <2>3
  <2>5. PICK k : k = kernel'
    OBVIOUS
  <2>6. AllSound(case, clock,
            [h \in DOMAIN k |-> Returned(Current(k[h], West(clock)))],
            [h \in DOMAIN truth |-> TrueSince(truth[h])])
    BY <2>2, <2>5, ReturnedSound DEF IInv
  <2> QED  BY <2>1, <2>4, <2>5, <2>6
<1> HIDE DEF data
<1> QED  BY <1>1, <1>2, AnsweredInv

\* Of the answer without hosts nothing is told.
LEMMA NoSocketInv ==
  ASSUME NEW p \in Writers
  PROVE  IInv /\ NoSocket(p) => IInv'
<1> SUFFICES ASSUME IInv, NoSocket(p) PROVE IInv'
  OBVIOUS
<1>1. /\ ZoneSet /\ Answered(p, <<>>, Unknown)
      /\ UNCHANGED <<case, clock, init, file, truth, kept>>
  BY DEF NoSocket
<1> QED  BY <1>1, AnsweredInv

\* While the file is being written nothing is known of it.
LEMMA OpenFileInv ==
  ASSUME NEW p \in Writers
  PROVE  IInv /\ OpenFile(p) => IInv'
<1> SUFFICES ASSUME IInv, OpenFile(p) PROVE IInv'
  OBVIOUS
<1>1. /\ proc[p].pc = "open" /\ proc' = [proc EXCEPT ![p].pc = "write"]
      /\ kept' = Unknown
      /\ UNCHANGED <<case, clock, sys_west, kernel, init, truth>>
  BY DEF OpenFile
<1>2. Records
  BY DEF IInv
<1>3. Timely'
  BY <1>1, TimelyKept DEF IInv
<1>4. KernelSeen' /\ RuleThere'
  BY <1>1 DEF IInv, KernelSeen, RuleThere
<1>5. FileSound'
  BY <1>1 DEF FileSound
<1>6. Records'
  BY <1>1, <1>2 DEF Records
<1>7. ASSUME NEW q \in Writers PROVE AnswerSound(q)'
  <2>1. /\ proc'[q].data = proc[q].data /\ proc'[q].told = proc[q].told
        /\ proc'[q].pc \in {"open", "write"} => proc[q].pc \in {"open", "write"}
    BY <1>1, <1>2 DEF Records
  <2> QED  BY <1>1, <2>1 DEF IInv, AnswersSound, AnswerSound
<1>8. AnswersSound'
  BY <1>7 DEF AnswersSound
<1> QED  BY <1>3, <1>4, <1>5, <1>6, <1>8 DEF IInv

\* The file has the answer, and the truth that was told with it.
LEMMA WriteFileInv ==
  ASSUME NEW p \in Writers
  PROVE  IInv /\ WriteFile(p) => IInv'
<1> SUFFICES ASSUME IInv, WriteFile(p) PROVE IInv'
  OBVIOUS
<1>1. /\ proc[p].pc = "write" /\ proc' = [proc EXCEPT ![p] = Idle]
      /\ file' = [whole |-> TRUE, hosts |-> Content(p)]
      /\ kept' = IF proc[p].alone THEN proc[p].told ELSE Unknown
      /\ UNCHANGED <<case, clock, sys_west, kernel, init, truth>>
  BY DEF WriteFile
<1>2. Records
  BY DEF IInv
<1>3. Timely'
  BY <1>1, TimelyKept DEF IInv
<1>4. KernelSeen' /\ RuleThere'
  BY <1>1 DEF IInv, KernelSeen, RuleThere
<1>5. FileSound'
  <2> SUFFICES ASSUME kept' # Unknown
               PROVE  /\ file' # None /\ file'.whole
                      /\ AllSound(case, clock, file'.hosts, kept')
    BY <1>1 DEF FileSound
  <2>1. kept' = proc[p].told /\ proc[p].told # Unknown
    BY <1>1
  <2>2. AllSound(case, clock, proc[p].data, proc[p].told)
    BY <1>1, <2>1 DEF IInv, AnswersSound, AnswerSound
  <2>3. Content(p) = proc[p].data
    BY <2>2, SavedAll DEF Content
  <2>4. file'.whole /\ file'.hosts = proc[p].data
    BY <1>1, <2>3
  <2>5. file' # None
    <3>1. PICK H \in SUBSET Hosts : proc[p].data \in [H -> History]
      BY <2>2 DEF AllSound
    <3>2. file' \in [whole : BOOLEAN, hosts : [H -> History]]
      <4> HIDE DEF History
      <4> QED  BY <1>1, <2>3, <3>1
    <3> QED  BY <3>2, NoneAssumption
  <2> QED  BY <2>1, <2>2, <2>4, <2>5
<1>6. Records'
  BY <1>1, <1>2 DEF Records, Idle
<1>7. ASSUME NEW q \in Writers PROVE AnswerSound(q)'
  <2>1. CASE q = p
    <3>1. proc'[q].pc = "idle"
      BY <1>1, <1>2, <2>1 DEF Records, Idle
    <3> QED  BY <3>1 DEF AnswerSound
  <2>2. CASE q # p
    <3>1. proc'[q] = proc[q]
      BY <1>1, <1>2, <2>2 DEF Records
    <3> QED  BY <1>1, <3>1, AnswerKept DEF IInv
  <2> QED  BY <2>1, <2>2
<1>8. AnswersSound'
  BY <1>7 DEF AnswersSound
<1> QED  BY <1>3, <1>4, <1>5, <1>6, <1>8 DEF IInv

\* A new rule.
LEMMA MakeRuleInv == IInv /\ MakeRule => IInv'
<1> SUFFICES ASSUME IInv, MakeRule PROVE IInv'
  OBVIOUS
<1>1. /\ kernel' = <<>> /\ truth' = <<>>
      /\ UNCHANGED <<case, clock, sys_west, proc, file, kept>>
  BY DEF MakeRule
<1>2. Timely'
  BY <1>1, TimelyKept DEF IInv
<1>3. AllSeen(case, clock, sys_west, <<>>, <<>>)
  BY NothingSeen
<1>4. kernel' # None
  BY <1>1, <1>3, NoneSeen
<1>5. KernelSeen' /\ RuleThere'
  BY <1>1, <1>3, <1>4 DEF KernelSeen, RuleThere
<1>6. AnswersSound' /\ FileSound' /\ Records'
  BY <1>1, AnswersKept, FileKept DEF IInv, Records
<1> QED  BY <1>2, <1>5, <1>6 DEF IInv

\* The kernel gets the histories of the file, of which the truth is that of the
\* file.
LEMMA RestoreInv == IInv /\ Restore => IInv'
<1> SUFFICES ASSUME IInv, Restore PROVE IInv'
  OBVIOUS
<1>1. /\ init = "start" /\ init' = "up" /\ sys_west' = West(clock)
      /\ file # None
      /\ UNCHANGED <<case, clock, proc, file, kept>>
  BY DEF Restore
<1>2. PICK hosts \in Loads :
        \/ /\ hosts = <<>>
           /\ kernel' = InZone(kernel) /\ truth' = truth
        \/ /\ hosts # <<>>
           /\ kernel' = [h \in DOMAIN hosts |-> Sent(hosts[h])]
           /\ truth' = IF \/ kept = Unknown
                          \/ [h \in DOMAIN hosts |-> Sent(hosts[h])] # hosts
                       THEN Unknown ELSE kept
  BY DEF Restore
<1>3. Timely'
  BY <1>1, TimelyKept DEF IInv
<1>4. ASSUME truth' # Unknown
      PROVE  AllSeen(case, clock, West(clock), kernel', truth')
  <2>1. CASE hosts = <<>>
    <3>1. truth' = truth /\ kernel' = InZone(kernel) /\ truth # Unknown
      BY <1>2, <1>4, <2>1
    <3>2. kernel # None
      BY <1>1, <3>1 DEF IInv, RuleThere
    <3>3. AllSeen(case, clock, sys_west, kernel, truth)
      BY <3>1, <3>2 DEF IInv, KernelSeen
    <3> QED  BY <3>1, <3>3, InZoneSeen DEF IInv
  <2>2. CASE hosts # <<>>
    <3>1. /\ kept # Unknown /\ truth' = kept
          /\ [h \in DOMAIN hosts |-> Sent(hosts[h])] = hosts
      BY <1>2, <1>4, <2>2
    <3>2. \/ file = None /\ kept = <<>>
          \/ /\ file # None /\ file.whole
             /\ AllSound(case, clock, file.hosts, kept)
      BY <3>1 DEF IInv, FileSound
    <3>4. hosts = file.hosts /\ AllSound(case, clock, hosts, kept)
      BY <1>1, <1>2, <3>2 DEF Loads
    <3>6. kernel' = hosts
      BY <1>2, <2>2, <3>1
    <3> QED  BY <3>1, <3>4, <3>6, SentSeen DEF IInv
  <2> QED  BY <2>1, <2>2
<1>5. KernelSeen' /\ RuleThere'
  BY <1>1, <1>4 DEF KernelSeen, RuleThere
<1>6. AnswersSound' /\ FileSound' /\ Records'
  BY <1>1, AnswersKept, FileKept DEF IInv, Records
<1> QED  BY <1>3, <1>5, <1>6 DEF IInv

\* The kernel keeps its own.
LEMMA RestoreFailsInv == IInv /\ RestoreFails => IInv'
<1> SUFFICES ASSUME IInv, RestoreFails PROVE IInv'
  OBVIOUS
<1>1. /\ init' = "up" /\ sys_west' = West(clock) /\ ZoneSet
      /\ UNCHANGED <<case, clock, proc, file, truth, kept>>
  BY DEF RestoreFails, ZoneSet
<1>2. Timely'
  BY <1>1, TimelyKept DEF IInv
<1>3. KernelSeen' /\ RuleThere'
  BY <1>1, ZoneSetKept DEF IInv
<1>4. AnswersSound' /\ FileSound' /\ Records'
  BY <1>1, AnswersKept, FileKept DEF IInv, Records
<1> QED  BY <1>2, <1>3, <1>4 DEF IInv

\* There is nothing to restore.
LEMMA NoBackupInv == IInv /\ NoBackup => IInv'
<1> SUFFICES ASSUME IInv, NoBackup PROVE IInv'
  OBVIOUS
<1>1. /\ init' = "up"
      /\ UNCHANGED <<case, clock, sys_west, kernel, proc, file, truth, kept>>
  BY DEF NoBackup
<1>2. Timely'
  BY <1>1, TimelyKept DEF IInv
<1>3. KernelSeen' /\ RuleThere'
  BY <1>1 DEF IInv, KernelSeen, RuleThere
<1>4. AnswersSound' /\ FileSound' /\ Records'
  BY <1>1, AnswersKept, FileKept DEF IInv, Records
<1> QED  BY <1>2, <1>3, <1>4 DEF IInv

\* The last backup begins.
LEMMA StopInv == IInv /\ Stop => IInv'
<1> SUFFICES ASSUME IInv, Stop PROVE IInv'
  OBVIOUS
<1>1. /\ init' = "stop" /\ proc' = [proc EXCEPT !["stop"].pc = "get"]
      /\ UNCHANGED <<case, clock, sys_west, kernel, file, truth, kept>>
  BY DEF Stop
<1>2. Records
  BY DEF IInv
<1>3. Timely'
  BY <1>1, TimelyKept DEF IInv
<1>4. KernelSeen' /\ RuleThere'
  BY <1>1 DEF IInv, KernelSeen, RuleThere
<1>5. FileSound'
  BY <1>1, FileKept DEF IInv
<1>6. Records'
  BY <1>1, <1>2 DEF Records, Writers
<1>7. AnswerSound("stop")'
  <2>1. proc'["stop"].pc = "get"
    BY <1>1, <1>2 DEF Records, Writers
  <2> QED  BY <2>1 DEF AnswerSound
<1>8. AnswerSound("cron")'
  <2>1. proc'["cron"] = proc["cron"]
    BY <1>1, <1>2 DEF Records, Writers
  <2> QED  BY <1>1, <2>1, AnswerKept DEF IInv, Writers
<1>9. AnswersSound'
  BY <1>7, <1>8 DEF AnswersSound, Writers
<1> QED  BY <1>3, <1>4, <1>5, <1>6, <1>9 DEF IInv

\* The rule is taken away.
LEMMA RemoveRuleInv == IInv /\ RemoveRule => IInv'
<1> SUFFICES ASSUME IInv, RemoveRule PROVE IInv'
  OBVIOUS
<1>1. /\ init' = "off" /\ kernel' = None
      /\ UNCHANGED <<case, clock, sys_west, proc, file, kept>>
  BY DEF RemoveRule
<1>2. Timely'
  BY <1>1, TimelyKept DEF IInv
<1>3. KernelSeen' /\ RuleThere'
  BY <1>1 DEF KernelSeen, RuleThere
<1>4. AnswersSound' /\ FileSound' /\ Records'
  BY <1>1, AnswersKept, FileKept DEF IInv, Records
<1> QED  BY <1>2, <1>3, <1>4 DEF IInv

\* The file is all that is left, or not even that.
LEMMA PowerLossInv == IInv /\ PowerLoss => IInv'
<1> SUFFICES ASSUME IInv, PowerLoss PROVE IInv'
  OBVIOUS
<1>1. /\ kernel' = None /\ init' = "off"
      /\ proc' = [p \in DOMAIN proc |-> Idle]
      /\ sys_west' = West(clock)
      /\ \/ UNCHANGED <<file, kept>>
         \/ file' = None /\ kept' = <<>>
      /\ UNCHANGED <<case, clock>>
  BY DEF PowerLoss
<1>2. Records
  BY DEF IInv
<1>3. Timely'
  BY <1>1, TimelyKept DEF IInv
<1>4. KernelSeen' /\ RuleThere'
  BY <1>1 DEF KernelSeen, RuleThere
<1>5. FileSound'
  <2>1. CASE UNCHANGED <<file, kept>>
    BY <1>1, <2>1, FileKept DEF IInv
  <2>2. CASE file' = None /\ kept' = <<>>
    BY <2>2 DEF FileSound
  <2> QED  BY <1>1, <2>1, <2>2
<1>6. Records' /\ AnswersSound'
  BY <1>1, <1>2 DEF Records, AnswersSound, AnswerSound, Idle
<1> QED  BY <1>3, <1>4, <1>5, <1>6 DEF IInv

\* The invariant holds in every state of a run.
THEOREM Invariant == Spec => []IInv
<1>1. IInv /\ [Next]_vars => IInv'
  <2> SUFFICES ASSUME IInv, [Next]_vars PROVE IInv'
    OBVIOUS
  <2>1. CASE Tick
    BY <2>1, TickInv
  <2>2. CASE SetKernelTimezone
    BY <2>2, SetKernelTimezoneInv
  <2>3. CASE \E h \in Hosts, v \in Volumes : Count(h, v)
    BY <2>3, CountInv
  <2>4. CASE CronStarts
    BY <2>4, CronStartsInv
  <2>5. CASE \E p \in {"cron", "stop"} :
                \/ QueryFails(p) \/ Query(p) \/ NoSocket(p)
                \/ OpenFile(p) \/ WriteFile(p)
    <3>1. PICK p \in Writers : \/ QueryFails(p) \/ Query(p) \/ NoSocket(p)
                               \/ OpenFile(p) \/ WriteFile(p)
      BY <2>5 DEF Writers
    <3> QED  BY <3>1, QueryFailsInv, QueryInv, NoSocketInv, OpenFileInv,
                WriteFileInv
  <2>6. CASE MakeRule
    BY <2>6, MakeRuleInv
  <2>7. CASE Restore
    BY <2>7, RestoreInv
  <2>12. CASE RestoreFails
    BY <2>12, RestoreFailsInv
  <2>13. CASE NoBackup
    BY <2>13, NoBackupInv
  <2>8. CASE Stop
    BY <2>8, StopInv
  <2>9. CASE RemoveRule
    BY <2>9, RemoveRuleInv
  <2>10. CASE PowerLoss
    BY <2>10, PowerLossInv
  <2>11. CASE UNCHANGED vars
    <3>1. UNCHANGED <<case, clock, sys_west, kernel, init, proc, file, truth, kept>>
      BY <2>11 DEF vars
    <3>2. Timely'
      BY <3>1, TimelyKept DEF IInv
    <3>3. AnswersSound' /\ FileSound' /\ Records'
      BY <3>1, AnswersKept, FileKept DEF IInv, Records
    <3>4. KernelSeen' /\ RuleThere'
      BY <3>1 DEF IInv, KernelSeen, RuleThere
    <3> QED  BY <3>2, <3>3, <3>4 DEF IInv
  <2> QED  BY <2>1, <2>2, <2>3, <2>4, <2>5, <2>6, <2>7, <2>8, <2>9, <2>10,
              <2>11, <2>12, <2>13 DEF Next
<1> QED  BY InitInv, <1>1, PTL DEF Spec

\* True histories tell the truth: the library finds their intervals from the
\* start, and the volumes are those of the truth.
LEMMA SoundTells ==
  ASSUME Timely, NEW t, NEW hs, NEW ts, AllSound(case, t, hs, ts)
  PROVE  /\ DOMAIN hs = DOMAIN ts
         /\ \A h \in DOMAIN hs : Tells(hs[h], ts[h])
<1>1. PICK H \in SUBSET Hosts :
        /\ hs \in [H -> History] /\ ts \in [H -> Truth]
        /\ \A h \in H : Sound(case, t, hs[h], ts[h])
  BY DEF AllSound
<1>2. ASSUME NEW h \in H PROVE Tells(hs[h], ts[h])
  <2>1. PICK a \in 1 .. Len(case.starts), n \in 1 .. Nodes :
          Covers(case, t, a, n, ts[h]) /\ hs[h] = TrueAs(case, a, n, ts[h])
    BY <1>1 DEF Sound
  <2>2. /\ hs[h].start = Starts[a] /\ hs[h].bws = ts[h].bws
        /\ Len(ts[h].bws) = n /\ ts[h].starts = Stretch(Starts, a, n)
        /\ a \in 1 .. Total /\ a + n \in 1 .. Total
    BY <2>1 DEF Covers, TrueAs, Starts, Total
  <2>3. n \in Nat /\ a + n - 1 <= Total /\ a \in 1 .. Total /\ case \in Cases
    <3>1. Nodes \in Nat /\ Total \in Nat /\ case \in Cases
      BY BoundAssumption, StartShape DEF Timely
    <3> QED  BY <2>2, <3>1
  <2>4. IntervalStarts(hs[h]) = ts[h].starts
    BY <2>2, <2>3, IntervalStartsRight
  <2> QED  BY <2>2, <2>4 DEF Tells
<1> QED  BY <1>1, <1>2

\* The invariant is stronger than HistoryTrue.
LEMMA HistoryFollows == IInv => HistoryTrue
<1> SUFFICES ASSUME IInv, kernel # None, truth # Unknown
             PROVE  /\ DOMAIN kernel = DOMAIN truth
                    /\ \A h \in DOMAIN kernel :
                        Tells(Returned(Current(InZone(kernel)[h], West(clock))),
                              TrueSince(truth[h]))
  BY DEF HistoryTrue
<1>1. AllSeen(case, clock, sys_west, kernel, truth)
  BY DEF IInv, KernelSeen
<1>2. PICK k : k = InZone(kernel)
  OBVIOUS
<1>3. AllSeen(case, clock, West(clock), k, truth)
  BY <1>1, <1>2, InZoneSeen DEF IInv
<1> DEFINE hs == [h \in DOMAIN k |-> Returned(Current(k[h], West(clock)))]
           ts == [h \in DOMAIN truth |-> TrueSince(truth[h])]
<1>4. AllSound(case, clock, hs, ts)
  BY <1>3, ReturnedSound DEF IInv
<1>5. DOMAIN hs = DOMAIN ts /\ \A h \in DOMAIN hs : Tells(hs[h], ts[h])
  <2> HIDE DEF hs, ts
  <2> QED  BY <1>4, SoundTells DEF IInv
<1>6. DOMAIN k = DOMAIN kernel
  BY <1>2, Zenon DEF InZone
<1>7. DOMAIN kernel = DOMAIN truth
  BY <1>5, <1>6
<1>8. ASSUME NEW h \in DOMAIN kernel
      PROVE  Tells(Returned(Current(k[h], West(clock))), TrueSince(truth[h]))
  <2>1. Tells(hs[h], ts[h])
    BY <1>5, <1>6
  <2> QED  BY <1>6, <1>7, <2>1
<1> QED  BY <1>2, <1>7, <1>8

\* The invariant is stronger than FileTrue.
LEMMA FileFollows == IInv => FileTrue
<1> SUFFICES ASSUME IInv, file # None, kept # Unknown
             PROVE  /\ file.whole /\ DOMAIN file.hosts = DOMAIN kept
                    /\ \A h \in DOMAIN kept : Tells(file.hosts[h], kept[h])
  BY DEF FileTrue
<1>1. file.whole /\ AllSound(case, clock, file.hosts, kept)
  BY DEF IInv, FileSound
<1> QED  BY <1>1, SoundTells DEF IInv

\* Who asks for the history of a rule, and is answered, gets the truth whenever
\* it is known: every interval's start and what each host transferred in it,
\* through changes of the zone, backups, restores that succeed or fail, restarts
\* and power losses, with any number of hosts, volumes of any size, any length
\* of history and any interval.
THEOREM HistoriesTrue == Spec => []HistoryTrue
BY Invariant, HistoryFollows, PTL

\* Unless two wrote it at once or bw_get emptied it for want of a socket, the
\* backup file is whole and tells the truth of the moment it was made.
THEOREM FilesTrue == Spec => []FileTrue
BY Invariant, FileFollows, PTL

-----------------------------------------------------------------------------
\* The semaphore.

PcShape ==
    pc \in [Procs -> {"out", "get", "setval", "check", "down", "held",
                      "peek", "up", "dead"}]

SemShape ==
    /\ semval \in Nat
    /\ PcShape
    /\ job \in [Procs -> {"lock", "unlock", "exit"}]
    /\ known \in [Procs -> BOOLEAN]
    /\ owns \in [Procs -> BOOLEAN]
    /\ created \in BOOLEAN
    /\ stray \in BOOLEAN

\* Where an owner can be: an owned semaphore is worth 0, and a process that
\* has come as far as the value of the semaphore knows its number.
Owner ==
    /\ semval <= 1
    /\ \A p \in Procs :
         /\ pc[p] = "held" => owns[p]
         /\ owns[p] => pc[p] \in {"held", "peek", "up", "dead"}
         /\ owns[p] => semval = 0 /\ known[p] /\ created
         /\ pc[p] \in {"setval", "check", "down"} => known[p]
    /\ \A p, q \in Procs : owns[p] /\ owns[q] => p = q

\* While the creator has yet to initialise the semaphore nobody can have it.
Creator ==
    /\ ~created => semval = 0 /\ \A p \in Procs : ~owns[p] /\ pc[p] # "setval"
    /\ \A p \in Procs : pc[p] = "setval" => created /\ semval = 0
    /\ \A p, q \in Procs : pc[p] = "setval" => ~owns[q]
    /\ \A p, q \in Procs : pc[p] = "setval" /\ pc[q] = "setval" => p = q

\* The inductive invariant: nothing is said of what comes after a stray
\* unlock, and no step takes the mark back.
SemInv == SemShape /\ (~stray => Owner /\ Creator)

\* Every step keeps the invariant, a handler's steps included.
LEMMA SemNextInv == SemInv /\ [SemNext]_semVars => SemInv'
<1> SUFFICES ASSUME SemInv, [SemNext]_semVars PROVE SemInv'
  OBVIOUS
<1> USE DEF SemInv, SemShape, PcShape, Owner, Creator
<1>1. ASSUME NEW p \in Procs, Lock(p) PROVE SemInv'
  BY <1>1 DEF Lock
<1>2. ASSUME NEW p \in Procs, GetSem(p) PROVE SemInv'
  BY <1>2 DEF GetSem, FirstCall
<1>3. ASSUME NEW p \in Procs, SetVal(p) PROVE SemInv'
  BY <1>3 DEF SetVal, FirstCall
<1>4. ASSUME NEW p \in Procs, CheckFree(p) \/ CheckTaken(p) PROVE SemInv'
  BY <1>4 DEF CheckFree, CheckTaken, Retry
<1>5. ASSUME NEW p \in Procs, Down(p) PROVE SemInv'
  BY <1>5 DEF Down
<1>6. ASSUME NEW p \in Procs, DownFails(p) PROVE SemInv'
  BY <1>6 DEF DownFails, Retry
<1>7. ASSUME NEW p \in Procs, Unlock(p) PROVE SemInv'
  BY <1>7 DEF Unlock
<1>8. ASSUME NEW p \in Procs, Peek(p) PROVE SemInv'
  BY <1>8 DEF Peek, AfterUnlock
<1>9. ASSUME NEW p \in Procs, Up(p) PROVE SemInv'
  <2>1. semval' \in Nat /\ job' = job /\ known' = known /\ created' = created
    BY <1>9 DEF Up
  <2>2. PcShape' /\ owns' \in [Procs -> BOOLEAN]
    BY <1>9 DEF Up, AfterUnlock
  <2>3. CASE stray \/ ~owns[p]
    <3>1. stray' = TRUE
      BY <1>9, <2>3 DEF Up
    <3> QED  BY <2>1, <2>2, <3>1
  <2>4. CASE ~stray /\ owns[p]
    <3>1. stray' = FALSE
      BY <1>9, <2>4 DEF Up
    <3>2. Owner' /\ Creator'
      BY <1>9, <2>4 DEF Up, AfterUnlock
    <3> QED  BY <2>1, <2>2, <3>1, <3>2
  <2> QED  BY <2>3, <2>4
<1>10. ASSUME NEW p \in Procs, Signal(p) PROVE SemInv'
  BY <1>10 DEF Signal
<1>11. ASSUME NEW p \in Procs, Kill(p) PROVE SemInv'
  BY <1>11 DEF Kill
<1>12. ASSUME NEW p \in Procs, Spawn(p) PROVE SemInv'
  BY <1>12 DEF Spawn
<1>13. CASE UNCHANGED semVars
  BY <1>13 DEF semVars
<1> QED
  BY <1>1, <1>2, <1>3, <1>4, <1>5, <1>6, <1>7, <1>8, <1>9, <1>10, <1>11,
     <1>12, <1>13 DEF SemNext, Call

\* The invariant holds at the start.
LEMMA SemInitInv == SemInit => SemInv
<1> SUFFICES ASSUME SemInit PROVE SemInv
  OBVIOUS
<1>1. semval = 0 /\ created = FALSE /\ stray = FALSE
  BY DEF SemInit
<1>2. \A p \in Procs : pc[p] = "out" /\ owns[p] = FALSE
  BY DEF SemInit
<1>3. owns \in [Procs -> BOOLEAN] /\ known \in [Procs -> BOOLEAN]
  BY DEF SemInit
<1>4. PcShape /\ job \in [Procs -> {"lock", "unlock", "exit"}]
  BY DEF SemInit, PcShape
<1>5. SemShape
  BY <1>1, <1>3, <1>4 DEF SemShape
<1>6. Owner /\ Creator
  BY <1>1, <1>2 DEF Owner, Creator
<1> QED  BY <1>5, <1>6 DEF SemInv

\* It holds of every run.
THEOREM SemInvariance == SemSpec => []SemInv
BY SemInitInv, SemNextInv, PTL DEF SemSpec

\* Two programs never talk to the kernel module at once, however many there
\* are and whichever of them are killed or sent a signal, until a handler has
\* raised a semaphore its process did not own.
THEOREM Exclusion == SemSpec => []MutualExclusion
<1>1. SemInv => MutualExclusion
  BY DEF SemInv, SemShape, PcShape, Owner, MutualExclusion
<1> QED  BY <1>1, SemInvariance, PTL

\* Until then the semaphore is free only when nobody owns it.
THEOREM FreeUnowned == SemSpec => []FreeMeansUnowned
<1>1. SemInv => FreeMeansUnowned
  BY DEF SemInv, SemShape, Owner, FreeMeansUnowned
<1> QED  BY <1>1, SemInvariance, PTL

\* Only a handler raises a semaphore its process does not own: without signals
\* nobody calls unlock() but the owner, and only lock() creates the semaphore.
OwnersUnlock ==
    /\ ~stray
    /\ \A p \in Procs :
         /\ job[p] # "exit"
         /\ pc[p] \in {"held", "peek", "up"} => owns[p]
         /\ pc[p] \in {"get", "setval"} => job[p] = "lock"

\* Without signals no unlock is stray, so that the two theorems above hold of
\* the whole run.
THEOREM NeverStray ==
    ASSUME SigProcs = {}
    PROVE  SemSpec => []~stray
<1>1. SemInit => OwnersUnlock
  BY DEF SemInit, OwnersUnlock
<1>2. SemInv /\ OwnersUnlock /\ [SemNext]_semVars => OwnersUnlock'
  <2> SUFFICES ASSUME SemInv, OwnersUnlock, [SemNext]_semVars PROVE OwnersUnlock'
    OBVIOUS
  <2> USE DEF SemInv, SemShape, PcShape, OwnersUnlock
  <2>1. ASSUME NEW p \in Procs, GetSem(p) \/ SetVal(p) PROVE OwnersUnlock'
    BY <2>1 DEF GetSem, SetVal, FirstCall
  <2>2. ASSUME NEW p \in Procs, CheckFree(p) \/ CheckTaken(p) \/ DownFails(p)
        PROVE  OwnersUnlock'
    BY <2>2 DEF CheckFree, CheckTaken, DownFails, Retry
  <2>3. ASSUME NEW p \in Procs, Lock(p) \/ Down(p) \/ Unlock(p)
        PROVE  OwnersUnlock'
    BY <2>3 DEF Lock, Down, Unlock
  <2>4. ASSUME NEW p \in Procs, Peek(p) PROVE OwnersUnlock'
    BY <2>4 DEF Peek, AfterUnlock
  <2>5. ASSUME NEW p \in Procs, Up(p) PROVE OwnersUnlock'
    <3>1. owns[p] /\ job[p] # "exit"
      BY <2>5 DEF Up
    <3> QED  BY <2>5, <3>1 DEF Up, AfterUnlock
  <2>6. ASSUME NEW p \in Procs, Signal(p) PROVE OwnersUnlock'
    BY <2>6 DEF Signal
  <2>7. ASSUME NEW p \in Procs, Kill(p) \/ Spawn(p) PROVE OwnersUnlock'
    BY <2>7 DEF Kill, Spawn
  <2>8. CASE UNCHANGED semVars
    BY <2>8 DEF semVars
  <2> QED
    BY <2>1, <2>2, <2>3, <2>4, <2>5, <2>6, <2>7, <2>8 DEF SemNext, Call
<1>3. OwnersUnlock => ~stray
  BY DEF OwnersUnlock
<1> QED  BY <1>1, <1>2, <1>3, SemInvariance, PTL DEF SemSpec
=============================================================================
