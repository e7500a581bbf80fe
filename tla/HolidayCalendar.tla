---------------------------- MODULE HolidayCalendar ----------------------------
(***************************************************************************)
(* The Brazilian holiday calendar behind due dates                         *)
(* (src/internal/pagamentos/domain/holiday_calendar.go).  A date is a day  *)
(* number: days since 1 March of year 0 of the proleptic Gregorian         *)
(* calendar, so that leap days come last in a year.                        *)
(***************************************************************************)
EXTENDS Integers, FiniteSets

CONSTANTS
  EasterYears,   \* the years whose Easter is asked for
  DateYears,     \* the years with due dates
  Tolerances     \* numbers of business days a payment may be late

ASSUME CalendarAssumption ==
  EasterYears \subseteq Nat /\ DateYears \subseteq Nat /\ Tolerances \subseteq Nat

VARIABLE cache   \* holidays of the years that were asked for

\* time.Date: the day number of a year, month and day, and the year of a day.
DayNumber(y, m, d) ==
  LET a == IF m > 2 THEN y ELSE y - 1
      n == IF m > 2 THEN m - 3 ELSE m + 9
  IN  365 * a + a \div 4 - a \div 100 + a \div 400 + (153 * n + 2) \div 5 + d - 1

YearOf(day) ==
  LET guess == (400 * day) \div 146097
  IN  CHOOSE y \in guess - 1 .. guess + 1 : DayNumber(y, 1, 1) <= day /\ day < DayNumber(y + 1, 1, 1)

\* time.Weekday: 0 is Sunday (1 March of year 0 was a Wednesday).
Weekday(day) == (day + 3) % 7

\* h: days from 21 March to the paschal full moon.
PaschalMoon(year) ==
  LET b == year \div 100
      f == (b + 8) \div 25
      g == (b - f + 1) \div 3
  IN  (19 * (year % 19) + b - b \div 4 - g + 15) % 30

\* The Gregorian computus.
computeEaster(year) ==
  LET c == year % 100
      h == PaschalMoon(year)
      l == (32 + 2 * ((year \div 100) % 4) + 2 * (c \div 4) - h - (c % 4)) % 7
      m == ((year % 19) + 11 * h + 22 * l) \div 451
      n == h + l - 7 * m + 114
  IN  DayNumber(year, n \div 31, (n % 31) + 1)

FixedHolidays == {<<1, 1>>, <<4, 21>>, <<5, 1>>, <<9, 7>>, <<10, 12>>, <<11, 2>>, <<11, 15>>, <<12, 25>>}
\* Days from Easter: the two days of Carnival, Good Friday, Corpus Christi.
MoveableHolidays == {-48, -47, -2, 60}

buildHolidays(year) ==
  {DayNumber(year, f[1], f[2]) : f \in FixedHolidays} \cup {computeEaster(year) + k : k \in MoveableHolidays}

\* holidaysForYear: what it returns and, under its lock, remembers.  Whoever
\* was second to miss the year finds it when it holds the lock.
HolidaysOf(year) == IF year \in DOMAIN cache THEN cache[year] ELSE buildHolidays(year)
holidaysForYear(year) == cache' = [y \in DOMAIN cache \cup {year} |-> HolidaysOf(y)]

CalendarInit == cache = [y \in {} |-> {}]
CalendarNext == \E y \in DateYears : holidaysForYear(y)
CalendarSpec == CalendarInit /\ [][CalendarNext]_cache

IsHoliday(day) == day \in HolidaysOf(YearOf(day))

isBusinessDay(day) == Weekday(day) \notin {0, 6} /\ ~IsHoliday(day)

-----------------------------------------------------------------------------
(* The two loops, for any set of open days.                                *)

\* The first open day from day on.
NextOpen(open, day) ==
  LET next[d \in Int] == IF d \in open THEN d ELSE next[d + 1]
  IN  next[day]

\* n open days after the first open day.
AddOpen(open, day, n) ==
  LET add[k \in Nat] == IF k = 0 THEN NextOpen(open, day) ELSE NextOpen(open, add[k - 1] + 1)
  IN  add[n]

BusinessDay == {day \in Int : isBusinessDay(day)}
NextBusinessDay(day) == NextOpen(BusinessDay, day)
\* Mutant: counting starts at the day itself, open or not.
CountFromTheDay(day, n) == IF n = 0 THEN day ELSE AddOpen(BusinessDay, day + 1, n - 1)
AddBusinessDays(day, n) == AddOpen(BusinessDay, day, n)

-----------------------------------------------------------------------------
\* Easter of every year is the one of the ecclesiastical tables (golden
\* number, corrections, epact, dominical day), another way to compute it than
\* computeEaster's.
EasterOn(y) ==
  LET golden == (y % 19) + 1
      century == y \div 100 + 1
      solar == (3 * century) \div 4 - 12
      lunar == (8 * century + 5) \div 25 - 5
      sunday == (5 * y) \div 4 - solar - 10
      epact == (11 * golden + 20 + lunar - solar) % 30
      late == IF epact = 24 \/ (epact = 25 /\ golden > 11) THEN epact + 1 ELSE epact
      moon == IF late > 23 THEN 74 - late ELSE 44 - late
  IN  DayNumber(y, 3, 1) + moon + 6 - ((sunday + moon) % 7)
EasterByTables == \A y \in EasterYears : computeEaster(y) = EasterOn(y)

\* What is remembered of a year are its holidays.
CacheIsTrue == \A y \in DOMAIN cache : y \in DateYears /\ cache[y] = buildHolidays(y)

DaysOf(y) == DayNumber(y, 1, 1) .. DayNumber(y, 12, 31)

\* NextBusinessDay has no bound on its loop: no date of a year is pushed by
\* more than four days, Carnival after a weekend being the worst.
SlipIsShort == \A y \in DOMAIN cache : \A d \in DaysOf(y) : NextBusinessDay(d) - d \in 0 .. 4

\* The tolerance of n business days is n business days for every date, also
\* when the due date itself is a holiday: the days counted are the open ones
\* after the due date was moved.
GraceCountsOpenDays ==
  \A y \in DOMAIN cache : \A d \in DaysOf(y), n \in Tolerances :
    /\ isBusinessDay(AddBusinessDays(d, n))
    /\ Cardinality({e \in NextBusinessDay(d) + 1 .. AddBusinessDays(d, n) : isBusinessDay(e)}) = n

\* The calendar behind due dates and tolerances is right on every date.
CalendarIsRight == EasterByTables /\ CacheIsTrue /\ SlipIsShort /\ GraceCountsOpenDays
=============================================================================
