------------------------------ MODULE Calendar ------------------------------
(***************************************************************************)
(* The date in a WAL segment's key: civil_from_days (write/wal.rs) turns   *)
(* days since 1970-01-01 into year, month and day by integer arithmetic    *)
(* over 400-year eras.  The reference is the calendar itself, one day at a *)
(* time.                                                                   *)
(***************************************************************************)
EXTENDS Integers

CONSTANTS
    FirstDay,   \* bound: the first day checked ...
    FirstDate,  \* ... its date, <<year, month, day>> ...
    LastDay     \* bound: ... and the last day

VARIABLES
    days,  \* days since the epoch
    date   \* the date of that day, by the calendar

calendarVars == <<days, date>>

Leap(y) == y % 4 = 0 /\ (y % 100 # 0 \/ y % 400 = 0)

MonthLength(y, m) ==
    CASE m = 2 -> IF Leap(y) THEN 29 ELSE 28
      [] m \in {4, 6, 9, 11} -> 30
      [] OTHER -> 31

Tomorrow(y, m, d) ==
    IF d < MonthLength(y, m) THEN <<y, m, d + 1>>
    ELSE IF m < 12 THEN <<y, m + 1, 1>> ELSE <<y + 1, 1, 1>>

CalendarInit == days = FirstDay /\ date = FirstDate

NextDay ==
    /\ days < LastDay
    /\ days' = days + 1
    /\ date' = Tomorrow(date[1], date[2], date[3])

CalendarSpec == CalendarInit /\ [][NextDay]_calendarVars

----------------------------------------------------------------------------
\* Mutant of YearOfEra: the 29th of February of a leap year opens the next year.
YearOfEraNoLeap(doe) == (doe + doe \div 36524 - doe \div 146096) \div 365

\* Rust's division of integers cuts towards zero: \div on what is not negative,
\* as everything is here after 2001 (validate_timestamp refuses earlier times).
\* The branch for days before the year 0 is left out.
YearOfEra(doe) == (doe - doe \div 1460 + doe \div 36524 - doe \div 146096) \div 365

CivilFromDays(n) ==
    LET z   == n + 719468
        era == z \div 146097
        doe == z - era * 146097
        yoe == YearOfEra(doe)
        doy == doe - (365 * yoe + yoe \div 4 - yoe \div 100)
        mp  == (5 * doy + 2) \div 153
        m   == IF mp < 10 THEN mp + 3 ELSE mp - 9
    IN  <<yoe + era * 400 + (IF m <= 2 THEN 1 ELSE 0), m, doy - (153 * mp + 2) \div 5 + 1>>

\* Every day gets its own date, across leap years, centuries and the ends of an
\* era: keys of different days sort as the days do (write/wal.rs: segment_key).
DateIsCivil == CivilFromDays(days) = date
=============================================================================
