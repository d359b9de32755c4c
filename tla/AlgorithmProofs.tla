-------------------------- MODULE AlgorithmProofs --------------------------
(***************************************************************************)
(* Algorithms, for all their inputs.                                       *)
(*                                                                         *)
(* Dates (Calendar.tla): the date of a segment's key is the calendar's, on *)
(* every day from 0000-03-01 on.  civil_from_days counts years and months  *)
(* from March, so that the day that comes and goes is the last of a year.  *)
(* The proof follows it: a day number is an era, a year of that era and a  *)
(* day of that year, and the calendar's next day is the next day of the    *)
(* year, the first day of the next year, or the first day of the next era. *)
(*                                                                         *)
(* Snapshots (Snapshot.tla): a replay of the WAL shows the last write.     *)
(*                                                                         *)
(* The token budget (ContextBudget.tla): the context that comes out fits.  *)
(*                                                                         *)
(* Open shards (LanceCache.tla): the counters are those of the paths that  *)
(* are noted, whoever else is searching.                                   *)
(*                                                                         *)
(* Queries (Retrieval.tla): a retriever returns the best of what it holds, *)
(* whatever the shards, the limits, the threads and the ties; an answer is *)
(* complete, holds nothing that does not pass, and follows both rankings.  *)
(***************************************************************************)
EXTENDS Calendar, Snapshot, ContextBudget, LanceCache, Retrieval, FoldLemmas

\* Days of an era before its year y begins, in March.
Before(y) == 365 * y + y \div 4 - y \div 100
\* y, of an era, ends with a February of 29 days.
LongYear(y) == (y + 1) % 4 = 0 /\ ((y + 1) % 100 # 0 \/ y = 399)
\* The month of day doy of a year, counted from March, the name of a month
\* counted so, and the day of the month.
MonthOf(doy) == (5 * doy + 2) \div 153
MonthName(mp) == IF mp < 10 THEN mp + 3 ELSE mp - 9
DayOf(doy) == doy - (153 * MonthOf(doy) + 2) \div 5 + 1
\* The calendar's year of month mp of the year y of an era.
YearName(era, y, mp) == y + era * 400 + (IF mp < 10 THEN 0 ELSE 1)
DateOf(era, y, doy) == <<YearName(era, y, MonthOf(doy)), MonthName(MonthOf(doy)), DayOf(doy)>>

\* The length of month mp of the year y of an era.
LengthOf(y, mp) ==
  IF mp \in {1, 3, 6, 8} THEN 30
  ELSE IF mp = 11 THEN (IF LongYear(y) THEN 29 ELSE 28) ELSE 31

After(d) == Tomorrow(d[1], d[2], d[3])

\* The calendar's step within a year of an era, and out of it.
DayFollows(era, y, doy) == After(DateOf(era, y, doy)) = DateOf(era, y, doy + 1)
LastOfYear(y) == IF LongYear(y) THEN 365 ELSE 364
YearFollows(era, y) == After(DateOf(era, y, LastOfYear(y))) = <<y + era * 400 + 1, 3, 1>>
MonthFollows(era, y, mp) ==
  Tomorrow(YearName(era, y, mp), MonthName(mp), LengthOf(y, mp))
    = <<YearName(era, y, mp + 1), MonthName(mp + 1), 1>>

----------------------------------------------------------------------------
\* YearOfEra finds the year a day of an era is in, also on the last day of the era,
\* where the sums of its approximation overrun (write/wal.rs: civil_from_days).
LEMMA YearIs ==
  ASSUME NEW doe \in Int, 0 <= doe, doe < 146097
  PROVE  LET y == YearOfEra(doe) IN
         /\ y \in Int /\ 0 <= y /\ y < 400
         /\ Before(y) \in Int /\ Before(y) <= doe /\ doe <= Before(y) + 365
         /\ doe = Before(y) + 365 => LongYear(y)
BY SMTT(60) DEF YearOfEra, Before, LongYear

\* The next day of an era is in the same year, or begins the next one.
LEMMA YearOfNextDay ==
  ASSUME NEW doe \in Int, 0 <= doe, doe + 1 < 146097
  PROVE  LET y == YearOfEra(doe) IN
         \/ YearOfEra(doe + 1) = y
         \/ /\ YearOfEra(doe + 1) = y + 1 /\ doe + 1 = Before(y + 1)
            /\ doe = Before(y) + (IF LongYear(y) THEN 365 ELSE 364)
BY SMTT(60) DEF YearOfEra, Before, LongYear

\* An era ends with the last day of its year 399, a long one.
LEMMA LastOfEra ==
  /\ YearOfEra(146096) = 399 /\ 146096 - Before(399) = 365 /\ LongYear(399)
  /\ YearOfEra(0) = 0 /\ 0 - Before(0) = 0
BY DEF YearOfEra, Before, LongYear

\* A year that began in March ends with February 29 when the calendar's year that
\* this February is in is a leap year.
LEMMA LeapIs ==
  ASSUME NEW era \in Nat, NEW y \in Int, 0 <= y, y < 400
  PROVE  Leap(y + era * 400 + 1) <=> LongYear(y)
BY SMTT(60) DEF Leap, LongYear

\* From one day of a year to the next: the next day of the month, or the first of
\* the next month when the month is at its end; February's end is the year's.
LEMMA MonthStep ==
  ASSUME NEW doy \in Int, 0 <= doy, doy <= 364
  PROVE  /\ MonthOf(doy) \in 0 .. 11 /\ DayOf(doy) \in Int
         /\ \/ /\ MonthOf(doy + 1) = MonthOf(doy) /\ DayOf(doy + 1) = DayOf(doy) + 1
               /\ DayOf(doy) < (IF MonthOf(doy) \in {1, 3, 6, 8} THEN 30
                                ELSE IF MonthOf(doy) = 11 THEN 29 ELSE 31)
               /\ MonthOf(doy) = 11 => DayOf(doy) < 28 \/ doy = 364
            \/ /\ MonthOf(doy + 1) = MonthOf(doy) + 1 /\ DayOf(doy + 1) = 1
               /\ DayOf(doy) = (IF MonthOf(doy) \in {1, 3, 6, 8} THEN 30 ELSE 31)
               /\ MonthOf(doy) < 11
BY SMTT(60) DEF MonthOf, DayOf

\* The first day of a year and the two days that may be its last.
LEMMA YearEnds ==
  /\ MonthOf(0) = 0 /\ DayOf(0) = 1
  /\ MonthOf(364) = 11 /\ DayOf(364) = 28
  /\ MonthOf(365) = 11 /\ DayOf(365) = 29
BY DEF MonthOf, DayOf

\* The calendar's month lengths are those of the months counted from March.
LEMMA LengthIs ==
  ASSUME NEW era \in Nat, NEW y \in Int, 0 <= y, y < 400, NEW mp \in 0 .. 11
  PROVE  MonthLength(YearName(era, y, mp), MonthName(mp)) = LengthOf(y, mp)
<1>1. CASE mp = 11
  <2>1. YearName(era, y, mp) = y + era * 400 + 1 /\ MonthName(mp) = 2
    BY <1>1 DEF YearName, MonthName
  <2>2. Leap(YearName(era, y, mp)) <=> LongYear(y)
    BY <2>1, LeapIs
  <2>3. QED
    BY <1>1, <2>1, <2>2 DEF MonthLength, LengthOf
<1>2. CASE mp # 11
  <2>1. PICK m \in 1 .. 12 : m = MonthName(mp)
    BY DEF MonthName
  <2>2. (m \in {4, 6, 9, 11} <=> mp \in {1, 3, 6, 8}) /\ m # 2
    BY <1>2, <2>1 DEF MonthName
  <2>3. QED
    BY <1>2, <2>1, <2>2 DEF MonthLength, LengthOf
<1>3. QED
  BY <1>1, <1>2

\* The day after the last of a month, before February, is the first of the next.
LEMMA FirstOfMonth ==
  ASSUME NEW era \in Nat, NEW y \in Int, 0 <= y, y < 400, NEW mp \in 0 .. 10
  PROVE  MonthFollows(era, y, mp)
<1>1. PICK Y \in Int : Y = YearName(era, y, mp)
  BY DEF YearName
<1>2. PICK m \in 1 .. 12 : m = MonthName(mp)
  BY DEF MonthName
<1>3. PICK length \in Int : length = LengthOf(y, mp)
  BY DEF LengthOf
<1>4. Tomorrow(Y, m, length) = IF m < 12 THEN <<Y, m + 1, 1>> ELSE <<Y + 1, 1, 1>>
  <2>1. mp \in 0 .. 11
    OBVIOUS
  <2>2. ~(length < MonthLength(Y, m))
    BY <1>1, <1>2, <1>3, <2>1, LengthIs
  <2>3. QED
    BY <2>2 DEF Tomorrow
<1>5. CASE m < 12
  <2>1. YearName(era, y, mp + 1) = Y /\ MonthName(mp + 1) = m + 1
    BY <1>1, <1>2, <1>5 DEF YearName, MonthName
  <2>2. QED
    BY <1>1, <1>2, <1>3, <1>4, <1>5, <2>1 DEF MonthFollows
<1>6. CASE ~(m < 12)
  <2>1. YearName(era, y, mp + 1) = Y + 1 /\ MonthName(mp + 1) = 1
    BY <1>1, <1>2, <1>6 DEF YearName, MonthName
  <2>2. QED
    BY <1>1, <1>2, <1>3, <1>4, <1>6, <2>1 DEF MonthFollows
<1>7. QED
  BY <1>5, <1>6

\* Within a year, the calendar's next day is the date of the next day of the year.
LEMMA DayInYear ==
  ASSUME NEW era \in Nat, NEW y \in Int, 0 <= y, y < 400,
         NEW doy \in Int, 0 <= doy, doy <= 364, doy = 364 => LongYear(y)
  PROVE  DayFollows(era, y, doy)
<1>1. PICK mp \in 0 .. 11 : mp = MonthOf(doy)
  BY MonthStep
<1>2. PICK d \in Int : d = DayOf(doy)
  BY MonthStep
<1>3. PICK length \in Int : length = LengthOf(y, mp)
  BY DEF LengthOf
<1>4. \/ MonthOf(doy + 1) = mp /\ DayOf(doy + 1) = d + 1 /\ d < length
      \/ MonthOf(doy + 1) = mp + 1 /\ DayOf(doy + 1) = 1 /\ d = length /\ mp < 11
  BY <1>1, <1>2, <1>3, MonthStep DEF LengthOf
<1>5. After(DateOf(era, y, doy)) = Tomorrow(YearName(era, y, mp), MonthName(mp), d)
  BY <1>1, <1>2 DEF After, DateOf
<1>6. CASE MonthOf(doy + 1) = mp /\ DayOf(doy + 1) = d + 1 /\ d < length
  <2>1. DateOf(era, y, doy + 1) = <<YearName(era, y, mp), MonthName(mp), d + 1>>
    BY <1>6 DEF DateOf
  <2>2. Tomorrow(YearName(era, y, mp), MonthName(mp), d)
          = <<YearName(era, y, mp), MonthName(mp), d + 1>>
    BY <1>3, <1>6, LengthIs DEF Tomorrow
  <2>3. QED
    BY <1>5, <2>1, <2>2 DEF DayFollows
<1>7. CASE MonthOf(doy + 1) = mp + 1 /\ DayOf(doy + 1) = 1 /\ d = length /\ mp < 11
  <2>1. DateOf(era, y, doy + 1) = <<YearName(era, y, mp + 1), MonthName(mp + 1), 1>>
    BY <1>7 DEF DateOf
  <2>2. MonthFollows(era, y, mp)
    <3>1. mp \in 0 .. 10
      BY <1>7
    <3>2. QED
      BY <3>1, FirstOfMonth
  <2>3. QED
    BY <1>3, <1>5, <1>7, <2>1, <2>2 DEF DayFollows, MonthFollows
<1>8. QED
  BY <1>4, <1>6, <1>7

\* The day after the last of February is the first of March.
LEMMA NewYear ==
  ASSUME NEW era \in Nat, NEW y \in Int, 0 <= y, y < 400
  PROVE  YearFollows(era, y)
<1>1. PICK doy \in Int : doy = LastOfYear(y)
  BY DEF LastOfYear
<1>2. PICK length \in Int : length = IF LongYear(y) THEN 29 ELSE 28
  OBVIOUS
<1>3. MonthOf(doy) = 11 /\ DayOf(doy) = length
  BY <1>1, <1>2, YearEnds DEF LastOfYear
<1>4. PICK Y \in Int : Y = YearName(era, y, 11) /\ Y = y + era * 400 + 1
  BY DEF YearName
<1>5. MonthName(11) = 2
  BY DEF MonthName
<1>6. After(DateOf(era, y, doy)) = Tomorrow(Y, 2, length)
  BY <1>3, <1>4, <1>5 DEF After, DateOf
<1>7. MonthLength(Y, 2) = length
  BY <1>2, <1>4, LeapIs DEF MonthLength
<1>8. Tomorrow(Y, 2, length) = <<Y, 3, 1>>
  BY <1>7 DEF Tomorrow
<1>9. QED
  BY <1>1, <1>4, <1>6, <1>8 DEF YearFollows

\* Day 0 of a year is the first of March.
LEMMA FirstOfYear ==
  ASSUME NEW era \in Nat, NEW y \in Int
  PROVE  DateOf(era, y, 0) = <<y + era * 400, 3, 1>>
<1>1. DateOf(era, y, 0) = <<YearName(era, y, 0), MonthName(0), 1>>
  BY YearEnds DEF DateOf
<1>2. YearName(era, y, 0) = y + era * 400 /\ MonthName(0) = 3
  BY DEF YearName, MonthName
<1>3. QED
  BY <1>1, <1>2

\* CivilFromDays takes a day number apart into era, year and day of the year.
LEMMA CivilIs ==
  ASSUME NEW n \in Int, NEW era \in Nat, NEW doe \in Int, 0 <= doe, doe < 146097,
         n + 719468 = 146097 * era + doe
  PROVE  CivilFromDays(n) = DateOf(era, YearOfEra(doe), doe - Before(YearOfEra(doe)))
<1>1. PICK z \in Int : z = n + 719468
  OBVIOUS
<1>2. era = z \div 146097 /\ doe = z - era * 146097
  BY <1>1
<1>3. PICK y \in Int : y = YearOfEra(doe) /\ Before(y) \in Int
  BY YearIs
<1>4. PICK doy \in Int : doy = doe - Before(y)
  BY <1>3
<1>5. PICK mp \in 0 .. 11 : mp = MonthOf(doy)
  <2>1. 0 <= doy /\ doy <= 365
    BY <1>3, <1>4, YearIs
  <2>2. QED
    BY <2>1 DEF MonthOf
<1>6. PICK m \in 1 .. 12 : m = MonthName(mp)
  BY DEF MonthName
<1>7. YearName(era, y, mp) = y + era * 400 + (IF m <= 2 THEN 1 ELSE 0)
  BY <1>6 DEF YearName, MonthName
<1>8. CivilFromDays(n) = <<y + era * 400 + (IF m <= 2 THEN 1 ELSE 0), m, DayOf(doy)>>
  <2>1. era = (n + 719468) \div 146097
    BY <1>1, <1>2
  <2>2. doe = (n + 719468) - era * 146097
    BY <1>1, <1>2
  <2>3. CivilFromDays(n) =
          <<y + era * 400 + (IF MonthName(MonthOf(doe - Before(y))) <= 2 THEN 1 ELSE 0),
            MonthName(MonthOf(doe - Before(y))), DayOf(doe - Before(y))>>
    BY <1>3, <2>1, <2>2 DEF CivilFromDays, MonthOf, MonthName, DayOf, Before
  <2>4. QED
    BY <1>4, <1>5, <1>6, <2>3
<1>9. QED
  BY <1>3, <1>4, <1>5, <1>6, <1>7, <1>8 DEF DateOf

\* The date of the next day number is the calendar's next day.
LEMMA DayAfterDay ==
  ASSUME NEW n \in Int, n >= -719468
  PROVE  After(CivilFromDays(n)) = CivilFromDays(n + 1)
<1>1. PICK day \in Nat : day = n + 719468
  OBVIOUS
<1>2. PICK era \in Nat : era = day \div 146097
  OBVIOUS
<1>3. PICK doe \in Int : doe = day - 146097 * era
  OBVIOUS
<1>4. 0 <= doe /\ doe < 146097 /\ n + 719468 = 146097 * era + doe
  BY <1>1, <1>2, <1>3
<1>5. PICK y \in Int : /\ y = YearOfEra(doe) /\ 0 <= y /\ y < 400
                       /\ Before(y) \in Int /\ Before(y) <= doe /\ doe <= Before(y) + 365
                       /\ doe = Before(y) + 365 => LongYear(y)
  BY <1>4, YearIs
<1>6. PICK doy \in Int : doy = doe - Before(y)
  BY <1>5
<1>7. CivilFromDays(n) = DateOf(era, y, doy)
  BY <1>4, <1>5, <1>6, CivilIs
<1>8. CASE doe + 1 < 146097
  <2>1. PICK next \in Int : next = doe + 1
    OBVIOUS
  <2>2. PICK tomorrow \in Int : tomorrow = n + 1
    OBVIOUS
  <2>3. CivilFromDays(tomorrow) = DateOf(era, YearOfEra(next), next - Before(YearOfEra(next)))
    <3>1. 0 <= next /\ next < 146097 /\ tomorrow + 719468 = 146097 * era + next
      BY <1>4, <1>8, <2>1, <2>2
    <3>2. QED
      BY <3>1, CivilIs
  <2>4. \/ YearOfEra(next) = y
        \/ /\ YearOfEra(next) = y + 1 /\ next = Before(y + 1)
           /\ doe = Before(y) + (IF LongYear(y) THEN 365 ELSE 364)
    BY <1>4, <1>5, <1>8, <2>1, YearOfNextDay
  <2>5. CASE YearOfEra(next) = y
    <3>1. next - Before(y) = doy + 1
      BY <1>5, <1>6, <2>1
    <3>2. 0 <= doy /\ doy <= 364 /\ (doy = 364 => LongYear(y))
      <4>1. next <= Before(y) + 365 /\ (next = Before(y) + 365 => LongYear(y))
        BY <1>4, <1>8, <2>1, <2>5, YearIs
      <4>2. QED
        BY <1>5, <1>6, <2>1, <4>1
    <3>3. After(DateOf(era, y, doy)) = DateOf(era, y, doy + 1)
      <4>1. DayFollows(era, y, doy)
        BY <1>5, <3>2, DayInYear
      <4>2. QED
        BY <4>1 DEF DayFollows
    <3>4. After(CivilFromDays(n)) = CivilFromDays(tomorrow)
      BY <1>7, <2>3, <2>5, <3>1, <3>3
    <3>5. QED
      BY <2>2, <3>4
  <2>6. CASE /\ YearOfEra(next) = y + 1 /\ next = Before(y + 1)
             /\ doe = Before(y) + (IF LongYear(y) THEN 365 ELSE 364)
    <3>1. doy = LastOfYear(y)
      BY <1>5, <1>6, <2>6 DEF LastOfYear
    <3>2. PICK z \in Int : z = y + 1
      OBVIOUS
    <3>3. next - Before(YearOfEra(next)) = 0
      BY <2>6
    <3>4. CivilFromDays(tomorrow) = <<z + era * 400, 3, 1>>
      BY <2>3, <2>6, <3>2, <3>3, FirstOfYear
    <3>5. z + era * 400 = y + era * 400 + 1
      BY <3>2
    <3>6. After(DateOf(era, y, doy)) = <<y + era * 400 + 1, 3, 1>>
      <4>1. YearFollows(era, y)
        BY <1>5, NewYear
      <4>2. QED
        BY <3>1, <4>1 DEF YearFollows
    <3>7. After(CivilFromDays(n)) = CivilFromDays(tomorrow)
      BY <1>7, <3>4, <3>5, <3>6
    <3>8. QED
      BY <2>2, <3>7
  <2>7. QED
    BY <2>4, <2>5, <2>6
<1>9. CASE doe = 146096
  <2>1. y = 399 /\ doy = 365 /\ LongYear(y)
    BY <1>5, <1>6, <1>9, LastOfEra
  <2>2. PICK tomorrow \in Int : tomorrow = n + 1
    OBVIOUS
  <2>3. PICK after \in Nat : after = era + 1
    OBVIOUS
  <2>4. CivilFromDays(tomorrow) = DateOf(after, YearOfEra(0), 0 - Before(YearOfEra(0)))
    <3>1. tomorrow + 719468 = 146097 * after + 0
      BY <1>4, <1>9, <2>2, <2>3
    <3>2. QED
      BY <3>1, CivilIs
  <2>5. CivilFromDays(tomorrow) = <<0 + after * 400, 3, 1>>
    BY <2>4, LastOfEra, FirstOfYear
  <2>6. 0 + after * 400 = y + era * 400 + 1
    BY <2>1, <2>3
  <2>7. After(DateOf(era, y, doy)) = <<y + era * 400 + 1, 3, 1>>
    <3>1. doy = LastOfYear(y)
      BY <2>1 DEF LastOfYear
    <3>2. QED
      <4>1. YearFollows(era, y)
        BY <1>5, NewYear
      <4>2. QED
        BY <3>1, <4>1 DEF YearFollows
  <2>8. After(CivilFromDays(n)) = CivilFromDays(tomorrow)
    BY <1>7, <2>5, <2>6, <2>7
  <2>9. QED
    BY <2>2, <2>8
<1>10. QED
  BY <1>4, <1>8, <1>9

\* It starts right: the epoch is a day whose date it knows.
LEMMA Epoch == CivilFromDays(0) = <<1970, 1, 1>>
BY DEF CivilFromDays, YearOfEra

----------------------------------------------------------------------------
\* The inductive invariant: the date is the one CivilFromDays gives the day number.
CalendarOK == days \in Int /\ days >= -719468 /\ date = CivilFromDays(days)

\* CivilFromDays follows the calendar from any day it starts on: for any range of
\* days, and not only the four centuries of the run (write/wal.rs: segment_key).
THEOREM DatesAreCivil ==
  ASSUME FirstDay \in Int, FirstDay >= -719468, FirstDate = CivilFromDays(FirstDay)
  PROVE  CalendarSpec => []DateIsCivil
<1>1. CalendarInit => CalendarOK
  BY DEF CalendarInit, CalendarOK
<1>2. CalendarOK /\ [NextDay]_calendarVars => CalendarOK'
  <2>1. ASSUME CalendarOK, NextDay PROVE CalendarOK'
    <3>1. days' = days + 1 /\ days' \in Int /\ days' >= -719468
      BY <2>1 DEF CalendarOK, NextDay
    <3>2. date' = After(CivilFromDays(days))
      BY <2>1 DEF CalendarOK, NextDay, After
    <3>3. After(CivilFromDays(days)) = CivilFromDays(days + 1)
      BY <2>1, DayAfterDay DEF CalendarOK
    <3>4. date' = CivilFromDays(days')
      BY <3>1, <3>2, <3>3
    <3>5. QED
      BY <3>1, <3>4 DEF CalendarOK
  <2>2. ASSUME CalendarOK, UNCHANGED calendarVars PROVE CalendarOK'
    BY <2>2 DEF CalendarOK, calendarVars
  <2>3. QED
    BY <2>1, <2>2
<1>3. CalendarOK => DateIsCivil
  BY DEF CalendarOK, DateIsCivil
<1>4. QED
  BY <1>1, <1>2, <1>3, PTL DEF CalendarSpec

\* Counted from the epoch, with nothing assumed of any date: up to whatever day.
THEOREM DatesFromTheEpoch ==
  ASSUME FirstDay = 0, FirstDate = <<1970, 1, 1>>
  PROVE  CalendarSpec => []DateIsCivil
<1>1. FirstDay \in Int /\ FirstDay >= -719468 /\ FirstDate = CivilFromDays(FirstDay)
  BY Epoch
<1>2. QED
  BY <1>1, DatesAreCivil

-------------------------------------------------------------------------------
(* What a snapshot keeps (Snapshot.tla). *)

LogRecords == [doc : Docs, op : {"upsert", "delete"}, at : Nat, body : Nat \X Nat, fits : BOOLEAN]
Segments == [day : Int, name : Names, records : Seq(LogRecords)]

\* The table of materialize_latest_snapshot, one record later.
Tables == [Docs -> LogRecords \cup {NoRecord}]
Kept(table, r) == IF Keeps(table[r.doc], r) THEN table ELSE [table EXCEPT ![r.doc] = r]

LatestBy(records, f) ==
  /\ f[0] = [d \in Docs |-> NoRecord]
  /\ \A i \in 1 .. Len(records) : f[i] = Kept(f[i - 1], records[i])
  /\ Latest(records) = f[Len(records)]

LEMMA RecordIs == \A r \in LogRecords : r.at \in Nat /\ r.doc \in Docs /\ r # NoRecord
<1> SUFFICES ASSUME NEW r \in LogRecords PROVE r.at \in Nat /\ r.doc \in Docs /\ r # NoRecord
  OBVIOUS
<1>1. r.at \in Nat /\ r.doc \in Docs /\ r.op # "none"
  BY DEF LogRecords
<1>2. NoRecord.op = "none"
  BY DEF NoRecord
<1>3. QED
  BY <1>1, <1>2

LEMMA LatestSteps ==
  ASSUME NEW records \in Seq(LogRecords)
  PROVE  \E f \in [0 .. Len(records) -> Tables] : LatestBy(records, f)
<1> DEFINE n == Len(records)
           none == [d \in Docs |-> NoRecord]
           step == [x \in (1 .. n) \X Tables |-> Kept(x[2], records[x[1]])]
           Step(f) == [i \in 0 .. n |->
             IF i = 0 THEN none
             ELSE IF Keeps(f[i - 1][records[i].doc], records[i]) THEN f[i - 1]
             ELSE [f[i - 1] EXCEPT ![records[i].doc] = records[i]]]
           c == CHOOSE f : f = Step(f)
<1>1. n \in Nat /\ \A i \in 1 .. n : records[i] \in LogRecords
  BY LenProperties, ElementOfSeq
<1>2. none \in Tables
  BY DEF Tables
<1>3. step \in [(0 + 1 .. n) \X Tables -> Tables]
  <2>1. \A x \in (1 .. n) \X Tables : Kept(x[2], records[x[1]]) \in Tables
    <3> SUFFICES ASSUME NEW i \in 1 .. n, NEW t \in Tables PROVE Kept(t, records[i]) \in Tables
      OBVIOUS
    <3> DEFINE r == records[i]
    <3>1. r \in LogRecords
      BY <1>1
    <3> HIDE DEF r
    <3>2. [t EXCEPT ![r.doc] = r] \in Tables
      BY <3>1 DEF Tables
    <3>3. QED
      BY <3>2 DEF Kept, r
  <2>2. 0 + 1 = 1
    OBVIOUS
  <2>3. QED
    BY <2>1, <2>2
<1> HIDE DEF step, n, none
<1>4. PICK f \in [0 .. n -> Tables] : Stepped(0, n, none, step, f)
  <2>1. 0 \in Nat /\ 0 <= n
    BY <1>1
  <2>2. QED
    BY <1>1, <1>2, <1>3, <2>1, RecursionExists, Zenon
<1>5. \A i \in 1 .. n : step[<<i, f[i - 1]>>] = Kept(f[i - 1], records[i])
  <2> SUFFICES ASSUME NEW i \in 1 .. n PROVE step[<<i, f[i - 1]>>] = Kept(f[i - 1], records[i])
    OBVIOUS
  <2>1. <<i, f[i - 1]>> \in (1 .. n) \X Tables
    <3>1. i - 1 \in 0 .. n
      BY <1>1
    <3>2. QED
      BY <3>1
  <2>2. QED
    BY <2>1 DEF step
<1>6. f[0] = none /\ \A i \in 1 .. n : f[i] = Kept(f[i - 1], records[i])
  <2>1. \A i \in 0 .. n : f[i] = IF i = 0 THEN none ELSE step[<<i, f[i - 1]>>]
    BY <1>4 DEF Stepped
  <2>2. 0 \in 0 .. n /\ \A i \in 1 .. n : i \in 0 .. n /\ i # 0
    BY <1>1
  <2>3. QED
    BY <1>5, <2>1, <2>2
<1>7. \A i \in 0 .. n : i = 0 \/ i \in 1 .. n
  BY <1>1
<1>8. f = Step(f)
  <2>1. \A i \in 0 .. n : f[i] = Step(f)[i]
    BY <1>6, <1>7 DEF Kept
  <2>2. f = [i \in 0 .. n |-> f[i]]
    OBVIOUS
  <2>3. QED
    BY <2>1, <2>2
<1>9. c = Step(c)
  BY <1>8, Zenon
<1>10. Latest(records) = c[n]
  BY DEF Latest, n, none
<1> HIDE DEF c
<1>11. c = f
  <2> DEFINE Bad == {i \in 0 .. n : c[i] # f[i]}
  <2>1. \A i \in 0 .. n : c[i] = IF i = 0 THEN none ELSE Kept(c[i - 1], records[i])
    BY <1>9 DEF Kept
  <2>2. ASSUME Bad # {} PROVE FALSE
    <3>1. PICK i \in Bad : \A j \in Bad : i <= j
      <4>1. Bad \in SUBSET Nat
        OBVIOUS
      <4> HIDE DEF Bad
      <4>2. QED
        BY <2>2, <4>1, LeastNatural
    <3>2. i \in 0 .. n /\ c[i] # f[i]
      OBVIOUS
    <3>3. i # 0
      BY <1>6, <2>1, <3>2
    <3>4. i - 1 \in 0 .. n /\ i \in 1 .. n /\ ~(i <= i - 1)
      BY <1>1, <3>2, <3>3
    <3>5. c[i - 1] = f[i - 1]
      BY <3>1, <3>4
    <3>6. QED
      BY <1>6, <2>1, <3>2, <3>3, <3>4, <3>5
  <2>3. \A i \in 0 .. n : c[i] = f[i]
    BY <2>2
  <2>4. c = [i \in 0 .. n |-> c[i]] /\ f = [i \in 0 .. n |-> f[i]]
    BY <1>9
  <2>5. QED
    BY <2>3, <2>4
<1>12. LatestBy(records, f)
  BY <1>6, <1>10, <1>11 DEF LatestBy, n, none
<1>13. QED
  BY <1>12 DEF n

\* r is the newest of the first i records of d, and of equal times the last.
NewestAt(records, i, d, j) ==
  /\ records[j].doc = d
  /\ \A k \in 1 .. i : records[k].doc = d =>
       records[k].at < records[j].at \/ (records[k].at = records[j].at /\ k <= j)
Newest(records, i, d, r) ==
  \/ r = NoRecord /\ \A k \in 1 .. i : records[k].doc # d
  \/ \E j \in 1 .. i : r = records[j] /\ NewestAt(records, i, d, j)

\* One record more.
LEMMA NewestStep ==
  ASSUME NEW records \in Seq(LogRecords), NEW i \in 1 .. Len(records), NEW d \in Docs,
         NEW t \in Tables, Newest(records, i - 1, d, t[d])
  PROVE  Newest(records, i, d, Kept(t, records[i])[d])
<1> DEFINE r == records[i]
           u == Kept(t, r)
<1>1. i \in Nat /\ i - 1 \in Nat /\ \A k \in 1 .. i : records[k] \in LogRecords
  BY LenProperties, ElementOfSeq
<1>2. r \in LogRecords /\ r.doc \in Docs /\ r.at \in Nat
  BY <1>1 DEF LogRecords
<1>3. \A k \in 1 .. i : records[k].at \in Nat /\ records[k] # NoRecord
  BY <1>1, RecordIs
<1>4. t[d] # NoRecord => t[d].at \in Nat
  BY DEF Tables, LogRecords
<1>5. \A k \in 1 .. i : k = i \/ k \in 1 .. i - 1
  BY <1>1
<1>6. \A k \in 1 .. i - 1 : k \in 1 .. i /\ k <= i
  BY <1>1
<1>7. i \in 1 .. i
  BY <1>1
<1>8. CASE r.doc # d
  <2>1. u[d] = t[d]
    BY <1>2, <1>8 DEF Kept, Tables
  <2>2. CASE t[d] = NoRecord
    <3>1. \A k \in 1 .. i - 1 : records[k].doc # d
      BY <1>3, <1>6, <2>2 DEF Newest
    <3>2. QED
      BY <1>5, <1>8, <2>1, <2>2, <3>1 DEF Newest
  <2>3. CASE t[d] # NoRecord
    <3>1. PICK j \in 1 .. i - 1 : t[d] = records[j] /\ NewestAt(records, i - 1, d, j)
      BY <2>3 DEF Newest
    <3>2. NewestAt(records, i, d, j)
      BY <1>5, <1>8, <3>1 DEF NewestAt
    <3>3. j \in 1 .. i
      BY <1>6
    <3>4. QED
      BY <2>1, <3>1, <3>2, <3>3 DEF Newest
  <2>4. QED
    BY <2>2, <2>3
<1>9. CASE r.doc = d
  <2>1. CASE Keeps(t[d], r)
    <3>1. u[d] = t[d] /\ t[d] # NoRecord /\ t[d].at > r.at
      BY <1>9, <2>1 DEF Kept, Keeps
    <3>2. PICK j \in 1 .. i - 1 : t[d] = records[j] /\ NewestAt(records, i - 1, d, j)
      BY <3>1 DEF Newest
    <3>3. r.at < records[j].at
      BY <1>2, <1>4, <3>1, <3>2
    <3>4. NewestAt(records, i, d, j)
      BY <1>5, <3>2, <3>3 DEF NewestAt
    <3>5. j \in 1 .. i
      BY <1>6
    <3>6. QED
      BY <3>1, <3>2, <3>4, <3>5 DEF Newest
  <2>2. CASE ~Keeps(t[d], r)
    <3>1. u[d] = r
      BY <1>9, <2>2 DEF Kept, Tables
    <3>2. t[d] = NoRecord \/ t[d].at <= r.at
      BY <1>2, <1>4, <2>2 DEF Keeps
    <3>3. ASSUME NEW k \in 1 .. i - 1, records[k].doc = d
          PROVE  records[k].at <= r.at
      <4>1. PICK j \in 1 .. i - 1 : t[d] = records[j] /\ NewestAt(records, i - 1, d, j)
        BY <3>3 DEF Newest
      <4>2. records[j].at \in Nat /\ records[k].at \in Nat /\ t[d] # NoRecord
        BY <1>3, <1>6, <4>1
      <4>3. records[k].at <= records[j].at
        BY <3>3, <4>1, <4>2 DEF NewestAt
      <4>4. QED
        BY <1>2, <3>2, <4>1, <4>2, <4>3
    <3>4. ASSUME NEW k \in 1 .. i, records[k].doc = d
          PROVE  records[k].at < r.at \/ (records[k].at = r.at /\ k <= i)
      <4>1. records[k].at \in Nat /\ k <= i /\ (k = i \/ k \in 1 .. i - 1)
        BY <1>1, <1>3, <1>5
      <4>2. QED
        BY <1>2, <3>3, <3>4, <4>1
    <3>5. NewestAt(records, i, d, i)
      BY <1>9, <3>4 DEF NewestAt
    <3>6. QED
      BY <1>7, <3>1, <3>5 DEF Newest
  <2>3. QED
    BY <2>1, <2>2
<1>10. QED
  BY <1>8, <1>9

LEMMA LatestIsNewest ==
  ASSUME NEW records \in Seq(LogRecords), NEW d \in Docs
  PROVE  /\ Latest(records) \in Tables
         /\ Newest(records, Len(records), d, Latest(records)[d])
<1> DEFINE n == Len(records)
<1>1. n \in Nat
  BY LenProperties
<1>2. PICK f \in [0 .. n -> Tables] : LatestBy(records, f)
  BY LatestSteps
<1> DEFINE Bad == {i \in 0 .. n : ~Newest(records, i, d, f[i][d])}
<1>3. Bad = {}
  <2> SUFFICES ASSUME Bad # {} PROVE FALSE
    OBVIOUS
  <2>1. PICK i \in Bad : \A j \in Bad : i <= j
    <3>1. Bad \in SUBSET Nat
      OBVIOUS
    <3> HIDE DEF Bad
    <3>2. QED
      BY <3>1, LeastNatural
  <2>2. i \in 0 .. n /\ ~Newest(records, i, d, f[i][d])
    OBVIOUS
  <2>3. i # 0
    <3>1. Newest(records, 0, d, f[0][d])
      BY <1>2 DEF LatestBy, Newest
    <3>2. QED
      BY <2>2, <3>1
  <2>4. i - 1 \in 0 .. n /\ i \in 1 .. n /\ ~(i <= i - 1)
    BY <1>1, <2>2, <2>3
  <2>5. Newest(records, i - 1, d, f[i - 1][d])
    BY <2>1, <2>4
  <2>6. f[i - 1] \in Tables /\ f[i] = Kept(f[i - 1], records[i])
    BY <1>2, <2>4 DEF LatestBy
  <2>7. QED
    BY <2>2, <2>4, <2>5, <2>6, NewestStep
<1>4. n \in 0 .. n
  BY <1>1
<1>5. f[n] \in Tables /\ Newest(records, n, d, f[n][d])
  BY <1>3, <1>4
<1>6. QED
  BY <1>2, <1>5 DEF LatestBy

\* The writers' side: accepted segments are not empty, of one time each, in the order
\* of the clock, and no two have one name.
TimeOf(i) == log[i].records[1].at
LogInv ==
  /\ clock \in Nat /\ log \in Seq(Segments)
  /\ \A i \in DOMAIN log :
       /\ log[i].records # <<>> /\ TimeOf(i) <= clock
       /\ \A k \in DOMAIN log[i].records : log[i].records[k].at = TimeOf(i)
  /\ \A i, j \in DOMAIN log : i < j => TimeOf(i) <= TimeOf(j) /\ log[i].name # log[j].name

LEMMA LogOf ==
  ASSUME LogInv
  PROVE  /\ Len(log) \in Nat /\ DOMAIN log = 1 .. Len(log)
         /\ \A i \in DOMAIN log :
              /\ log[i] \in Segments /\ log[i].records \in Seq(LogRecords)
              /\ log[i].day \in Int /\ log[i].name \in Nat /\ TimeOf(i) \in Nat
<1>1. Len(log) \in Nat /\ DOMAIN log = 1 .. Len(log) /\ \A i \in DOMAIN log : log[i] \in Segments
  BY LenProperties, ElementOfSeq DEF LogInv
<1>2. ASSUME NEW i \in DOMAIN log
      PROVE  /\ log[i].records \in Seq(LogRecords) /\ log[i].day \in Int
             /\ log[i].name \in Nat /\ TimeOf(i) \in Nat
  <2>1. log[i].records \in Seq(LogRecords) /\ log[i].day \in Int /\ log[i].name \in Nat
    BY <1>1, SnapshotConstants DEF Segments
  <2>2. log[i].records # <<>>
    BY DEF LogInv
  <2>3. 1 \in 1 .. Len(log[i].records)
    BY <2>1, <2>2, EmptySeq
  <2>4. log[i].records[1] \in LogRecords
    BY <2>1, <2>3, ElementOfSeq
  <2>5. QED
    BY <2>1, <2>4, RecordIs DEF TimeOf
<1>3. QED
  BY <1>1, <1>2

\* snapshot_wal_keys lists every accepted segment, each once.
IsListing(segs, n) ==
  /\ n \in Nat \ {0} /\ segs \in [1 .. n -> Listed]
  /\ \A p, q \in 1 .. n : segs[p] = segs[q] => p = q
  /\ \A s \in Listed : \E p \in 1 .. n : segs[p] = s

LEMMA SegmentsListed ==
  ASSUME LogInv, NEW own \in Listed
  PROVE  IsListing(SnapshotSegments(Listed, own), Cardinality(Listed))
<1> DEFINE S == Listed
           Earlier(s) == {t \in S : KeyLess(t, s)}
           before == [s \in S |-> Earlier(s)]
           n == Cardinality(S)
           segs == SnapshotSegments(Listed, own)
<1>1. \A s \in S : \E i \in DOMAIN log : s = log[i]
  BY DEF Listed, ToSet
<1>2. \A s \in S : s.day \in Int /\ s.name \in Nat
  BY <1>1, LogOf
<1>3. \A s, t \in S : s # t => s.name # t.name
  <2> SUFFICES ASSUME NEW s \in S, NEW t \in S, s # t PROVE s.name # t.name
    OBVIOUS
  <2>1. PICK i \in DOMAIN log : s = log[i]
    BY <1>1
  <2>2. PICK j \in DOMAIN log : t = log[j]
    BY <1>1
  <2>3. i < j \/ j < i
    BY <2>1, <2>2, LogOf
  <2>4. QED
    BY <2>1, <2>2, <2>3 DEF LogInv
<1>4. IsFiniteSet(S)
  <2>1. log \in Surjection(1 .. Len(log), S)
    <3>1. S = {log[i] : i \in 1 .. Len(log)}
      BY LogOf DEF Listed, ToSet
    <3>2. log \in [1 .. Len(log) -> S]
      <4>1. log \in [1 .. Len(log) -> Segments]
        BY LenProperties DEF LogInv
      <4>2. \A i \in 1 .. Len(log) : log[i] \in S
        BY <3>1
      <4> HIDE DEF S
      <4>3. QED
        BY <4>1, <4>2
    <3>3. \A s \in S : \E i \in 1 .. Len(log) : log[i] = s
      BY <3>1
    <3> HIDE DEF S
    <3>4. QED
      BY <3>2, <3>3 DEF Surjection
  <2>2. IsFiniteSet(1 .. Len(log))
    BY LogOf, FS_Interval
  <2>3. QED
    BY <2>1, <2>2, FS_Surjection
<1>5. IsOrder(S, before)
  <2>1. before \in [S -> SUBSET S]
    OBVIOUS
  <2>2. \A s \in S : ~KeyLess(s, s)
    BY <1>2 DEF KeyLess
  <2>3. \A s, t, u \in S : KeyLess(u, s) /\ KeyLess(s, t) => KeyLess(u, t)
    BY <1>2 DEF KeyLess
  <2>4. \A s, t \in S : s # t => KeyLess(s, t) \/ KeyLess(t, s)
    BY <1>2, <1>3 DEF KeyLess
  <2>5. \A s, t \in S : s \in before[t] <=> KeyLess(s, t)
    OBVIOUS
  <2> HIDE DEF before, S
  <2>6. \A s, t \in S : s \in before[t] => before[s] \subseteq before[t]
    BY <2>1, <2>3, <2>5
  <2>7. QED
    BY <2>1, <2>2, <2>4, <2>5, <2>6 DEF IsOrder
<1>6. segs = Sorted(S, before)
  <2>1. Listed \cup {own} = S
    OBVIOUS
  <2>2. SortedBy(S, KeyLess) = Sorted(S, before)
    BY DEF SortedBy
  <2>3. segs = SortedBy(Listed \cup {own}, KeyLess)
    BY DEF SnapshotSegments
  <2> HIDE DEF segs, S, before
  <2>4. QED
    BY <2>1, <2>2, <2>3
<1>7. n \in Nat \ {0}
  <2>1. S # {} /\ n \in Nat
    BY <1>4, FS_CardinalityType
  <2>2. QED
    BY <1>4, <2>1, FS_EmptySet
<1> HIDE DEF S, Earlier, before, n, segs
<1>8. Sorts(segs, S, before)
  BY <1>4, <1>5, <1>6, SortedSorts
<1>9. /\ segs \in [1 .. n -> S]
      /\ \A p \in 1 .. n : Cardinality(before[segs[p]]) = p - 1
      /\ \A s \in S : \E p \in 1 .. n : segs[p] = s
  BY <1>8 DEF Sorts, n
<1>10. ASSUME NEW p \in 1 .. n, NEW q \in 1 .. n, segs[p] = segs[q] PROVE p = q
  <2>1. p - 1 = q - 1
    BY <1>9, <1>10
  <2>2. QED
    BY <1>7, <2>1
<1>11. QED
  BY <1>7, <1>9, <1>10 DEF IsListing, S, segs, n

\* The last request that wrote d, and its last record for d.
LEMMA LastWriteIs ==
  ASSUME LogInv, NEW d \in Docs, Writes(d) # {}
  PROVE  \E i \in Writes(d) :
            /\ LastWrite(d) = log[i] /\ \A j \in Writes(d) : j <= i
            /\ \E q \in DOMAIN log[i].records :
                 /\ LastRecord(d) = log[i].records[q] /\ log[i].records[q].doc = d
                 /\ \A k \in DOMAIN log[i].records : log[i].records[k].doc = d => k <= q
<1> DEFINE i == CHOOSE i \in Writes(d) : \A j \in Writes(d) : j <= i
<1>1. i \in Writes(d) /\ \A j \in Writes(d) : j <= i
  <2>1. Len(log) \in Nat /\ Writes(d) \in SUBSET (0 .. Len(log))
    BY LogOf DEF Writes
  <2>2. \E g \in Writes(d) : \A j \in Writes(d) : j <= g
    BY <2>1, GreatestNatural
  <2>3. QED
    BY <2>2
<1>2. LastWrite(d) = log[i]
  BY DEF LastWrite
<1> HIDE DEF i
<1> DEFINE rs == log[i].records
           Of == {k \in DOMAIN rs : rs[k].doc = d}
           q == CHOOSE k \in DOMAIN rs : rs[k].doc = d /\ \A j \in DOMAIN rs : rs[j].doc = d => j <= k
<1>3. i \in DOMAIN log /\ Of # {}
  BY <1>1 DEF Writes, Touches
<1>4. rs \in Seq(LogRecords)
  BY <1>3, LogOf
<1>5. Len(rs) \in Nat /\ DOMAIN rs = 1 .. Len(rs)
  BY <1>4, LenProperties
<1>6. \E g \in Of : \A k \in Of : k <= g
  <2>1. Of \in SUBSET (0 .. Len(rs))
    BY <1>5
  <2> HIDE DEF Of
  <2>2. QED
    BY <1>3, <1>5, <2>1, GreatestNatural
<1>7. q \in DOMAIN rs /\ rs[q].doc = d /\ \A k \in DOMAIN rs : rs[k].doc = d => k <= q
  BY <1>6
<1>8. LastRecord(d) = rs[q]
  BY <1>2 DEF LastRecord
<1> HIDE DEF rs, q
<1>9. QED
  BY <1>1, <1>2, <1>7, <1>8 DEF rs

\* Of a document without ties the replay leaves the last record of the last request.
LEMMA LastIsLatest ==
  ASSUME LogInv, NEW own \in Listed, NEW d \in Docs, Untied(d)
  PROVE  LET records == Replay(SnapshotSegments(Listed, own))
         IN  /\ records \in Seq(LogRecords)
             /\ Latest(records)[d] = LastRecord(d)
<1> DEFINE segs == SnapshotSegments(Listed, own)
           n == Cardinality(Listed)
           seqs == [p \in DOMAIN segs |-> segs[p].records]
           records == FlattenSeq(seqs)
<1>1. IsListing(segs, n)
  BY SegmentsListed
<1> HIDE DEF segs, n
<1>2. /\ n \in Nat \ {0} /\ DOMAIN segs = 1 .. n
      /\ \A p \in 1 .. n : segs[p] \in Listed /\ \E i \in DOMAIN log : segs[p] = log[i]
      /\ \A p, q \in 1 .. n : segs[p] = segs[q] => p = q
      /\ \A i \in DOMAIN log : \E p \in 1 .. n : segs[p] = log[i]
  <2>1. /\ n \in Nat \ {0} /\ DOMAIN segs = 1 .. n /\ \A p \in 1 .. n : segs[p] \in Listed
        /\ \A p, q \in 1 .. n : segs[p] = segs[q] => p = q
        /\ \A s \in Listed : \E p \in 1 .. n : segs[p] = s
    BY <1>1 DEF IsListing
  <2>2. \A s : s \in Listed <=> \E i \in DOMAIN log : s = log[i]
    BY DEF Listed, ToSet
  <2>3. QED
    BY <2>1, <2>2
<1>3. seqs \in [1 .. n -> Seq(LogRecords)] /\ \A p \in 1 .. n : seqs[p] = segs[p].records
  <2>1. \A p \in 1 .. n : segs[p].records \in Seq(LogRecords)
    BY <1>2, LogOf
  <2>2. QED
    BY <1>2, <2>1
<1>4. Replay(segs) = records
  BY DEF Replay
<1> HIDE DEF seqs
<1>5. records \in Seq(LogRecords) /\ \E b \in [1 .. n -> Nat] : Concatenated(seqs, n, records, b)
  BY <1>2, <1>3, Concatenation
<1>6. PICK begins \in [1 .. n -> Nat] : Concatenated(seqs, n, records, begins)
  BY <1>5
<1> HIDE DEF records
<1>7. PICK i \in Writes(d) :
            /\ LastWrite(d) = log[i] /\ \A j \in Writes(d) : j <= i
            /\ \E q \in DOMAIN log[i].records :
                 /\ LastRecord(d) = log[i].records[q] /\ log[i].records[q].doc = d
                 /\ \A k \in DOMAIN log[i].records : log[i].records[k].doc = d => k <= q
  BY LastWriteIs DEF Untied
<1>8. PICK last \in DOMAIN log[i].records :
                 /\ LastRecord(d) = log[i].records[last] /\ log[i].records[last].doc = d
                 /\ \A k \in DOMAIN log[i].records : log[i].records[k].doc = d => k <= last
  BY <1>7
<1>9. i \in DOMAIN log /\ log[i].records \in Seq(LogRecords) /\ TimeOf(i) \in Nat
  BY LogOf DEF Writes
<1>10. /\ DOMAIN log[i].records = 1 .. Len(log[i].records) /\ Len(log[i].records) \in Nat
       /\ last \in 1 .. Len(log[i].records) /\ last \in Nat
       /\ log[i].records[last].at = TimeOf(i)
  BY <1>9, LenProperties DEF LogInv
\* Every other segment that writes d is older.
<1>11. ASSUME NEW p \in 1 .. n, NEW q \in DOMAIN segs[p].records, segs[p].records[q].doc = d
       PROVE  /\ segs[p].records[q].at <= TimeOf(i)
              /\ segs[p].records[q].at = TimeOf(i) => segs[p] = log[i]
  <2>1. PICK j \in DOMAIN log : segs[p] = log[j]
    BY <1>2
  <2>2. j \in Writes(d)
    BY <1>11, <2>1 DEF Writes, Touches
  <2>3. j <= i /\ segs[p].records[q].at = TimeOf(j) /\ TimeOf(j) \in Nat
    BY <1>7, <2>1, <2>2, LogOf DEF LogInv
  <2>4. j \in Nat /\ i \in Nat
    BY <1>9, LogOf
  <2>5. TimeOf(j) <= TimeOf(i)
    <3>1. CASE j = i
      BY <1>9, <3>1
    <3>2. CASE j < i
      BY <1>9, <3>2 DEF LogInv
    <3>3. QED
      BY <2>3, <2>4, <3>1, <3>2
  <2>6. TimeOf(j) = TimeOf(i) => log[j] = log[i]
    BY <1>7, <2>2 DEF Untied, TimeOf
  <2>7. QED
    BY <2>1, <2>3, <2>5, <2>6
<1>12. PICK home \in 1 .. n : segs[home] = log[i]
  BY <1>2, <1>9
<1> DEFINE there == begins[home] + last
<1>13. there \in 1 .. Len(records) /\ records[there] = log[i].records[last]
  BY <1>3, <1>6, <1>10, <1>12 DEF Concatenated
<1> HIDE DEF there
<1>14. Newest(records, Len(records), d, Latest(records)[d])
  BY <1>5, LatestIsNewest
<1>15. records[there].doc = d /\ records[there].at = TimeOf(i)
  BY <1>8, <1>10, <1>13
<1>16. PICK j \in 1 .. Len(records) : Latest(records)[d] = records[j] /\ NewestAt(records, Len(records), d, j)
  BY <1>13, <1>14, <1>15 DEF Newest
<1>17. PICK p \in 1 .. n : \E q \in 1 .. Len(seqs[p]) : j = begins[p] + q
  BY <1>6 DEF Concatenated
<1>18. PICK q \in 1 .. Len(seqs[p]) : j = begins[p] + q
  BY <1>17
<1>19. seqs[p] \in Seq(LogRecords) /\ seqs[p] = segs[p].records
  BY <1>3
<1>20. /\ q \in Nat /\ q \in DOMAIN segs[p].records
       /\ records[j] = segs[p].records[q]
  <2>1. Len(seqs[p]) \in Nat /\ DOMAIN seqs[p] = 1 .. Len(seqs[p])
    BY <1>19, LenProperties
  <2>2. q \in Nat
    BY <1>18, <2>1
  <2>3. QED
    BY <1>6, <1>18, <1>19, <2>1, <2>2 DEF Concatenated
<1>21. records[j].doc = d /\ records[j] \in LogRecords /\ records[j].at \in Nat
  <2>1. records[j] \in LogRecords
    BY <1>5, <1>16, ElementOfSeq
  <2>2. QED
    BY <1>16, <2>1, RecordIs DEF NewestAt
<1>22. TimeOf(i) < records[j].at \/ (TimeOf(i) = records[j].at /\ there <= j)
  BY <1>13, <1>15, <1>16 DEF NewestAt
<1>23. records[j].at <= TimeOf(i) /\ (records[j].at = TimeOf(i) => segs[p] = log[i])
  BY <1>11, <1>20, <1>21
<1>24. segs[p] = log[i] /\ there <= j
  BY <1>9, <1>21, <1>22, <1>23
<1>25. p = home
  BY <1>2, <1>12, <1>24
<1>26. q <= last
  BY <1>8, <1>20, <1>21, <1>24
<1>27. q = last
  <2>1. begins[home] + last <= begins[home] + q /\ begins[home] \in Nat
    BY <1>18, <1>24, <1>25 DEF there
  <2>2. QED
    BY <1>10, <1>20, <1>26, <2>1
<1>28. Latest(records)[d] = LastRecord(d)
  BY <1>8, <1>16, <1>20, <1>24, <1>27
<1>29. QED
  BY <1>4, <1>5, <1>28 DEF segs

\* Whatever the listing shows, the segment that triggered the build is replayed.
LEMMA ListedOrNot ==
  ASSUME NEW segments \in Replayed
  PROVE  \E s \in Listed : segments = SnapshotSegments(Listed, s)
<1>1. PICK s \in Listed : segments \in {SnapshotSegments(Listed, s), SnapshotSegments(Listed \ {s}, s)}
  BY DEF Replayed
<1>2. (Listed \ {s}) \cup {s} = Listed \cup {s}
  OBVIOUS
<1>3. SortedBy((Listed \ {s}) \cup {s}, KeyLess) = SortedBy(Listed \cup {s}, KeyLess)
  BY <1>2, Zenon
<1>4. QED
  BY <1>1, <1>3 DEF SnapshotSegments

\* A replay is of accepted records only: each document in it was written.
LEMMA ReplayIsWritten ==
  ASSUME LogInv, NEW own \in Listed
  PROVE  LET records == Replay(SnapshotSegments(Listed, own))
         IN  /\ records \in Seq(LogRecords)
             /\ \A j \in 1 .. Len(records) : Writes(records[j].doc) # {}
<1> DEFINE segs == SnapshotSegments(Listed, own)
           n == Cardinality(Listed)
           seqs == [p \in DOMAIN segs |-> segs[p].records]
           records == FlattenSeq(seqs)
<1>1. IsListing(segs, n)
  BY SegmentsListed
<1> HIDE DEF segs, n
<1>2. /\ n \in Nat \ {0} /\ DOMAIN segs = 1 .. n
      /\ \A p \in 1 .. n : \E i \in DOMAIN log : segs[p] = log[i]
  <2>1. n \in Nat \ {0} /\ DOMAIN segs = 1 .. n /\ \A p \in 1 .. n : segs[p] \in Listed
    BY <1>1 DEF IsListing
  <2>2. \A s : s \in Listed <=> \E i \in DOMAIN log : s = log[i]
    BY DEF Listed, ToSet
  <2>3. QED
    BY <2>1, <2>2
<1>3. seqs \in [1 .. n -> Seq(LogRecords)] /\ \A p \in 1 .. n : seqs[p] = segs[p].records
  <2>1. \A p \in 1 .. n : segs[p].records \in Seq(LogRecords)
    BY <1>2, LogOf
  <2>2. QED
    BY <1>2, <2>1
<1>4. Replay(segs) = records
  BY DEF Replay
<1> HIDE DEF seqs
<1>5. records \in Seq(LogRecords) /\ \E b \in [1 .. n -> Nat] : Concatenated(seqs, n, records, b)
  BY <1>2, <1>3, Concatenation
<1>6. PICK begins \in [1 .. n -> Nat] : Concatenated(seqs, n, records, begins)
  BY <1>5
<1> HIDE DEF records
<1>7. ASSUME NEW j \in 1 .. Len(records) PROVE Writes(records[j].doc) # {}
  <2>1. PICK p \in 1 .. n : \E q \in 1 .. Len(seqs[p]) : j = begins[p] + q
    BY <1>6 DEF Concatenated
  <2>2. PICK q \in 1 .. Len(seqs[p]) : j = begins[p] + q
    BY <2>1
  <2>3. PICK i \in DOMAIN log : segs[p] = log[i]
    BY <1>2
  <2>4. Len(seqs[p]) \in Nat /\ DOMAIN seqs[p] = 1 .. Len(seqs[p]) /\ seqs[p] = log[i].records
    BY <1>3, <2>3, LenProperties
  <2>5. records[j] = log[i].records[q] /\ q \in DOMAIN log[i].records
    BY <1>6, <2>2, <2>4 DEF Concatenated
  <2>6. i \in Writes(records[j].doc)
    BY <2>3, <2>5 DEF Writes, Touches
  <2>7. QED
    BY <2>6
<1>8. QED
  BY <1>4, <1>5, <1>7 DEF segs

\* The snapshot is the table of the replay: below each document its own record.
LEMMA SnapshotIs ==
  ASSUME NEW records \in Seq(LogRecords)
  PROVE  /\ Materialize(records) = {r \in {Latest(records)[x] : x \in Docs} : r.op = "upsert"}
         /\ \A x \in Docs :
              Latest(records)[x].op = "upsert" =>
                /\ Latest(records)[x].doc = x
                /\ \E j \in 1 .. Len(records) : Latest(records)[x] = records[j]
<1>1. ASSUME NEW x \in Docs, Latest(records)[x].op = "upsert"
      PROVE  /\ Latest(records)[x].doc = x
             /\ \E j \in 1 .. Len(records) : Latest(records)[x] = records[j]
  <2>1. Newest(records, Len(records), x, Latest(records)[x])
    BY LatestIsNewest
  <2>2. QED
    BY <1>1, <2>1 DEF Newest, NewestAt, NoRecord
<1>2. QED
  BY <1>1 DEF Materialize

LEMMA InvLastWriteWins == LogInv => LastWriteWins
<1> SUFFICES ASSUME LogInv, NEW segments \in Replayed
             PROVE  LET shown == Materialize(Replay(segments))
                    IN  ShowsLast(shown) /\ RefusedWhileLast(shown)
  BY DEF LastWriteWins
<1>1. PICK s \in Listed : segments = SnapshotSegments(Listed, s)
  BY ListedOrNot
<1> DEFINE records == Replay(SnapshotSegments(Listed, s))
           latest == Latest(records)
           shown == Materialize(records)
<1>2. /\ records \in Seq(LogRecords)
      /\ \A j \in 1 .. Len(records) : Writes(records[j].doc) # {}
  BY ReplayIsWritten
<1>3. ASSUME NEW d \in Docs, Untied(d) PROVE latest[d] = LastRecord(d)
  BY <1>3, LastIsLatest
<1>4. Materialize(Replay(segments)) = shown
  BY <1>1
<1> HIDE DEF records
<1>5. /\ shown = {r \in {latest[x] : x \in Docs} : r.op = "upsert"}
      /\ \A x \in Docs :
           latest[x].op = "upsert" =>
             latest[x].doc = x /\ \E j \in 1 .. Len(records) : latest[x] = records[j]
  BY <1>2, SnapshotIs
<1> HIDE DEF latest, shown
<1>6. ShowsLast(shown)
  <2> SUFFICES ASSUME NEW d \in Docs, Untied(d)
               PROVE  {r \in shown : r.doc = d} = {r \in {LastRecord(d)} : r.op = "upsert"}
    BY DEF ShowsLast
  <2>1. latest[d] = LastRecord(d)
    BY <1>3
  <2>2. ASSUME NEW r PROVE (r \in shown /\ r.doc = d) <=> (r = latest[d] /\ r.op = "upsert")
    BY <1>5
  <2>3. QED
    BY <2>1, <2>2
<1>7. RefusedWhileLast(shown)
  <2> SUFFICES ASSUME \A d \in Docs : Writes(d) # {} => Untied(d)
               PROVE  BuildAccepts(shown) <=>
                        \A d \in Docs : Writes(d) # {} /\ LastRecord(d).op = "upsert" => LastRecord(d).fits
    BY DEF RefusedWhileLast
  <2>1. ASSUME NEW d \in Docs, Writes(d) # {} PROVE latest[d] = LastRecord(d)
    BY <1>3, <2>1
  <2>2. ASSUME NEW d \in Docs, latest[d].op = "upsert" PROVE Writes(d) # {}
    BY <1>2, <1>5, <2>2
  <2>3. BuildAccepts(shown) <=> \A d \in Docs : latest[d].op = "upsert" => latest[d].fits
    BY <1>5 DEF BuildAccepts
  <2>4. QED
    BY <2>1, <2>2, <2>3
<1>8. QED
  BY <1>4, <1>6, <1>7

\* A request appends one segment, of the clock's time and a name of its own.
LEMMA AcceptKeeps ==
  ASSUME LogInv, NEW op \in {"upsert", "delete"}, NEW name \in Names,
         NEW docs \in Requests([doc : Docs, fits : BOOLEAN]), Accept(op, docs, name)
  PROVE  LogInv'
<1> DEFINE new == [day |-> clock \div DayLength, name |-> name, records |-> RecordsOf(op, docs)]
           n == Len(log)
<1>1. PICK m \in 1 .. MaxBatch : docs \in [1 .. m -> [doc : Docs, fits : BOOLEAN]]
  BY DEF Requests
<1>2. m \in Nat \ {0} /\ DOMAIN docs = 1 .. m
  BY <1>1, SnapshotConstants
<1>3. n \in Nat /\ log \in Seq(Segments) /\ DOMAIN log = 1 .. n /\ clock \in Nat
  BY LogOf DEF LogInv
<1>4. /\ RecordsOf(op, docs) \in Seq(LogRecords) /\ RecordsOf(op, docs) # <<>>
      /\ DOMAIN RecordsOf(op, docs) = 1 .. m
      /\ \A k \in 1 .. m : RecordsOf(op, docs)[k].at = clock
  <2> DEFINE e(k) == [doc |-> docs[k].doc, op |-> op, at |-> clock,
                      body |-> <<Len(log) + 1, k>>, fits |-> docs[k].fits]
  <2>1. \A k \in 1 .. m : e(k) \in LogRecords
    <3> SUFFICES ASSUME NEW k \in 1 .. m PROVE e(k) \in LogRecords
      OBVIOUS
    <3>1. docs[k].doc \in Docs /\ docs[k].fits \in BOOLEAN /\ <<Len(log) + 1, k>> \in Nat \X Nat
      BY <1>1, <1>3
    <3>2. QED
      BY <1>3, <3>1 DEF LogRecords
  <2>2. \A k \in 1 .. m : e(k).at = clock
    OBVIOUS
  <2>3. RecordsOf(op, docs) = [k \in 1 .. m |-> e(k)]
    BY <1>2 DEF RecordsOf
  <2> HIDE DEF e
  <2>4. [k \in 1 .. m |-> e(k)] \in [1 .. m -> LogRecords]
    BY <2>1
  <2>5. [k \in 1 .. m |-> e(k)] \in Seq(LogRecords) /\ Len([k \in 1 .. m |-> e(k)]) = m
    BY <1>2, <2>4
  <2>6. QED
    BY <1>2, <2>2, <2>3, <2>5, EmptySeq
<1>5. new \in Segments
  <2>1. clock \div DayLength \in Int
    BY <1>3, SnapshotConstants
  <2>2. QED
    BY <1>4, <2>1 DEF Segments
<1>6. log' = Append(log, new) /\ clock' = clock /\ \A i \in DOMAIN log : log[i].name # name
  BY DEF Accept
<1>7. new.name = name /\ new.records = RecordsOf(op, docs)
  OBVIOUS
<1> HIDE DEF new, n
<1>8. /\ log' \in Seq(Segments) /\ DOMAIN log' = 1 .. n + 1
      /\ \A i \in 1 .. n : log'[i] = log[i]
      /\ log'[n + 1] = new
  BY <1>3, <1>5, <1>6 DEF n
<1>9. \A i \in 1 .. n + 1 : i \in 1 .. n \/ i = n + 1
  BY <1>3
<1>10. new.records[1].at = clock
  <2>1. 1 \in 1 .. m
    BY <1>2
  <2>2. QED
    BY <1>4, <1>7, <2>1
<1>11. ASSUME NEW i \in 1 .. n
       PROVE  /\ TimeOf(i) <= clock /\ log[i].records # <<>> /\ TimeOf(i) \in Nat
              /\ \A k \in DOMAIN log[i].records : log[i].records[k].at = TimeOf(i)
  BY <1>3, LogOf DEF LogInv
<1>12. ASSUME NEW i \in 1 .. n + 1
       PROVE  /\ log'[i].records # <<>> /\ log'[i].records[1].at <= clock
              /\ \A k \in DOMAIN log'[i].records : log'[i].records[k].at = log'[i].records[1].at
  <2>1. CASE i \in 1 .. n
    BY <1>8, <1>11, <2>1 DEF TimeOf
  <2>2. CASE i = n + 1
    BY <1>3, <1>4, <1>7, <1>8, <1>10, <2>2
  <2>3. QED
    BY <1>9, <2>1, <2>2
<1>13. ASSUME NEW i \in 1 .. n + 1, NEW j \in 1 .. n + 1, i < j
       PROVE  /\ log'[i].records[1].at <= log'[j].records[1].at
              /\ log'[i].name # log'[j].name
  <2>1. i \in 1 .. n
    BY <1>3, <1>13
  <2>2. CASE j \in 1 .. n
    BY <1>3, <1>8, <1>13, <2>1, <2>2 DEF LogInv, TimeOf
  <2>3. CASE j = n + 1
    BY <1>3, <1>6, <1>7, <1>8, <1>10, <1>11, <2>1, <2>3 DEF TimeOf
  <2>4. QED
    BY <1>9, <2>2, <2>3
<1>14. QED
  BY <1>3, <1>6, <1>8, <1>12, <1>13 DEF LogInv, TimeOf

LEMMA LogInvNext == LogInv /\ [Next]_vars => LogInv'
<1> SUFFICES ASSUME LogInv, [Next]_vars PROVE LogInv'
  OBVIOUS
<1>1. CASE Tick
  <2>1. clock \in Nat /\ clock' = clock + 1 /\ log' = log
    BY <1>1 DEF Tick, LogInv
  <2>2. \A i \in DOMAIN log : TimeOf(i) \in Nat /\ TimeOf(i) <= clock
    BY LogOf DEF LogInv
  <2>3. \A i \in DOMAIN log : TimeOf(i) <= clock + 1
    BY <2>1, <2>2
  <2>4. QED
    BY <2>1, <2>3 DEF LogInv, TimeOf
<1>2. ASSUME NEW name \in Names, Ingest(name) PROVE LogInv'
  <2>1. PICK docs \in Requests([doc : Docs, fits : BOOLEAN]) : Accept("upsert", docs, name)
    BY <1>2 DEF Ingest
  <2>2. QED
    BY <2>1, AcceptKeeps
<1>3. ASSUME NEW name \in Names, Delete(name) PROVE LogInv'
  <2>1. PICK docs \in Requests([doc : Docs, fits : {TRUE}]) : Accept("delete", docs, name)
    BY <1>3 DEF Delete
  <2>2. docs \in Requests([doc : Docs, fits : BOOLEAN])
    <3>1. PICK m \in 1 .. MaxBatch : docs \in [1 .. m -> [doc : Docs, fits : {TRUE}]]
      BY DEF Requests
    <3>2. [doc : Docs, fits : {TRUE}] \subseteq [doc : Docs, fits : BOOLEAN]
      OBVIOUS
    <3>3. docs \in [1 .. m -> [doc : Docs, fits : BOOLEAN]]
      BY <3>1, <3>2
    <3>4. QED
      BY <3>3 DEF Requests
  <2>3. QED
    BY <2>1, <2>2, AcceptKeeps
<1>4. CASE UNCHANGED vars
  BY <1>4 DEF vars, LogInv, TimeOf
<1>5. QED
  BY <1>1, <1>2, <1>3, <1>4 DEF Next

\* build_worker.rs:91-95, builder.rs: in whatever order the random names put the
\* segments of a day, a document shows the last accepted write, for any requests,
\* documents and lengths of a day.
THEOREM LastWriteAlwaysWins == Spec => []LastWriteWins
<1>1. Init => LogInv
  BY DEF Init, LogInv
<1>2. QED
  BY <1>1, LogInvNext, InvLastWriteWins, PTL DEF Spec

-------------------------------------------------------------------------------
(* The token budget (ContextBudget.tla). *)

\* estimate_tokens of two texts together is at most the sum of both estimates.
LEMMA EstimateSubadditive ==
    ASSUME NEW a \in Nat \X Nat, NEW b \in Nat \X Nat
    PROVE  /\ EstimateTokens(a) \in Nat
           /\ EstimateTokens(<<a[1] + b[1], a[2] + b[2]>>) <= EstimateTokens(a) + EstimateTokens(b)
<1>1. a[1] \in Nat /\ a[2] \in Nat /\ b[1] \in Nat /\ b[2] \in Nat
  OBVIOUS
<1>2. \A m, n \in Nat : (m + n + 3) \div 4 <= (m + 3) \div 4 + (n + 3) \div 4
  BY SMT
<1>3. QED
  BY <1>1, <1>2 DEF EstimateTokens

\* The text of a block, between two prefixes of its group.
LEMMA BlockCost ==
    ASSUME NEW group, NEW count \in Nat, AddsUp(group, count), NEW i \in 1 .. count
    PROVE  /\ group.cost[i - 1] <= group.cost[i]
           /\ EstimateTokens(group.text[i - 1]) <= group.cost[i - 1]
                => EstimateTokens(group.text[i]) <= group.cost[i]
<1> DEFINE before == group.text[i - 1]
           block == <<group.text[i][1] - before[1], group.text[i][2] - before[2]>>
<1>1. /\ before \in Nat \X Nat /\ group.text[i] \in Nat \X Nat
      /\ group.cost[i - 1] \in Nat /\ group.cost[i] \in Nat
  <2>1. i \in 0 .. count /\ i - 1 \in 0 .. count
    OBVIOUS
  <2>2. group.text \in [0 .. count -> Nat \X Nat] /\ group.cost \in [0 .. count -> Nat]
    BY DEF AddsUp, Group
  <2> QED BY <2>1, <2>2
<1>2. block \in Nat \X Nat /\ group.cost[i] = group.cost[i - 1] + EstimateTokens(block)
  BY DEF AddsUp
<1>3. group.text[i] = <<before[1] + block[1], before[2] + block[2]>>
  BY <1>1
<1>4. EstimateTokens(block) \in Nat /\ EstimateTokens(before) \in Nat
  BY <1>1, <1>2, EstimateSubadditive
<1>5. EstimateTokens(group.text[i]) <= EstimateTokens(before) + EstimateTokens(block)
  <2> HIDE DEF before, block
  <2> QED BY <1>1, <1>2, <1>3, EstimateSubadditive
<1>6. EstimateTokens(group.text[i]) \in Nat
  BY <1>1, EstimateSubadditive
<1> HIDE DEF block
<1>7. QED
  BY <1>1, <1>2, <1>4, <1>5, <1>6

\* The estimate of a prefix is at most the sum of the estimates of its blocks: the
\* least prefix for which it is not would have a shorter one.
LEMMA CostCovers ==
    ASSUME NEW group, NEW count \in Nat, AddsUp(group, count), NEW n \in 0 .. count
    PROVE  EstimateTokens(group.text[n]) <= group.cost[n]
<1> DEFINE Over == {i \in 0 .. count : ~(EstimateTokens(group.text[i]) <= group.cost[i])}
<1>1. SUFFICES ASSUME n \in Over PROVE FALSE
  OBVIOUS
<1>2. PICK least \in Over : \A k \in Over : least <= k
  <2>1. Over \in SUBSET Nat
    OBVIOUS
  <2> QED BY <1>1, <2>1, LeastNatural
<1>3. least # 0
  BY DEF AddsUp, EstimateTokens
<1>4. least \in 1 .. count /\ least - 1 \in 0 .. count /\ least - 1 \notin Over
  BY <1>2, <1>3
<1>5. EstimateTokens(group.text[least - 1]) <= group.cost[least - 1]
  BY <1>4
<1>6. QED
  BY <1>4, <1>5, <1>2, BlockCost

----------------------------------------------------------------------------
\* The context and the budget are given, the totals those of the chunks that are kept.
Given == context \in Contexts /\ budget \in MaxTokens

BudgetInv == Given /\ BudgetTypeOK /\ TotalsMatch

\* What a context is made of, for the kept chunks of either group.
LEMMA Known ==
    ASSUME Given
    PROVE  /\ budget \in Nat
           /\ context.question \in Nat \X Nat
           /\ context.statics \in Nat /\ context.dynamics \in Nat
           /\ AddsUp(context.static, context.statics)
           /\ AddsUp(context.dynamic, context.dynamics)
  BY ContextsAddUp DEF Given

\* The prefix sums of both groups are numbers and grow with the prefix.
LEMMA CostsGrow ==
    ASSUME Given, BudgetTypeOK, NEW g \in {"static", "dynamic"}, NEW n \in 1 .. kept[g]
    PROVE  /\ CostUpTo(g, n) \in Nat /\ CostUpTo(g, n - 1) \in Nat
           /\ CostUpTo(g, n - 1) <= CostUpTo(g, n)
<1>1. CASE g = "static"
  <2>1. n \in 1 .. context.statics /\ n \in 0 .. context.statics /\ n - 1 \in 0 .. context.statics
    BY <1>1, Known DEF BudgetTypeOK
  <2>2. context.static.cost \in [0 .. context.statics -> Nat]
    BY Known DEF BudgetTypeOK, AddsUp, Group
  <2>3. context.static.cost[n - 1] <= context.static.cost[n]
    BY <2>1, Known, BlockCost DEF BudgetTypeOK
  <2>4. QED
    BY <1>1, <2>1, <2>2, <2>3 DEF CostUpTo
<1>2. CASE g = "dynamic"
  <2>1. n \in 1 .. context.dynamics /\ n \in 0 .. context.dynamics /\ n - 1 \in 0 .. context.dynamics
    BY <1>2, Known DEF BudgetTypeOK
  <2>2. context.dynamic.cost \in [0 .. context.dynamics -> Nat]
    BY Known DEF BudgetTypeOK, AddsUp, Group
  <2>3. context.dynamic.cost[n - 1] <= context.dynamic.cost[n]
    BY <2>1, Known, BlockCost DEF BudgetTypeOK
  <2>4. QED
    BY <1>2, <2>1, <2>2, <2>3 DEF CostUpTo
<1>3. QED
  BY <1>1, <1>2

\* The group that loses a chunk is one that has a chunk.
LEMMA DearerHasOne ==
    ASSUME Given, BudgetTypeOK, TooLong
    PROVE  Dearer \in {"static", "dynamic"} /\ kept[Dearer] > 0
<1>1. kept.static \in Nat /\ kept.dynamic \in Nat
  BY Known DEF BudgetTypeOK
<1>2. QED
  BY <1>1 DEF TooLong, Dearer

LEMMA BudgetInvInit == BudgetInit => BudgetInv
<1> SUFFICES ASSUME BudgetInit PROVE BudgetInv
  OBVIOUS
<1>1. Given
  BY DEF BudgetInit, Given
<1>2. /\ context.static.cost[context.statics] \in Nat
      /\ context.dynamic.cost[context.dynamics] \in Nat
  BY <1>1, Known DEF AddsUp, Group
<1>3. QED
  BY <1>1, <1>2, Known DEF BudgetInit, BudgetInv, BudgetTypeOK, TotalsMatch

LEMMA BudgetInvNext == BudgetInv /\ [BudgetNext]_budgetVars => BudgetInv'
<1> SUFFICES ASSUME BudgetInv, [BudgetNext]_budgetVars PROVE BudgetInv'
  OBVIOUS
<1>1. CASE Drop
  <2> DEFINE g == Dearer
  <2>1. /\ g \in {"static", "dynamic"} /\ kept[g] > 0 /\ kept[g] \in Nat
        /\ kept' = [kept EXCEPT ![g] = kept[g] - 1]
        /\ total' = [total EXCEPT ![g] = total[g] - CostOfLast(g)]
        /\ context' = context /\ budget' = budget
    BY <1>1, DearerHasOne, Known DEF Drop, BudgetInv, BudgetTypeOK
  <2> HIDE DEF g
  <2>2. /\ CostUpTo(g, kept[g]) \in Nat /\ CostUpTo(g, kept[g] - 1) \in Nat
        /\ total[g] = CostUpTo(g, kept[g])
    <3>1. kept[g] \in 1 .. kept[g]
      BY <2>1
    <3>2. total[g] = CostUpTo(g, kept[g])
      BY <2>1 DEF BudgetInv, TotalsMatch, CostUpTo
    <3>3. QED
      BY <2>1, <3>1, <3>2, CostsGrow DEF BudgetInv
  <2>3. total[g] - CostOfLast(g) = CostUpTo(g, kept[g] - 1)
    BY <2>2 DEF CostOfLast
  <2>4. CASE g = "static"
    <3>1. /\ kept'.static = kept.static - 1 /\ kept'.dynamic = kept.dynamic
          /\ total'.static = context.static.cost[kept.static - 1]
          /\ total'.dynamic = total.dynamic
      BY <2>1, <2>3, <2>4 DEF BudgetInv, BudgetTypeOK, CostUpTo
    <3>2. kept'.static \in 0 .. context.statics /\ total'.static \in Nat
      BY <2>1, <2>2, <2>3, <2>4, <3>1, Known DEF BudgetInv, BudgetTypeOK, CostUpTo
    <3>3. QED
      BY <2>1, <3>1, <3>2 DEF BudgetInv, Given, BudgetTypeOK, TotalsMatch
  <2>5. CASE g = "dynamic"
    <3>1. /\ kept'.dynamic = kept.dynamic - 1 /\ kept'.static = kept.static
          /\ total'.dynamic = context.dynamic.cost[kept.dynamic - 1]
          /\ total'.static = total.static
      BY <2>1, <2>3, <2>5 DEF BudgetInv, BudgetTypeOK, CostUpTo
    <3>2. kept'.dynamic \in 0 .. context.dynamics /\ total'.dynamic \in Nat
      BY <2>1, <2>2, <2>3, <2>5, <3>1, Known DEF BudgetInv, BudgetTypeOK, CostUpTo
    <3>3. QED
      BY <2>1, <3>1, <3>2 DEF BudgetInv, Given, BudgetTypeOK, TotalsMatch
  <2>6. QED
    BY <2>1, <2>4, <2>5
<1>2. CASE UNCHANGED budgetVars
  BY <1>2 DEF budgetVars, BudgetInv, Given, BudgetTypeOK, TotalsMatch
<1>3. QED
  BY <1>1, <1>2 DEF BudgetNext

\* The estimate of what comes out is at most what the loop compared to the budget.
LEMMA ResultCovered ==
    ASSUME BudgetInv
    PROVE  /\ Fixed \in Nat /\ EstimateTokens(Result) \in Nat
           /\ EstimateTokens(Result) <= Fixed + total.static + total.dynamic
<1> DEFINE s == context.static.text[kept.static]
           d == context.dynamic.text[kept.dynamic]
           q == context.question
           sd == <<s[1] + d[1], s[2] + d[2]>>
<1>1. s \in Nat \X Nat /\ d \in Nat \X Nat /\ q \in Nat \X Nat
  BY Known DEF BudgetInv, BudgetTypeOK, AddsUp, Group
<1>2. EstimateTokens(s) <= total.static /\ EstimateTokens(d) <= total.dynamic
  BY CostCovers, Known DEF BudgetInv, BudgetTypeOK, TotalsMatch
<1>3. total.static \in Nat /\ total.dynamic \in Nat
  BY DEF BudgetInv, BudgetTypeOK
<1>4. Result = <<q[1] + sd[1], q[2] + sd[2]>>
  <2>1. \A m \in {1, 2} : q[m] + s[m] + d[m] = q[m] + (s[m] + d[m])
    <3> HIDE DEF s, d, q
    <3> QED BY <1>1
  <2> QED BY <2>1 DEF Result
<1> HIDE DEF s, d, q
<1>5. sd \in Nat \X Nat
  BY <1>1
<1>6. /\ EstimateTokens(sd) <= EstimateTokens(s) + EstimateTokens(d)
      /\ EstimateTokens(s) \in Nat /\ EstimateTokens(d) \in Nat
  BY <1>1, EstimateSubadditive
<1> HIDE DEF sd
<1>7. /\ EstimateTokens(Result) <= EstimateTokens(q) + EstimateTokens(sd)
      /\ EstimateTokens(q) \in Nat /\ EstimateTokens(sd) \in Nat
  BY <1>1, <1>4, <1>5, EstimateSubadditive
<1>8. Result \in Nat \X Nat
  BY <1>1, <1>4, <1>5
<1>9. EstimateTokens(Result) \in Nat
  BY <1>8, EstimateSubadditive
<1>10. Fixed = EstimateTokens(q)
  BY DEF Fixed, q
<1>11. QED
  BY <1>2, <1>3, <1>6, <1>7, <1>9, <1>10

\* The kept chunks and their totals stay within those of the context
\* (build_context_bounded: no count and no total ever falls below zero).
THEOREM BudgetTypeCorrect == BudgetSpec => []BudgetTypeOK
<1>1. BudgetInv => BudgetTypeOK
  BY DEF BudgetInv
<1>2. QED
  BY BudgetInvInit, BudgetInvNext, <1>1, PTL DEF BudgetSpec

\* context_builder.rs:83: whatever the chunks and the budget, the estimate of the
\* context that comes out is within the budget, unless no chunk is left.
THEOREM BudgetCorrect == BudgetSpec => []BudgetHolds
<1>1. BudgetInv => BudgetHolds
  <2> SUFFICES ASSUME BudgetInv, ~TooLong
               PROVE  EstimateTokens(Result) <= budget \/ (kept.static = 0 /\ kept.dynamic = 0)
    BY DEF BudgetHolds
  <2>1. /\ budget \in Nat /\ kept.static \in Nat /\ kept.dynamic \in Nat
        /\ total.static \in Nat /\ total.dynamic \in Nat
    BY Known DEF BudgetInv, BudgetTypeOK
  <2>2. CASE kept.static > 0 \/ kept.dynamic > 0
    <3>1. Fixed + total.static + total.dynamic <= budget
      BY <2>1, <2>2, ResultCovered DEF TooLong
    <3>2. QED
      BY <2>1, <3>1, ResultCovered
  <2>3. CASE ~(kept.static > 0 \/ kept.dynamic > 0)
    BY <2>1, <2>3
  <2>4. QED
    BY <2>2, <2>3
<1>2. QED
  BY BudgetInvInit, BudgetInvNext, <1>1, PTL DEF BudgetSpec

\* context_builder.rs:49: every chunk that goes leaves the group that costs at least
\* as much as the other, and goes only because the estimates do not fit.
THEOREM DropCorrect == BudgetSpec => DropsTheDearer
<1> DEFINE Step ==
      \A g \in {"static", "dynamic"}, o \in {"static", "dynamic"} :
         (g # o /\ kept[g]' < kept[g]) =>
            /\ Fixed + total.static + total.dynamic > budget
            /\ kept[o]' = kept[o]
            /\ kept[o] > 0 => CostUpTo(g, kept[g]) >= CostUpTo(o, kept[o])
<1>1. BudgetInv /\ [BudgetNext]_budgetVars => [Step]_budgetVars
  <2> SUFFICES ASSUME BudgetInv, Drop,
                      NEW g \in {"static", "dynamic"}, NEW o \in {"static", "dynamic"},
                      g # o, kept[g]' < kept[g]
               PROVE  /\ Fixed + total.static + total.dynamic > budget
                      /\ kept[o]' = kept[o]
                      /\ kept[o] > 0 => CostUpTo(g, kept[g]) >= CostUpTo(o, kept[o])
    BY DEF BudgetNext
  <2>1. /\ kept \in [static : Nat, dynamic : Nat] /\ total \in [static : Nat, dynamic : Nat]
        /\ Dearer \in {"static", "dynamic"}
    BY DearerHasOne, Known DEF Drop, BudgetInv, BudgetTypeOK
  <2>2. kept' = [kept EXCEPT ![Dearer] = kept[Dearer] - 1]
    BY DEF Drop
  <2>3. Dearer = g
    <3> DEFINE x == Dearer
    <3>1. x \in {"static", "dynamic"} /\ kept' = [kept EXCEPT ![x] = kept[x] - 1]
      BY <2>1, <2>2
    <3> HIDE DEF x
    <3>2. x # g => kept'[g] = kept[g]
      BY <2>1, <3>1
    <3>3. kept[g] \in Nat
      BY <2>1
    <3>4. x = g
      BY <3>2, <3>3
    <3> QED BY <3>4 DEF x
  <2>4. kept'[o] = kept[o]
    <3>1. kept' = [kept EXCEPT ![g] = kept[g] - 1]
      BY <2>2, <2>3
    <3> QED BY <2>1, <3>1
  <2>5. kept[o] > 0 => total[g] >= total[o]
    BY <2>1, <2>3 DEF Dearer
  <2>6. total[g] = CostUpTo(g, kept[g]) /\ total[o] = CostUpTo(o, kept[o])
    BY DEF BudgetInv, TotalsMatch, CostUpTo
  <2>7. QED
    BY <2>4, <2>5, <2>6 DEF Drop, TooLong
<1>2. QED
  BY BudgetInvInit, BudgetInvNext, <1>1, PTL DEF BudgetSpec, DropsTheDearer

-------------------------------------------------------------------------------
(* The accounting of open shards (LanceCache.tla). *)

\* Where paths are, and what each weighs.
Paths == Nat \X Nat
Weight == [p \in Paths |-> SizeOf(p)]

\* MapThenSumSet is a sum in the sense of FoldLemmas.
LEMMA BytesAreSum ==
  ASSUME NEW S \in SUBSET Paths, IsFiniteSet(S)
  PROVE  \E g \in [SUBSET S -> Int] : IsSum(Weight, S, g) /\ MapThenSumSet(SizeOf, S) = g[S]
<1> DEFINE Step(g) == [s \in SUBSET S |-> IF s = {} THEN 0 ELSE SizeOf(First(s)) + g[s \ {First(s)}]]
           c == CHOOSE g : g = Step(g)
<1>1. Weight \in [Paths -> Int]
  BY DEF Weight, Paths, SizeOf
<1>2. PICK g \in [SUBSET S -> Int] : IsSum(Weight, S, g)
  BY <1>1, SumExists
<1>3. \A h : SumStep(Weight, S, h) = Step(h)
  <2>1. \A s \in SUBSET S : s # {} => Weight[First(s)] = SizeOf(First(s))
    BY FirstOf DEF Weight
  <2>2. QED
    BY <2>1 DEF SumStep
<1>4. g = Step(g)
  BY <1>2, <1>3 DEF IsSum
<1>5. c = Step(c)
  BY <1>4, Zenon
<1>6. MapThenSumSet(SizeOf, S) = c[S]
  BY DEF MapThenSumSet, MapThenFoldSet, First
<1> HIDE DEF c, Step
<1>7. IsSum(Weight, S, c)
  BY <1>3, <1>5 DEF IsSum
<1>8. c = g
  <2>1. \A s \in SUBSET S : c[s] = g[s]
    BY <1>2, <1>7, SumAgrees, FS_Subset
  <2>2. c = [s \in SUBSET S |-> c[s]] /\ g = [s \in SUBSET S |-> g[s]]
    BY <1>5 DEF Step
  <2>3. QED
    BY <2>1, <2>2
<1>9. QED
  BY <1>2, <1>6, <1>8

\* A path that was not noted adds its size.
LEMMA BytesAdd ==
  ASSUME NEW S \in SUBSET Paths, IsFiniteSet(S), NEW p \in Paths, p \notin S
  PROVE  /\ MapThenSumSet(SizeOf, S) \in Int
         /\ MapThenSumSet(SizeOf, {}) = 0
         /\ MapThenSumSet(SizeOf, S \cup {p}) = MapThenSumSet(SizeOf, S) + SizeOf(p)
<1> DEFINE R == S \cup {p}
<1>0. Weight \in [Paths -> Int] /\ Weight[p] = SizeOf(p) /\ SizeOf(p) \in Int
  BY DEF Weight, Paths, SizeOf
<1>1. R \in SUBSET Paths /\ IsFiniteSet(R)
  BY FS_AddElement
<1>2. PICK g \in [SUBSET S -> Int] : IsSum(Weight, S, g) /\ MapThenSumSet(SizeOf, S) = g[S]
  BY BytesAreSum
<1>3. PICK h \in [SUBSET R -> Int] : IsSum(Weight, R, h) /\ MapThenSumSet(SizeOf, R) = h[R]
  BY <1>1, BytesAreSum
<1>4. PICK z \in [SUBSET {} -> Int] : IsSum(Weight, {}, z) /\ MapThenSumSet(SizeOf, {}) = z[{}]
  BY BytesAreSum, FS_EmptySet
<1>5. z[{}] = 0
  BY <1>4, SumSteps
<1>6. h[R] = Weight[p] + h[R \ {p}]
  <2>1. R \in SUBSET R /\ p \in R
    OBVIOUS
  <2> HIDE DEF R
  <2>2. Takes(Weight, h, R)
    BY <1>0, <1>1, <1>3, <2>1, SumTakes
  <2>3. QED
    BY <2>1, <2>2 DEF Takes
<1>7. R \ {p} = S
  OBVIOUS
<1>8. h[S] = g[S]
  BY <1>2, <1>3, SumAgrees
<1>9. g[S] \in Int
  BY <1>2
<1>10. MapThenSumSet(SizeOf, R) = SizeOf(p) + g[S]
  BY <1>0, <1>3, <1>6, <1>7, <1>8
<1>11. SizeOf(p) + g[S] = g[S] + SizeOf(p)
  BY <1>0, <1>9
<1>12. QED
  BY <1>2, <1>4, <1>5, <1>9, <1>10, <1>11

CacheRecords == [seen : SUBSET Paths, hits : Nat, misses : Nat, attempted : CacheVersions \cup {NoVersion},
                 current : CacheVersions \cup {NoVersion}, bytes : Int]

Searching == [phase : {"measure"}, version : CacheVersions, shard : 1 .. ShardCount] \cup
             [phase : {"query"}, version : CacheVersions, shard : 1 .. ShardCount, size : Int,
              known : BOOLEAN]

\* What was measured outside the lock is still the size when it is recorded.
SizeKept(w) == w.phase = "query" => w.size = SizeOf(<<w.version, w.shard>>)

\* The counters are those of the paths that are noted.
CountersOf(c) ==
  /\ IsFiniteSet(c.seen)
  /\ c.misses = Cardinality(c.seen)
  /\ c.bytes = MapThenSumSet(SizeOf, c.seen)
  /\ c.current \in {NoVersion, c.attempted}

CacheInv ==
  /\ cache \in CacheRecords /\ at \in [Searchers -> Searching \cup {Idle}] /\ mixed \in BOOLEAN
  /\ \A s \in Searchers : at[s] # Idle => SizeKept(at[s])
  /\ CountersOf(cache) /\ CacheOfOneVersion
  /\ ~mixed => \A s \in Searchers : at[s] # Idle => at[s].version = cache.attempted

LEMMA NoPaths == Cardinality({}) = 0 /\ MapThenSumSet(SizeOf, {}) = 0 /\ IsFiniteSet({})
<1>1. <<0, 0>> \in Paths /\ {} \in SUBSET Paths
  BY DEF Paths
<1>2. QED
  BY <1>1, BytesAdd, FS_EmptySet

\* A searcher is idle, or knows a version and a shard.
LEMMA SearcherIs ==
  ASSUME CacheInv, NEW s \in Searchers, at[s] # Idle
  PROVE  /\ at[s].version \in CacheVersions /\ at[s].shard \in 1 .. ShardCount
         /\ at[s].phase = "query" => at[s].size = SizeOf(<<at[s].version, at[s].shard>>)
BY DEF CacheInv, Searching, SizeKept

\* The paths of a version are paths, and weigh something.
LEMMA PathIs ==
  ASSUME NEW v \in CacheVersions, NEW n \in 1 .. ShardCount
  PROVE  /\ <<v, n>> \in Paths /\ <<v, n>> \in PathsOf(v) /\ v # NoVersion
         /\ SizeOf(<<v, n>>) \in Int
<1>1. v \in Nat /\ v # 0 /\ n \in Nat
  BY CacheConstants
<1>2. SizeOf(<<v, n>>) = v + 10 * n
  BY DEF SizeOf
<1>3. QED
  BY <1>1, <1>2 DEF Paths, PathsOf, NoVersion

\* A searcher moves on or stops; the cache stays.
LEMMA SearcherStep ==
  ASSUME CacheInv, NEW s \in Searchers, UNCHANGED <<cache, mixed>>,
         NEW w \in Searching \cup {Idle}, at' = [at EXCEPT ![s] = w], at[s] # Idle,
         w # Idle => SizeKept(w) /\ w.version = at[s].version
  PROVE  CacheInv'
<1>1. /\ at' \in [Searchers -> Searching \cup {Idle}]
      /\ \A o \in Searchers : at'[o] = (IF o = s THEN w ELSE at[o])
  BY DEF CacheInv
<1>2. (\A o \in Searchers : at[o] # Idle => SizeKept(at[o]))'
  BY <1>1 DEF CacheInv, SizeKept, Idle
<1>3. (~mixed => \A o \in Searchers : at[o] # Idle => at[o].version = cache.attempted)'
  BY <1>1 DEF CacheInv, Idle
<1>4. QED
  BY <1>1, <1>2, <1>3 DEF CacheInv, CountersOf, CacheOfOneVersion, PathsOf

LEMMA BeginKeeps ==
  ASSUME CacheInv, NEW s \in Searchers, NEW v \in CacheVersions, BeginAttempt(s, v)
  PROVE  CacheInv'
<1> DEFINE w == [phase |-> "measure", version |-> v, shard |-> 1]
<1>1. w \in Searching /\ w # Idle /\ w.version = v /\ SizeKept(w)
  BY CacheConstants DEF Searching, Idle, SizeKept
<1>2. /\ at' = [at EXCEPT ![s] = w]
      /\ mixed' = (mixed \/ \E o \in Searchers : at[o] # Idle /\ at[o].version # v)
      /\ cache' = IF cache.attempted = v THEN cache ELSE Reset(v)
  BY DEF BeginAttempt
<1> HIDE DEF w
<1>3. /\ at' \in [Searchers -> Searching \cup {Idle}] /\ mixed' \in BOOLEAN
      /\ \A o \in Searchers : at'[o] = (IF o = s THEN w ELSE at[o])
  BY <1>1, <1>2 DEF CacheInv
<1>4. (\A o \in Searchers : at[o] # Idle => SizeKept(at[o]))'
  BY <1>1, <1>3 DEF CacheInv, SizeKept, Idle
<1>5. cache'.attempted = v
  BY <1>2 DEF Reset
<1>6. (~mixed => \A o \in Searchers : at[o] # Idle => at[o].version = cache.attempted)'
  BY <1>1, <1>2, <1>3, <1>5 DEF Idle
<1>7. cache' \in CacheRecords /\ CountersOf(cache)' /\ CacheOfOneVersion'
  <2>1. CASE cache.attempted = v
    <3>1. cache' = cache /\ (mixed' \/ ~mixed)
      BY <1>2, <2>1 DEF CacheInv
    <3>2. QED
      BY <3>1 DEF CacheInv, CountersOf, CacheOfOneVersion, PathsOf
  <2>2. CASE cache.attempted # v
    <3>1. cache' = Reset(v)
      BY <1>2, <2>2
    <3>2. QED
      BY <3>1, NoPaths DEF Reset, CountersOf, CacheOfOneVersion, CacheRecords, PathsOf
  <2>3. QED
    BY <2>1, <2>2
<1>8. QED
  BY <1>3, <1>4, <1>6, <1>7 DEF CacheInv

LEMMA RecordKeeps ==
  ASSUME CacheInv, NEW s \in Searchers, RecordAccess(s)
  PROVE  CacheInv'
<1> DEFINE v == at[s].version
           p == <<at[s].version, at[s].shard>>
           w == IF at[s].shard = ShardCount THEN Idle
                ELSE [phase |-> "measure", version |-> at[s].version, shard |-> at[s].shard + 1]
<1>1. at[s] # Idle /\ at[s].phase = "query" /\ UNCHANGED mixed
  BY DEF RecordAccess, Idle
<1>2. v \in CacheVersions /\ at[s].shard \in 1 .. ShardCount /\ at[s].size = SizeOf(p)
  BY <1>1, SearcherIs
<1>3. /\ p \in Paths /\ p \in PathsOf(v) /\ v # NoVersion /\ SizeOf(p) \in Int
  BY <1>2, PathIs
<1>4. w \in Searching \cup {Idle} /\ (w # Idle => SizeKept(w) /\ w.version = v)
  BY <1>2, CacheConstants DEF Searching, SizeKept, Idle
<1>5. at' = [at EXCEPT ![s] = w] /\ cache' = Recorded(at[s], p)
  BY DEF RecordAccess
<1> HIDE DEF w
<1>6. /\ at' \in [Searchers -> Searching \cup {Idle}]
      /\ \A o \in Searchers : at'[o] = (IF o = s THEN w ELSE at[o])
  BY <1>4, <1>5 DEF CacheInv
<1>7. (\A o \in Searchers : at[o] # Idle => SizeKept(at[o]))'
  BY <1>4, <1>6 DEF CacheInv, SizeKept, Idle
<1>8. /\ cache \in CacheRecords /\ CountersOf(cache) /\ CacheOfOneVersion
      /\ ~mixed => v = cache.attempted
  BY <1>1 DEF CacheInv
<1> HIDE DEF v, p
<1>9. /\ cache' \in CacheRecords /\ cache'.seen = cache.seen \cup {p}
      /\ cache'.attempted = v /\ cache'.current = v
      /\ p \in cache.seen => cache'.misses = cache.misses /\ cache'.bytes = cache.bytes
      /\ p \notin cache.seen => /\ cache'.misses = cache.misses + 1
                                /\ cache'.bytes = cache.bytes + SizeOf(p)
  <2>1. cache' = IF p \in cache.seen
                 THEN [cache EXCEPT !.hits = @ + 1, !.attempted = v, !.current = v]
                 ELSE [cache EXCEPT !.misses = @ + 1, !.bytes = @ + SizeOf(p), !.seen = @ \cup {p},
                                    !.attempted = v, !.current = v]
    BY <1>2, <1>5 DEF Recorded, v
  <2>2. CASE p \in cache.seen
    <3> DEFINE n == cache.hits + 1
    <3>1. cache' = [cache EXCEPT !.hits = n, !.attempted = v, !.current = v]
      BY <2>1, <2>2
    <3>2. n \in Nat /\ cache.seen \cup {p} = cache.seen
      BY <1>8, <2>2 DEF CacheRecords
    <3> HIDE DEF n
    <3>3. QED
      BY <1>2, <1>8, <2>2, <3>1, <3>2 DEF CacheRecords
  <2>3. CASE p \notin cache.seen
    <3> DEFINE n == cache.misses + 1
               b == cache.bytes + SizeOf(p)
               seen == cache.seen \cup {p}
    <3>1. cache' = [cache EXCEPT !.misses = n, !.bytes = b, !.seen = seen,
                                 !.attempted = v, !.current = v]
      BY <2>1, <2>3
    <3>2. n \in Nat /\ b \in Int /\ seen \in SUBSET Paths
      BY <1>3, <1>8 DEF CacheRecords
    <3>3. cache' \in CacheRecords /\ cache'.seen = seen /\ cache'.misses = n /\ cache'.bytes = b
          /\ cache'.attempted = v /\ cache'.current = v
      <4> HIDE DEF n, b, seen
      <4>1. QED
        BY <1>2, <1>8, <3>1, <3>2 DEF CacheRecords
    <3>4. QED
      BY <2>3, <3>3
  <2>4. QED
    BY <2>2, <2>3
<1>10. CountersOf(cache')
  <2>1. CASE p \in cache.seen
    <3>1. cache'.seen = cache.seen
      BY <1>9, <2>1
    <3>2. QED
      BY <1>8, <1>9, <2>1, <3>1 DEF CountersOf
  <2>2. CASE p \notin cache.seen
    <3>1. cache.seen \in SUBSET Paths /\ IsFiniteSet(cache.seen)
      BY <1>8 DEF CacheRecords, CountersOf
    <3>2. IsFiniteSet(cache'.seen) /\ Cardinality(cache'.seen) = Cardinality(cache.seen) + 1
      BY <1>9, <2>2, <3>1, FS_AddElement
    <3>3. MapThenSumSet(SizeOf, cache.seen \cup {p}) = MapThenSumSet(SizeOf, cache.seen) + SizeOf(p)
      BY <1>3, <2>2, <3>1, BytesAdd
    <3>4. QED
      BY <1>8, <1>9, <2>2, <3>2, <3>3 DEF CountersOf
  <2>3. QED
    BY <2>1, <2>2
<1>11. CacheOfOneVersion'
  BY <1>1, <1>3, <1>8, <1>9 DEF CacheOfOneVersion
<1>12. (~mixed => \A o \in Searchers : at[o] # Idle => at[o].version = cache.attempted)'
  BY <1>1, <1>4, <1>6, <1>8, <1>9 DEF CacheInv
<1>13. QED
  BY <1>1, <1>6, <1>7, <1>9, <1>10, <1>11, <1>12 DEF CacheInv

LEMMA CacheKeeps == CacheInv /\ [CacheNext]_cacheVars => CacheInv'
<1> SUFFICES ASSUME CacheInv, [CacheNext]_cacheVars PROVE CacheInv'
  OBVIOUS
<1>1. ASSUME NEW s \in Searchers, NEW v \in CacheVersions, BeginAttempt(s, v) PROVE CacheInv'
  BY <1>1, BeginKeeps
<1>2. ASSUME NEW s \in Searchers, Measure(s) PROVE CacheInv'
  <2> DEFINE size == SizeOf(<<at[s].version, at[s].shard>>)
             known == /\ cache.attempted = at[s].version
                      /\ <<at[s].version, at[s].shard>> \in cache.seen
             w == [phase |-> "query", version |-> at[s].version, shard |-> at[s].shard,
                   size |-> size, known |-> known]
  <2>1. at[s] # Idle /\ at' = [at EXCEPT ![s] = w] /\ UNCHANGED <<cache, mixed>>
    BY <1>2 DEF Measure, Idle
  <2>2. at[s].version \in CacheVersions /\ at[s].shard \in 1 .. ShardCount
    BY <2>1, SearcherIs
  <2>3. size \in Int /\ known \in BOOLEAN
    BY <2>2, PathIs
  <2>4. w \in Searching /\ SizeKept(w) /\ w.version = at[s].version
    <3> HIDE DEF known
    <3>1. QED
      BY <2>2, <2>3 DEF Searching, SizeKept
  <2> HIDE DEF w
  <2>5. QED
    BY <2>1, <2>4, SearcherStep
<1>3. ASSUME NEW s \in Searchers, RecordAccess(s) PROVE CacheInv'
  BY <1>3, RecordKeeps
<1>4. ASSUME NEW s \in Searchers, QueryFails(s) PROVE CacheInv'
  <2>1. at[s] # Idle /\ at' = [at EXCEPT ![s] = Idle] /\ UNCHANGED <<cache, mixed>>
    BY <1>4 DEF QueryFails, Idle
  <2>2. QED
    BY <2>1, SearcherStep
<1>5. CASE UNCHANGED cacheVars
  BY <1>5 DEF cacheVars, CacheInv, SizeKept, CountersOf, CacheOfOneVersion, PathsOf
<1>6. QED
  BY <1>1, <1>2, <1>3, <1>4, <1>5 DEF CacheNext

\* lance_cache.rs, vector_searcher.rs: for any number of concurrent searches, versions and
\* shards the counters are those of the noted paths, each counted once, and while no two
\* searches of different versions overlap they are about one version.
THEOREM CacheAddsUp == CacheSpec => []CacheAdds
<1>1. CacheInit => CacheInv
  <2> SUFFICES ASSUME CacheInit PROVE CacheInv
    OBVIOUS
  <2>1. /\ cache = Reset(NoVersion) /\ mixed = FALSE
        /\ at \in [Searchers -> Searching \cup {Idle}] /\ \A s \in Searchers : at[s] = Idle
    BY DEF CacheInit, Reset
  <2>2. CountersOf(cache) /\ CacheOfOneVersion /\ cache \in CacheRecords
    BY <2>1, NoPaths DEF Reset, CountersOf, CacheOfOneVersion, CacheRecords, PathsOf
  <2>3. QED
    BY <2>1, <2>2 DEF CacheInv
<1>2. CacheInv => CacheAdds
  BY DEF CacheInv, CountersOf, CacheAdds
<1>3. QED
  BY <1>1, <1>2, CacheKeeps, PTL DEF CacheSpec

-------------------------------------------------------------------------------
(* What the retrievers find (Retrieval.tla). *)

Rows == [doc : Nat, score : Int]
BetterIn(S) == [x \in S |-> {y \in S : Better(y, x)}]
OneEach(S) == S \in SUBSET Rows /\ IsFiniteSet(S) /\ \A a, b \in S : a.doc = b.doc => a = b

LEMMA RowIs ==
  \A r \in Rows : r.doc \in Nat /\ r.score \in Int /\ r = [doc |-> r.doc, score |-> r.score]
BY DEF Rows

LEMMA BetterIsOrder ==
  ASSUME NEW S, OneEach(S)
  PROVE  /\ \A a \in S : ~Better(a, a)
         /\ \A a, b, c \in S : Better(a, b) /\ Better(b, c) => Better(a, c)
         /\ \A a, b \in S : a # b => Better(a, b) \/ Better(b, a)
<1>1. \A a \in S : a.doc \in Nat /\ a.score \in Int
  BY RowIs DEF OneEach
<1>2. \A a, b \in S : a # b => a.doc # b.doc
  BY DEF OneEach
<1>3. QED
  BY <1>1, <1>2 DEF Better

LEMMA BestFirst ==
  ASSUME NEW S, OneEach(S)
  PROVE  /\ IsOrder(S, BetterIn(S))
         /\ Sorts(SortedBy(S, Better), S, BetterIn(S))
<1> DEFINE before == BetterIn(S)
<1>1. before \in [S -> SUBSET S] /\ \A s, t \in S : s \in before[t] <=> Better(s, t)
  BY DEF BetterIn
<1> HIDE DEF before
<1>2. IsOrder(S, before)
  BY <1>1, BetterIsOrder DEF IsOrder
<1>3. SortedBy(S, Better) = Sorted(S, before)
  BY DEF SortedBy, BetterIn, before
<1>4. QED
  BY <1>2, <1>3, SortedSorts DEF OneEach, before

LEMMA TruncatedIs ==
  ASSUME NEW T, NEW s \in Seq(T), NEW n \in Nat
  PROVE  /\ Truncated(s, n) \in Seq(T)
         /\ Len(Truncated(s, n)) = Smaller(n, Len(s))
         /\ \A i \in 1 .. Smaller(n, Len(s)) : i \in 1 .. Len(s) /\ Truncated(s, n)[i] = s[i]
<1> DEFINE k == Smaller(n, Len(s))
<1>1. Len(s) \in Nat
  BY LenProperties
<1>2. k \in Nat /\ k <= Len(s)
  BY <1>1 DEF Smaller
<1>3. Truncated(s, n) = SubSeq(s, 1, k)
  BY DEF Truncated
<1> HIDE DEF k
<1>4. \A i \in 1 .. k : i \in 1 .. Len(s) /\ s[i] \in T
  BY <1>1, <1>2, ElementOfSeq
<1>5. /\ SubSeq(s, 1, k) \in Seq(T)
      /\ Len(SubSeq(s, 1, k)) = IF 1 <= k THEN k - 1 + 1 ELSE 0
      /\ \A i \in 1 .. k - 1 + 1 : SubSeq(s, 1, k)[i] = s[1 + i - 1]
  <2>1. 1 \in Int /\ k \in Int
    BY <1>2
  <2>2. QED
    BY <1>4, <2>1, SubSeqProperties
<1>6. Len(SubSeq(s, 1, k)) = k /\ \A i \in 1 .. k : SubSeq(s, 1, k)[i] = s[i]
  BY <1>2, <1>5
<1>7. QED
  BY <1>3, <1>4, <1>5, <1>6 DEF k

\* As many documents as rows, if each has one row.
LEMMA DocsOfRows ==
  ASSUME NEW S, IsFiniteSet(S)
  PROVE  /\ IsFiniteSet({r.doc : r \in S})
         /\ Cardinality({r.doc : r \in S}) <= Cardinality(S)
         /\ (\A a, b \in S : a.doc = b.doc => a = b) => Cardinality({r.doc : r \in S}) = Cardinality(S)
<1> DEFINE f == [r \in S |-> r.doc]
           T == {r.doc : r \in S}
<1>1. f \in Surjection(S, T)
  BY DEF Surjection
<1>2. (\A a, b \in S : a.doc = b.doc => a = b) => f \in Injection(S, T)
  BY DEF Injection, IsInjective
<1> HIDE DEF f, T
<1>3. /\ IsFiniteSet(T) /\ Cardinality(T) <= Cardinality(S)
      /\ Cardinality(T) = Cardinality(S) <=> f \in Injection(S, T)
  BY <1>1, FS_Surjection
<1>4. QED
  BY <1>2, <1>3 DEF T

\* Each document of hits with its best row.
LEMMA BestPerDocIs ==
  ASSUME NEW hits \in Seq(Rows)
  PROVE  /\ OneEach(BestPerDoc(hits))
         /\ \A b \in BestPerDoc(hits) : \E i \in DOMAIN hits : b = hits[i]
         /\ \A i \in DOMAIN hits : \E b \in BestPerDoc(hits) :
              b.doc = hits[i].doc /\ b.score >= hits[i].score
<1> DEFINE D == DOMAIN hits
           best == BestPerDoc(hits)
           Top(i) == \A j \in D : hits[j].doc = hits[i].doc =>
                       hits[i].score > hits[j].score \/ (hits[i].score = hits[j].score /\ i <= j)
<1>1. /\ Len(hits) \in Nat /\ D = 1 .. Len(hits) /\ IsFiniteSet(D)
      /\ \A i \in D : hits[i] \in Rows /\ hits[i].score \in Int /\ hits[i].doc \in Nat
  <2>1. Len(hits) \in Nat /\ D = 1 .. Len(hits)
    BY LenProperties
  <2>2. \A i \in D : hits[i] \in Rows
    BY <2>1, ElementOfSeq
  <2>3. IsFiniteSet(1 .. Len(hits))
    BY <2>1, FS_Interval
  <2>4. QED
    BY <2>1, <2>2, <2>3, RowIs
<1>2. best = {hits[i] : i \in {j \in D : Top(j)}}
  BY DEF BestPerDoc
<1> HIDE DEF best, D
<1>3. \A b \in best : \E i \in D : b = hits[i] /\ Top(i)
  BY <1>2
<1>4. OneEach(best)
  <2>1. \A a, b \in best : a.doc = b.doc => a = b
    <3> SUFFICES ASSUME NEW a \in best, NEW b \in best, a.doc = b.doc PROVE a = b
      OBVIOUS
    <3>1. PICK i \in D : a = hits[i] /\ Top(i)
      BY <1>3
    <3>2. PICK j \in D : b = hits[j] /\ Top(j)
      BY <1>3
    <3>3. i = j
      BY <1>1, <3>1, <3>2
    <3>4. QED
      BY <3>1, <3>2, <3>3
  <2>2. IsFiniteSet(best)
    <3> DEFINE T == {j \in D : Top(j)}
               f == [i \in T |-> hits[i]]
    <3>1. T \in SUBSET D
      OBVIOUS
    <3>2. f \in Surjection(T, best)
      <4>1. \A i \in T : f[i] = hits[i] /\ hits[i] \in best
        BY <1>2
      <4>2. \A b \in best : \E i \in T : f[i] = b
        BY <1>3
      <4>3. f \in [T -> best]
        BY <4>1
      <4> HIDE DEF f, T
      <4>4. QED
        BY <4>2, <4>3 DEF Surjection
    <3> HIDE DEF f, T
    <3>3. QED
      BY <1>1, <3>1, <3>2, FS_Subset, FS_Surjection
  <2>3. best \in SUBSET Rows
    BY <1>1, <1>3
  <2>4. QED
    BY <2>1, <2>2, <2>3 DEF OneEach
<1>5. ASSUME NEW i \in D
      PROVE  \E b \in best : b.doc = hits[i].doc /\ b.score >= hits[i].score
  <2> DEFINE S == {j \in D : hits[j].doc = hits[i].doc}
             Less(j, k) == hits[j].score > hits[k].score \/ (hits[j].score = hits[k].score /\ j < k)
             before == [k \in S |-> {j \in S : Less(j, k)}]
  <2>1. i \in S /\ S \in SUBSET D
    OBVIOUS
  <2>2. IsFiniteSet(S) /\ Cardinality(S) \in Nat /\ Cardinality(S) # 0
    <3> HIDE DEF S
    <3>1. QED
      BY <1>1, <2>1, FS_Subset, FS_CardinalityType, FS_EmptySet
  <2>3. IsOrder(S, before)
    <3>1. before \in [S -> SUBSET S] /\ \A j, k \in S : j \in before[k] <=> Less(j, k)
      OBVIOUS
    <3>2. \A j \in S : j \in Nat /\ hits[j].score \in Int
      BY <1>1
    <3> HIDE DEF before, S
    <3>3. \A j, k, l \in S : Less(j, k) /\ Less(k, l) => Less(j, l)
      BY <3>2
    <3>4. \A j, k \in S : ~Less(j, j) /\ (j # k => Less(j, k) \/ Less(k, j))
      BY <3>2
    <3> HIDE DEF Less
    <3>5. QED
      BY <3>1, <3>3, <3>4 DEF IsOrder
  <2>4. PICK k \in S : Cardinality(before[k]) = 0
    <3>1. 0 \in 0 .. Cardinality(S) - 1
      BY <2>2
    <3> HIDE DEF S, before
    <3>2. QED
      BY <2>2, <2>3, <3>1, Places
  <2>5. before[k] = {}
    <3>1. before[k] \in SUBSET S
      OBVIOUS
    <3> HIDE DEF S, before
    <3>2. QED
      BY <2>2, <2>4, <3>1, FS_Subset, FS_EmptySet
  <2>6. k \in D /\ hits[k].doc = hits[i].doc
    OBVIOUS
  <2>7. \A j \in D : hits[j].doc = hits[i].doc => ~Less(j, k)
    BY <2>5
  <2>8. Top(k)
    BY <1>1, <2>6, <2>7
  <2>9. hits[k] \in best
    BY <1>2, <2>6, <2>8
  <2>10. hits[k].score >= hits[i].score
    BY <1>1, <2>6, <2>8
  <2>11. QED
    BY <2>6, <2>9, <2>10
<1>6. QED
  BY <1>3, <1>4, <1>5 DEF best, D

\* What a retriever has seen stands for everything it holds: a row that it has not seen
\* would make no difference to the best topK.
Seen(hits, d, score) == \E i \in DOMAIN hits : hits[i].doc = d /\ hits[i].score >= score
Crowded(hits, topK, r) ==
  \E docs : /\ IsFiniteSet(docs) /\ Cardinality(docs) >= topK /\ r.doc \notin docs
            /\ \A d \in docs : Seen(hits, d, r.score)
Covers(hits, rows, topK) ==
  /\ hits \in Seq(Rows) /\ \A i \in DOMAIN hits : hits[i] \in rows
  /\ \A r \in rows : Seen(hits, r.doc, r.score) \/ Crowded(hits, topK, r)

\* Then topK documents have a row as good as the missing one.
LEMMA CrowdIsBetter ==
  ASSUME NEW hits \in Seq(Rows), NEW topK \in Nat, NEW r \in Rows, Crowded(hits, topK, r)
  PROVE  /\ IsFiniteSet({b \in BestPerDoc(hits) : b.score >= r.score /\ b.doc # r.doc})
         /\ Cardinality({b \in BestPerDoc(hits) : b.score >= r.score /\ b.doc # r.doc}) >= topK
<1> DEFINE best == BestPerDoc(hits)
           Y == {b \in best : b.score >= r.score /\ b.doc # r.doc}
           T == {b.doc : b \in Y}
<1>1. PICK docs : /\ IsFiniteSet(docs) /\ Cardinality(docs) >= topK /\ r.doc \notin docs
                  /\ \A d \in docs : Seen(hits, d, r.score)
  BY DEF Crowded
<1>2. IsFiniteSet(Y) /\ Cardinality(Y) \in Nat
  <2>1. IsFiniteSet(best) /\ Y \in SUBSET best
    BY BestPerDocIs DEF OneEach
  <2> HIDE DEF Y, best
  <2>2. QED
    BY <2>1, FS_Subset, FS_CardinalityType
<1>3. docs \subseteq T
  <2> SUFFICES ASSUME NEW d \in docs PROVE \E b \in Y : b.doc = d
    OBVIOUS
  <2>1. PICK i \in DOMAIN hits : hits[i].doc = d /\ hits[i].score >= r.score
    BY <1>1 DEF Seen
  <2>2. PICK b \in best : b.doc = hits[i].doc /\ b.score >= hits[i].score
    BY BestPerDocIs
  <2>3. b.score \in Int /\ hits[i].score \in Int /\ r.score \in Int
    <3>1. hits[i] \in Rows
      BY LenProperties, ElementOfSeq
    <3>2. b \in Rows
      BY BestPerDocIs DEF OneEach
    <3>3. QED
      BY <3>1, <3>2, RowIs
  <2>4. b.score >= r.score /\ b.doc = d /\ d # r.doc
    BY <1>1, <2>1, <2>2, <2>3
  <2>5. QED
    BY <2>4
<1> HIDE DEF Y
<1>4. IsFiniteSet(T) /\ Cardinality(T) <= Cardinality(Y)
  BY <1>2, DocsOfRows
<1> HIDE DEF T
<1>5. /\ Cardinality(docs) <= Cardinality(T)
      /\ Cardinality(T) \in Nat /\ Cardinality(docs) \in Nat
  BY <1>1, <1>3, <1>4, FS_Subset, FS_CardinalityType
<1>6. Cardinality(Y) >= topK
  BY <1>1, <1>2, <1>4, <1>5
<1>7. QED
  BY <1>2, <1>6 DEF Y

LEMMA CoversFindBest ==
  ASSUME NEW rows \in SUBSET Rows, IsFiniteSet(rows), NEW topK \in Nat \ {0}, NEW hits,
         Covers(hits, rows, topK), NEW l,
         l.topK = topK, l.rows = rows, l.answer = DedupeBest(hits, topK)
  PROVE  FindsBest(l)
<1> DEFINE best == BestPerDoc(hits)
           n == Cardinality(best)
           seq == SortedBy(best, Better)
           m == Smaller(topK, n)
           answer == DedupeBest(hits, topK)
           before == BetterIn(best)
<1>1. /\ hits \in Seq(Rows) /\ OneEach(best) /\ IsFiniteSet(best) /\ best \in SUBSET Rows
      /\ \A b \in best : b \in rows
      /\ \A i \in DOMAIN hits : \E b \in best : b.doc = hits[i].doc /\ b.score >= hits[i].score
  BY BestPerDocIs DEF Covers, OneEach
<1>2. IsOrder(best, before) /\ Sorts(seq, best, before)
  BY <1>1, BestFirst
<1>3. /\ n \in Nat /\ seq \in [1 .. n -> best] /\ seq \in Seq(best) /\ Len(seq) = n
      /\ \A x \in best : \E p \in 1 .. n : seq[p] = x
      /\ \A p \in 1 .. n : Cardinality(before[seq[p]]) = p - 1
      /\ \A p, q \in 1 .. n : p < q => seq[p] \in before[seq[q]]
  <2> HIDE DEF best, seq, n, before
  <2>1. n \in Nat /\ seq \in [1 .. n -> best]
    BY <1>2 DEF Sorts, n
  <2>2. seq \in Seq(best) /\ Len(seq) = n
    BY <2>1
  <2>3. QED
    BY <1>2, <2>1, <2>2 DEF Sorts, n
<1>4. /\ m \in Nat /\ m <= topK /\ m <= n /\ (m = topK \/ m = n) /\ (n >= topK => m = topK)
      /\ (n < topK => m = n)
  BY <1>3 DEF Smaller
<1>5. /\ answer \in Seq(best) /\ Len(answer) = m /\ DOMAIN answer = 1 .. m
      /\ \A i \in 1 .. m : i \in 1 .. n /\ answer[i] = seq[i] /\ answer[i] \in best
  <2>1. answer = Truncated(seq, topK)
    BY DEF DedupeBest
  <2> HIDE DEF seq, best, answer, n
  <2>2. /\ answer \in Seq(best) /\ Len(answer) = m
        /\ \A i \in 1 .. m : i \in 1 .. Len(seq) /\ answer[i] = seq[i]
    <3>1. topK \in Nat /\ seq \in Seq(best) /\ Len(seq) = n
      BY <1>3
    <3> HIDE DEF m
    <3>2. m = Smaller(topK, Len(seq))
      BY <3>1 DEF m
    <3>3. QED
      BY <2>1, <3>1, <3>2, TruncatedIs
  <2> HIDE DEF m
  <2>3. DOMAIN answer = 1 .. m
    BY <2>2, LenProperties
  <2>4. QED
    BY <1>3, <2>2, <2>3
<1>6. /\ \A b \in best : b.doc \in Nat /\ b.score \in Int /\ b = [doc |-> b.doc, score |-> b.score]
      /\ \A r \in rows : r.doc \in Nat /\ r.score \in Int
      /\ \A a, b \in best : a.doc = b.doc => a = b
  BY <1>1, RowIs DEF OneEach
<1>7. \A x, y \in best : x \in before[y] <=> Better(x, y)
  BY DEF BetterIn
<1>8. \A r \in rows : \/ \E b \in best : b.doc = r.doc /\ b.score >= r.score
                      \/ Crowded(hits, topK, r)
  <2> SUFFICES ASSUME NEW r \in rows, Seen(hits, r.doc, r.score)
               PROVE  \E b \in best : b.doc = r.doc /\ b.score >= r.score
    BY DEF Covers
  <2>1. PICK i \in DOMAIN hits : hits[i].doc = r.doc /\ hits[i].score >= r.score
    BY DEF Seen
  <2>2. PICK b \in best : b.doc = hits[i].doc /\ b.score >= hits[i].score
    BY <1>1
  <2>3. hits[i].score \in Int
    BY <1>1, LenProperties, ElementOfSeq, RowIs
  <2>4. QED
    BY <1>6, <2>1, <2>2, <2>3
<1> DEFINE Crowd(r) == {b \in best : b.score >= r.score /\ b.doc # r.doc}
<1>9. \A r \in rows : Crowded(hits, topK, r) =>
        IsFiniteSet(Crowd(r)) /\ Cardinality(Crowd(r)) >= topK /\ Cardinality(Crowd(r)) \in Nat
  BY <1>1, CrowdIsBetter, FS_CardinalityType
<1> HIDE DEF best, n, seq, m, answer, before
\* Who is in the crowd's way stands behind topK others.
<1>10. ASSUME NEW r \in rows, Crowded(hits, topK, r), NEW p \in 1 .. n, r.score > seq[p].score
       PROVE  p > topK
  <2>1. Crowd(r) \in SUBSET before[seq[p]]
    <3> SUFFICES ASSUME NEW b \in best, b.score >= r.score PROVE b \in before[seq[p]]
      OBVIOUS
    <3>1. seq[p] \in best
      BY <1>3
    <3>2. b.score \in Int /\ r.score \in Int /\ seq[p].score \in Int
      BY <1>6, <3>1
    <3>3. b.score > seq[p].score
      BY <1>10, <3>2
    <3>4. QED
      BY <1>7, <3>1, <3>3 DEF Better
  <2>2. before[seq[p]] \in SUBSET best
    BY <1>2, <1>3 DEF IsOrder
  <2>3. IsFiniteSet(before[seq[p]]) /\ Cardinality(before[seq[p]]) = p - 1
    BY <1>1, <1>3, <2>2, FS_Subset
  <2>4. Cardinality(Crowd(r)) <= p - 1
    <3> HIDE DEF Crowd
    <3>1. QED
      BY <2>1, <2>3, FS_Subset
  <2>5. /\ Cardinality(Crowd(r)) >= topK /\ Cardinality(Crowd(r)) \in Nat
        /\ n \in Nat /\ p \in 1 .. n
    BY <1>3, <1>9, <1>10
  <2>6. QED
    BY <2>4, <2>5
<1> HIDE DEF Crowd
\* With fewer documents than asked for, none is missing.
<1>11. ASSUME n < topK, NEW r \in rows PROVE \E b \in best : b.doc = r.doc /\ b.score >= r.score
  <2>1. ~Crowded(hits, topK, r)
    <3> SUFFICES ASSUME Crowded(hits, topK, r) PROVE FALSE
      OBVIOUS
    <3>1. Crowd(r) \in SUBSET best
      BY DEF Crowd
    <3>2. Cardinality(Crowd(r)) <= n
      BY <1>1, <3>1, FS_Subset DEF n
    <3>3. QED
      BY <1>3, <1>9, <1>11, <3>2
  <2>2. QED
    BY <1>8, <2>1
<1>12. Len(answer) = Smaller(topK, Cardinality({r.doc : r \in rows}))
  <2> DEFINE T == {r.doc : r \in rows}
             B == {b.doc : b \in best}
  <2>1. IsFiniteSet(T) /\ Cardinality(T) \in Nat
    BY DocsOfRows, FS_CardinalityType
  <2>2. Cardinality(B) = n
    BY <1>1, <1>6, DocsOfRows DEF n
  <2>3. B \in SUBSET T
    BY <1>1
  <2>4. n < topK => B = T
    BY <1>11, <2>3
  <2> HIDE DEF B, T
  <2>5. n <= Cardinality(T)
    BY <2>1, <2>2, <2>3, FS_Subset
  <2>6. n < topK => Cardinality(T) = n
    BY <2>2, <2>4
  <2>7. QED
    BY <1>3, <1>4, <1>5, <2>1, <2>5, <2>6 DEF Smaller, T
<1>13. ASSUME NEW i \in 1 .. m, NEW o \in rows, o.doc = answer[i].doc
       PROVE  answer[i].score >= o.score
  <2>1. answer[i] = seq[i] /\ seq[i] \in best /\ i \in 1 .. n /\ i <= topK
    BY <1>4, <1>5
  <2>2. CASE Crowded(hits, topK, o)
    BY <1>4, <1>6, <1>10, <2>1, <2>2
  <2>3. CASE \E b \in best : b.doc = o.doc /\ b.score >= o.score
    BY <1>6, <1>13, <2>1, <2>3
  <2>4. QED
    BY <1>8, <2>2, <2>3
<1>14. ASSUME NEW r \in rows, \A i \in 1 .. m : answer[i].doc # r.doc
       PROVE  r.score <= answer[Len(answer)].score
  <2>1. ~(n < topK)
    <3> SUFFICES ASSUME n < topK PROVE FALSE
      OBVIOUS
    <3>1. PICK b \in best : b.doc = r.doc
      BY <1>11
    <3>2. PICK p \in 1 .. n : seq[p] = b
      BY <1>3
    <3>3. QED
      BY <1>4, <1>5, <1>14, <3>1, <3>2
  <2>2. m = topK /\ topK \in 1 .. n /\ topK \in 1 .. m
    BY <1>3, <1>4, <2>1
  <2>3. answer[Len(answer)] = seq[topK] /\ seq[topK] \in best
    BY <1>5, <2>2
  <2> SUFFICES ASSUME r.score > seq[topK].score PROVE FALSE
    BY <1>6, <2>3
  <2>4. CASE Crowded(hits, topK, r)
    BY <1>10, <2>2, <2>4
  <2>5. CASE \E b \in best : b.doc = r.doc /\ b.score >= r.score
    <3>1. PICK b \in best : b.doc = r.doc /\ b.score >= r.score
      BY <2>5
    <3>2. PICK p \in 1 .. n : seq[p] = b
      BY <1>3
    <3>3. p \notin 1 .. m
      BY <1>5, <1>14, <3>1, <3>2
    <3>4. topK < p
      BY <1>3, <2>2, <3>3
    <3>5. Better(seq[topK], b)
      BY <1>3, <1>7, <2>2, <2>3, <3>2, <3>4
    <3>6. QED
      BY <1>6, <2>3, <3>1, <3>5 DEF Better
  <2>6. QED
    BY <1>8, <2>4, <2>5
<1>15. \A i \in 1 .. m : [doc |-> answer[i].doc, score |-> answer[i].score] = answer[i] /\ answer[i] \in rows
  BY <1>1, <1>5, <1>6
<1>16. ASSUME NEW i \in 1 .. m, NEW j \in 1 .. i - 1 PROVE Better(answer[j], answer[i])
  <2>1. j \in 1 .. m /\ j < i
    BY <1>4
  <2>2. i \in 1 .. n /\ j \in 1 .. n /\ answer[i] = seq[i] /\ answer[j] = seq[j]
    BY <1>5, <2>1
  <2>3. seq[j] \in before[seq[i]] /\ seq[i] \in best /\ seq[j] \in best
    BY <1>3, <2>1, <2>2
  <2>4. QED
    BY <1>7, <2>2, <2>3
<1> DEFINE top == {r \in rows : \A o \in rows : o.doc = r.doc => r.score >= o.score}
<1>17. \A i \in 1 .. m : answer[i] \in top
  BY <1>13, <1>15
<1>18. l.answer = answer
  BY DEF answer
<1>19. QED
  <2>1. Len(l.answer) = Smaller(l.topK, Cardinality({r.doc : r \in l.rows}))
    BY <1>12, <1>18
  <2>2. \A i \in DOMAIN l.answer :
             /\ [doc |-> l.answer[i].doc, score |-> l.answer[i].score] \in top
             /\ \A j \in 1 .. i - 1 : Better(l.answer[j], l.answer[i])
    BY <1>5, <1>15, <1>16, <1>17, <1>18
  <2>3. \A r \in top :
             (\A i \in DOMAIN l.answer : l.answer[i].doc # r.doc) => r.score <= l.answer[Len(l.answer)].score
    BY <1>5, <1>14, <1>18
  <2>4. top = {r \in l.rows : \A o \in l.rows : o.doc = r.doc => r.score >= o.score}
    OBVIOUS
  <2> HIDE DEF top
  <2>5. QED
    BY <2>1, <2>2, <2>3, <2>4 DEF FindsBest

-------------------------------------------------------------------------------
(* The vector retriever. *)

RowOf(r) == [doc |-> r.doc, score |-> ScoreOf(r.distance)]
TableRows == [shard : Shards, doc : Nat, distance : Int]

LEMMA RowOfIs ==
  /\ \A r \in TableRows : r.doc \in Nat /\ r.distance \in Int /\ RowOf(r) \in Rows
                          /\ RowOf(r).doc = r.doc /\ RowOf(r).score = ScoreOf(r.distance)
  /\ \A a, b \in Int : a <= b => ScoreOf(a) >= ScoreOf(b)
<1>1. \A a \in Int : ScoreOf(a) \in Int
  BY RetrievalConstants DEF ScoreOf
<1>2. \A a, b \in Int : a <= b => ScoreOf(a) >= ScoreOf(b)
  BY RetrievalConstants DEF ScoreOf
<1>3. \A r \in TableRows : r.doc \in Nat /\ r.distance \in Int
  BY DEF TableRows
<1>4. QED
  BY <1>1, <1>2, <1>3 DEF RowOf, Rows

\* The rows of one shard, each with its score.
LEMMA DecodedIs ==
  ASSUME NEW near \in SUBSET TableRows, IsFiniteSet(near),
         \A a, b \in near : a.doc = b.doc => a = b
  PROVE  /\ Decoded(near) \in Seq(Rows)
         /\ \A i \in 1 .. Len(Decoded(near)) : \E r \in near : Decoded(near)[i] = RowOf(r)
         /\ \A r \in near : \E i \in 1 .. Len(Decoded(near)) : Decoded(near)[i] = RowOf(r)
<1> DEFINE before == [x \in near |-> {y \in near : Nearer(y, x)}]
           seq == SortedBy(near, Nearer)
           n == Cardinality(near)
<1>1. IsOrder(near, before)
  <2>1. before \in [near -> SUBSET near] /\ \A s, t \in near : s \in before[t] <=> Nearer(s, t)
    OBVIOUS
  <2>2. /\ \A a \in near : ~Nearer(a, a)
        /\ \A a, b, c \in near : Nearer(a, b) /\ Nearer(b, c) => Nearer(a, c)
        /\ \A a, b \in near : a # b => Nearer(a, b) \/ Nearer(b, a)
    <3>1. \A a \in near : a.doc \in Nat /\ a.distance \in Int
      BY RowOfIs
    <3>2. \A a, b \in near : a # b => a.doc # b.doc
      OBVIOUS
    <3>3. QED
      BY <3>1, <3>2 DEF Nearer
  <2> HIDE DEF before
  <2>3. QED
    BY <2>1, <2>2 DEF IsOrder
<1>2. seq = Sorted(near, before)
  BY DEF SortedBy
<1> HIDE DEF before, seq
<1>3. Sorts(seq, near, before)
  BY <1>1, <1>2, SortedSorts
<1>4. /\ n \in Nat /\ seq \in [1 .. n -> near]
      /\ \A r \in near : \E p \in 1 .. n : seq[p] = r
  BY <1>3 DEF Sorts
<1> HIDE DEF n
<1> DEFINE e(i) == [doc |-> seq[i].doc, score |-> ScoreOf(seq[i].distance)]
           rows == [i \in 1 .. n |-> e(i)]
<1>5. Decoded(near) = rows
  BY <1>4 DEF Decoded, seq
<1>6. \A i \in 1 .. n : e(i) = RowOf(seq[i]) /\ seq[i] \in near /\ e(i) \in Rows
  BY <1>4, RowOfIs DEF RowOf
<1> HIDE DEF e
<1>7. rows \in [1 .. n -> Rows] /\ rows \in Seq(Rows) /\ Len(rows) = n
  BY <1>4, <1>6
<1>8. QED
  BY <1>4, <1>5, <1>6, <1>7

\* What the shards answer stands for what they hold.
LEMMA VectorCovers ==
  ASSUME NEW table \in VectorTables, NEW topK \in Nat \ {0}, NEW nearest \in [Shards -> SUBSET table],
         \A s \in Shards : nearest[s] \in Nearest(OfShard(table, s),
                                                  TopKForShard(Cardinality(OfShard(table, s)), topK))
  PROVE  Covers(FlattenSeq([s \in 1 .. Cardinality(Shards) |-> Decoded(nearest[s])]),
                {RowOf(r) : r \in table}, topK)
<1> DEFINE n == Cardinality(Shards)
           e(s) == Decoded(nearest[s])
           seqs == [s \in 1 .. n |-> e(s)]
           hits == FlattenSeq(seqs)
           rows == {RowOf(r) : r \in table}
<1>1. /\ table \in SUBSET TableRows /\ IsFiniteSet(table)
      /\ \A a, b \in table : (a.shard = b.shard /\ a.doc = b.doc) => a = b
      /\ IsFiniteSet(Shards) /\ Shards = 1 .. n /\ n \in Nat
  BY RetrievalConstants, FS_CardinalityType DEF TableRows
<1> HIDE DEF n
<1>2. \A r \in table : r.shard \in Shards /\ r \in OfShard(table, r.shard)
  BY <1>1 DEF OfShard, TableRows
<1>3. \A s \in Shards :
        /\ OfShard(table, s) \in SUBSET table /\ IsFiniteSet(OfShard(table, s))
        /\ \A a, b \in OfShard(table, s) : a.doc = b.doc => a = b
        /\ Cardinality(OfShard(table, s)) \in Nat
  <2> SUFFICES ASSUME NEW s \in Shards
               PROVE  /\ OfShard(table, s) \in SUBSET table /\ IsFiniteSet(OfShard(table, s))
                      /\ \A a, b \in OfShard(table, s) : a.doc = b.doc => a = b
                      /\ Cardinality(OfShard(table, s)) \in Nat
    OBVIOUS
  <2>1. OfShard(table, s) \in SUBSET table /\ \A a, b \in OfShard(table, s) : a.doc = b.doc => a = b
    BY <1>1 DEF OfShard
  <2>2. QED
    BY <1>1, <2>1, FS_Subset, FS_CardinalityType
<1>4. ASSUME NEW s \in Shards
      PROVE  /\ nearest[s] \in SUBSET TableRows /\ nearest[s] \subseteq OfShard(table, s)
             /\ IsFiniteSet(nearest[s]) /\ \A a, b \in nearest[s] : a.doc = b.doc => a = b
             /\ \A r \in nearest[s], other \in OfShard(table, s) \ nearest[s] : r.distance <= other.distance
             /\ nearest[s] = OfShard(table, s) \/ Cardinality(nearest[s]) = topK
  <2> DEFINE shard == OfShard(table, s)
             near == nearest[s]
  <2>1. /\ near \in SUBSET shard
        /\ Cardinality(near) = TopKForShard(Cardinality(shard), topK)
        /\ \A r \in near, other \in shard \ near : r.distance <= other.distance
    BY DEF Nearest
  <2>2. Cardinality(near) = Cardinality(shard) \/ Cardinality(near) = topK
    BY <2>1 DEF TopKForShard, Smaller
  <2>3. /\ shard \in SUBSET table /\ IsFiniteSet(shard)
        /\ \A a, b \in shard : a.doc = b.doc => a = b
    BY <1>3
  <2> HIDE DEF shard, near
  <2>4. IsFiniteSet(near) /\ (near = shard \/ Cardinality(near) = topK)
    BY <2>1, <2>2, <2>3, FS_Subset
  <2>5. QED
    BY <1>1, <2>1, <2>3, <2>4 DEF shard, near
<1>5. \A s \in 1 .. n :
        /\ e(s) \in Seq(Rows)
        /\ \A i \in 1 .. Len(e(s)) : \E r \in nearest[s] : e(s)[i] = RowOf(r)
        /\ \A r \in nearest[s] : \E i \in 1 .. Len(e(s)) : e(s)[i] = RowOf(r)
  BY <1>1, <1>4, DecodedIs
<1> HIDE DEF e
<1>6. seqs \in [1 .. n -> Seq(Rows)] /\ \A s \in 1 .. n : seqs[s] = e(s)
  BY <1>5
<1> HIDE DEF seqs
\* Flattened, nothing is lost and nothing comes from elsewhere.
<1>7. /\ hits \in Seq(Rows)
      /\ \A i \in DOMAIN hits : \E s \in Shards : \E r \in nearest[s] : hits[i] = RowOf(r)
      /\ \A s \in Shards : \A r \in nearest[s] : \E i \in DOMAIN hits : hits[i] = RowOf(r)
  <2>1. CASE n = 0
    <3>1. Shards = {} /\ Len(seqs) = 0 /\ seqs \in Seq(Rows) /\ DOMAIN seqs = {}
      <4>1. Shards = {}
        BY <1>1, <2>1
      <4>2. seqs = <<>>
        BY <1>6, <2>1
      <4>3. QED
        BY <4>1, <4>2, EmptySeq
    <3>2. hits = seqs
      BY <3>1 DEF FlattenSeq
    <3>3. QED
      BY <3>1, <3>2
  <2>2. CASE n # 0
    <3>1. hits \in Seq(Rows) /\ \E b \in [1 .. n -> Nat] : Concatenated(seqs, n, hits, b)
      BY <1>1, <1>6, <2>2, Concatenation
    <3>2. PICK begins \in [1 .. n -> Nat] : Concatenated(seqs, n, hits, begins)
      BY <3>1
    <3> HIDE DEF hits
    <3>3. Len(hits) \in Nat /\ DOMAIN hits = 1 .. Len(hits)
      BY <3>1, LenProperties
    <3>4. \A s \in 1 .. n : Len(seqs[s]) \in Nat
      BY <1>6, LenProperties
    <3>5. ASSUME NEW i \in DOMAIN hits PROVE \E s \in Shards : \E r \in nearest[s] : hits[i] = RowOf(r)
      <4>1. PICK s \in 1 .. n : \E q \in 1 .. Len(seqs[s]) : i = begins[s] + q
        BY <3>2, <3>3 DEF Concatenated
      <4>2. PICK q \in 1 .. Len(seqs[s]) : i = begins[s] + q
        BY <4>1
      <4>3. q \in Nat
        BY <3>4
      <4>4. hits[i] = seqs[s][q]
        BY <3>2, <4>2, <4>3 DEF Concatenated
      <4>5. QED
        BY <1>1, <1>5, <1>6, <4>4
    <3>6. ASSUME NEW s \in Shards, NEW r \in nearest[s] PROVE \E i \in DOMAIN hits : hits[i] = RowOf(r)
      <4>1. s \in 1 .. n
        BY <1>1
      <4>2. PICK q \in 1 .. Len(seqs[s]) : seqs[s][q] = RowOf(r)
        BY <1>5, <1>6, <4>1
      <4>3. q \in Nat
        BY <3>4, <4>1
      <4> DEFINE i == begins[s] + q
      <4>4. i \in 1 .. Len(hits) /\ hits[i] = seqs[s][q]
        BY <3>2, <4>1, <4>3 DEF Concatenated
      <4> HIDE DEF i
      <4>5. QED
        BY <3>3, <4>2, <4>4
    <3>7. QED
      BY <3>1, <3>5, <3>6
  <2>3. QED
    BY <2>1, <2>2
<1> HIDE DEF hits
<1>8. \A i \in DOMAIN hits : hits[i] \in rows
  BY <1>7
<1>9. ASSUME NEW row \in rows PROVE Seen(hits, row.doc, row.score) \/ Crowded(hits, topK, row)
  <2>1. PICK r \in table : row = RowOf(r)
    OBVIOUS
  <2> DEFINE s == r.shard
  <2>2. s \in Shards /\ r \in OfShard(table, s) /\ r \in TableRows
    BY <1>1, <1>2
  <2>3. row.doc = r.doc /\ row.score = ScoreOf(r.distance) /\ row.score \in Int /\ r.distance \in Int
    BY <2>1, <2>2, RowOfIs, RowIs
  <2> HIDE DEF s, rows
  <2>4. CASE r \in nearest[s]
    <3>1. PICK i \in DOMAIN hits : hits[i] = RowOf(r)
      BY <1>7, <2>2, <2>4
    <3>2. QED
      BY <2>1, <2>3, <3>1 DEF Seen
  <2>5. CASE r \notin nearest[s]
    <3> DEFINE near == nearest[s]
               docs == {a.doc : a \in near}
    <3>1. /\ near \in SUBSET TableRows /\ near \subseteq OfShard(table, s) /\ IsFiniteSet(near)
          /\ \A a, b \in near : a.doc = b.doc => a = b
          /\ \A a \in near : a.distance <= r.distance
          /\ Cardinality(near) = topK
      BY <1>4, <2>2, <2>5
    <3> HIDE DEF near
    <3>2. IsFiniteSet(docs) /\ Cardinality(docs) >= topK
      BY <3>1, DocsOfRows
    <3>3. row.doc \notin docs
      BY <1>3, <2>2, <2>3, <2>5, <3>1 DEF near
    <3>4. ASSUME NEW d \in docs PROVE Seen(hits, d, row.score)
      <4>1. PICK a \in near : a.doc = d
        OBVIOUS
      <4>2. PICK i \in DOMAIN hits : hits[i] = RowOf(a)
        BY <1>7, <2>2 DEF near
      <4>3. a \in TableRows /\ a.distance <= r.distance
        BY <3>1
      <4>4. hits[i].doc = d /\ hits[i].score >= row.score
        BY <2>3, <4>1, <4>2, <4>3, RowOfIs
      <4>5. QED
        BY <4>4 DEF Seen
    <3> HIDE DEF docs
    <3>5. QED
      BY <3>2, <3>3, <3>4 DEF Crowded
  <2>6. QED
    BY <2>4, <2>5
<1> HIDE DEF rows
<1>10. Covers(hits, rows, topK)
  BY <1>7, <1>8, <1>9 DEF Covers
<1>11. QED
  BY <1>10 DEF hits, seqs, e, rows, n

LEMMA LookupVectorFindsBest == LookupVector => lookup'.of = "vector" /\ FindsBest(lookup')
<1> SUFFICES ASSUME LookupVector PROVE lookup'.of = "vector" /\ FindsBest(lookup')
  OBVIOUS
<1> DEFINE Answers(table, topK, nearest) ==
        /\ \A s \in Shards : nearest[s] \in Nearest(OfShard(table, s),
                                                TopKForShard(Cardinality(OfShard(table, s)), topK))
        /\ lookup' = [of |-> "vector", topK |-> topK,
                      rows |-> {[doc |-> r.doc, score |-> ScoreOf(r.distance)] : r \in table},
                      answer |-> VectorSearch(nearest, topK)]
<1>0. PICK table \in VectorTables, topK \in TopKs :
        \E nearest \in [Shards -> SUBSET table] : Answers(table, topK, nearest)
  BY DEF LookupVector
<1>1. PICK nearest \in [Shards -> SUBSET table] : Answers(table, topK, nearest)
  BY <1>0
<1> DEFINE rows == {RowOf(r) : r \in table}
           hits == FlattenSeq([s \in 1 .. Cardinality(Shards) |-> Decoded(nearest[s])])
           l == lookup'
<1>2. topK \in Nat \ {0}
  BY RetrievalConstants
<1>3. rows = {[doc |-> r.doc, score |-> ScoreOf(r.distance)] : r \in table}
  BY DEF RowOf
<1>4. Covers(hits, rows, topK)
  BY <1>1, <1>2, VectorCovers
<1>5. rows \in SUBSET Rows /\ IsFiniteSet(rows)
  <2> DEFINE f == [r \in table |-> RowOf(r)]
  <2>1. table \in SUBSET TableRows /\ IsFiniteSet(table)
    BY RetrievalConstants DEF TableRows
  <2>2. f \in Surjection(table, rows)
    BY DEF Surjection
  <2>3. rows \in SUBSET Rows
    BY <2>1, RowOfIs
  <2> HIDE DEF f, rows
  <2>4. QED
    BY <2>1, <2>2, <2>3, FS_Surjection
<1>6. VectorSearch(nearest, topK) = DedupeBest(hits, topK)
  BY DEF VectorSearch
<1> HIDE DEF hits, rows
<1>7. l.of = "vector" /\ l.topK = topK /\ l.rows = rows /\ l.answer = DedupeBest(hits, topK)
  BY <1>1, <1>3, <1>6
<1> HIDE DEF l
<1>8. FindsBest(l)
  BY <1>2, <1>4, <1>5, <1>7, CoversFindBest
<1>9. QED
  BY <1>7, <1>8 DEF l

-------------------------------------------------------------------------------
(* The keyword retriever. *)

Found(matches, topK, limit) == DedupeBest(Truncated(matches, limit), topK)
FoundAll(matches, maxDocs, topK, limit) ==
  Len(Found(matches, topK, limit)) >= topK \/ limit >= maxDocs

\* The loop ends with a limit that leaves out nothing.
LEMMA KeywordLoop ==
  ASSUME NEW matches, NEW maxDocs \in Nat, NEW topK \in Nat \ {0}
  PROVE  \E limit \in 1 .. maxDocs + 1 :
           /\ KeywordSearch(matches, maxDocs, topK) = Found(matches, topK, limit)
           /\ FoundAll(matches, maxDocs, topK, limit)
<1> DEFINE N == maxDocs + 1
           R(limit) == Found(matches, topK, limit)
           Done(limit) == FoundAll(matches, maxDocs, topK, limit)
           Wider(limit) == Smaller(2 * limit, maxDocs)
           Step(f) == [limit \in 1 .. N |-> IF Done(limit) THEN R(limit) ELSE f[Wider(limit)]]
           start == Smaller(topK, IF maxDocs = 0 THEN 1 ELSE maxDocs)
           c == CHOOSE f : f = Step(f)
<1>1. KeywordSearch(matches, maxDocs, topK) = c[start]
  BY DEF KeywordSearch, Found, FoundAll
<1>2. start \in 1 .. N
  BY DEF Smaller
<1>3. \A limit \in 1 .. N : ~Done(limit) => Wider(limit) \in limit + 1 .. N
  BY DEF Smaller, FoundAll
<1> HIDE DEF R, Done, Wider, start
<1>4. \E f : f = Step(f)
  <2> DEFINE Right(k, f) == \A limit \in 1 .. N : limit >= k =>
               f[limit] = IF Done(limit) THEN R(limit) ELSE f[Wider(limit)]
             Bad == {k \in 0 .. N + 1 : ~ \E f : Right(k, f)}
  <2>1. Bad = {}
    <3> SUFFICES ASSUME Bad # {} PROVE FALSE
      OBVIOUS
    <3>1. PICK k \in Bad : \A j \in Bad : j <= k
      <4>1. N + 1 \in Nat /\ Bad \in SUBSET (0 .. N + 1)
        OBVIOUS
      <4> HIDE DEF Bad, N
      <4>2. QED
        BY <4>1, GreatestNatural
    <3>2. k \in 0 .. N + 1 /\ ~ \E f : Right(k, f)
      OBVIOUS
    <3>3. k # N + 1
      <4>1. Right(N + 1, <<>>)
        OBVIOUS
      <4>2. QED
        BY <3>2, <4>1
    <3>4. k + 1 \in 0 .. N + 1 /\ ~(k + 1 <= k)
      BY <3>2, <3>3
    <3>5. PICK f : Right(k + 1, f)
      BY <3>1, <3>4
    <3> DEFINE h == Step(f)
    <3>6. ASSUME NEW limit \in 1 .. N, limit >= k
          PROVE  h[limit] = IF Done(limit) THEN R(limit) ELSE h[Wider(limit)]
      <4>1. CASE Done(limit)
        BY <4>1
      <4>2. CASE ~Done(limit)
        <5> DEFINE w == Wider(limit)
        <5>1. w \in 1 .. N /\ w >= k + 1
          BY <1>3, <3>2, <3>6, <4>2
        <5> HIDE DEF w
        <5>2. h[w] = f[w]
          BY <3>5, <5>1
        <5>3. h[limit] = f[w]
          BY <4>2 DEF w
        <5>4. QED
          BY <4>2, <5>2, <5>3 DEF w
      <4>3. QED
        BY <4>1, <4>2
    <3>7. Right(k, h)
      BY <3>6
    <3>8. QED
      BY <3>2, <3>7
  <2>2. PICK f : Right(0, f)
    <3>1. 0 \in 0 .. N + 1
      OBVIOUS
    <3> HIDE DEF Right
    <3>2. QED
      BY <2>1, <3>1
  <2> DEFINE g == [limit \in 1 .. N |-> f[limit]]
  <2>3. \A limit \in 1 .. N : g[limit] = IF Done(limit) THEN R(limit) ELSE g[Wider(limit)]
    <3> SUFFICES ASSUME NEW limit \in 1 .. N
                 PROVE  g[limit] = IF Done(limit) THEN R(limit) ELSE g[Wider(limit)]
      OBVIOUS
    <3>1. g[limit] = IF Done(limit) THEN R(limit) ELSE f[Wider(limit)]
      BY <2>2
    <3>2. ~Done(limit) => g[Wider(limit)] = f[Wider(limit)]
      BY <1>3
    <3>3. QED
      BY <3>1, <3>2
  <2>4. g = Step(g)
    BY <2>3
  <2>5. QED
    BY <2>4
<1>5. c = Step(c)
  BY <1>4, Zenon
<1> HIDE DEF c
<1>6. \A limit \in 1 .. N : c[limit] = IF Done(limit) THEN R(limit) ELSE c[Wider(limit)]
  BY <1>5
<1> DEFINE Ends(limit) == \E last \in 1 .. N : c[limit] = R(last) /\ Done(last)
           Bad == {limit \in 1 .. N : ~Ends(limit)}
<1>7. Bad = {}
  <2> SUFFICES ASSUME Bad # {} PROVE FALSE
    OBVIOUS
  <2>1. PICK k \in Bad : \A j \in Bad : j <= k
    <3>1. N \in Nat /\ Bad \in SUBSET (0 .. N)
      OBVIOUS
    <3> HIDE DEF Bad, N
    <3>2. QED
      BY <3>1, GreatestNatural
  <2>2. k \in 1 .. N /\ ~Ends(k)
    OBVIOUS
  <2>3. ~Done(k)
    BY <1>6, <2>2
  <2>4. Wider(k) \in 1 .. N /\ ~(Wider(k) <= k)
    BY <1>3, <2>2, <2>3
  <2>5. Ends(Wider(k))
    BY <2>1, <2>4
  <2>6. c[k] = c[Wider(k)]
    BY <1>6, <2>2, <2>3
  <2>7. QED
    BY <2>2, <2>5, <2>6
<1>8. Ends(start)
  BY <1>2, <1>7
<1>9. PICK last \in 1 .. N : c[start] = R(last) /\ Done(last)
  BY <1>8
<1>10. QED
  BY <1>1, <1>9 DEF R, Done

\* What is found with that limit stands for all matches.
LEMMA KeywordCovers ==
  ASSUME NEW matches \in Matches, NEW maxDocs \in Nat, Len(matches) <= maxDocs,
         NEW topK \in Nat \ {0}, NEW limit \in 1 .. maxDocs + 1,
         FoundAll(matches, maxDocs, topK, limit)
  PROVE  Covers(Truncated(matches, limit), ToSet(matches), topK)
<1> DEFINE hits == Truncated(matches, limit)
           m == Smaller(limit, Len(matches))
           best == BestPerDoc(hits)
           n == Cardinality(best)
<1>1. /\ matches \in Seq(Rows) /\ Len(matches) \in Nat /\ DOMAIN matches = 1 .. Len(matches)
      /\ \A i \in 1 .. Len(matches) : matches[i] \in Rows
      /\ \A i, j \in 1 .. Len(matches) : i < j => matches[i].score >= matches[j].score
  <2>1. matches \in Seq(Rows)
    BY RetrievalConstants DEF Rows
  <2>2. Len(matches) \in Nat /\ DOMAIN matches = 1 .. Len(matches)
    BY <2>1, LenProperties
  <2>3. QED
    BY <2>1, <2>2, ElementOfSeq, RetrievalConstants
<1>2. /\ hits \in Seq(Rows) /\ Len(hits) = m /\ DOMAIN hits = 1 .. m
      /\ \A i \in 1 .. m : i \in 1 .. Len(matches) /\ hits[i] = matches[i]
  <2>1. limit \in Nat
    OBVIOUS
  <2>2. /\ hits \in Seq(Rows) /\ Len(hits) = m
        /\ \A i \in 1 .. m : i \in 1 .. Len(matches) /\ hits[i] = matches[i]
    BY <1>1, <2>1, TruncatedIs
  <2> HIDE DEF hits, m
  <2>3. QED
    BY <2>2, LenProperties
<1>3. m \in Nat /\ (m = limit \/ m = Len(matches))
  BY <1>1 DEF Smaller
<1>4. /\ OneEach(best) /\ n \in Nat
      /\ \A b \in best : \E i \in 1 .. m : b = hits[i]
      /\ \A i \in 1 .. m : \E b \in best : b.doc = hits[i].doc
  BY <1>2, BestPerDocIs, FS_CardinalityType DEF OneEach
<1>5. Found(matches, topK, limit) = Truncated(SortedBy(best, Better), topK)
  BY DEF Found, DedupeBest
<1> HIDE DEF hits, m, best, n
<1>6. Len(Found(matches, topK, limit)) = Smaller(topK, n)
  <2> DEFINE seq == SortedBy(best, Better)
  <2>1. Sorts(seq, best, BetterIn(best))
    BY <1>4, BestFirst
  <2> HIDE DEF seq
  <2>2. n \in Nat /\ seq \in [1 .. n -> best]
    BY <2>1 DEF Sorts, n
  <2>3. seq \in Seq(best) /\ Len(seq) = n
    BY <2>2
  <2>4. QED
    BY <1>5, <2>3, TruncatedIs DEF seq
<1>7. \A i \in DOMAIN hits : hits[i] \in ToSet(matches)
  BY <1>1, <1>2 DEF ToSet
<1>8. ASSUME NEW r \in ToSet(matches) PROVE Seen(hits, r.doc, r.score) \/ Crowded(hits, topK, r)
  <2>1. PICK j \in 1 .. Len(matches) : r = matches[j]
    BY <1>1 DEF ToSet
  <2>2. r \in Rows /\ r.score \in Int /\ j \in Nat
    BY <1>1, <2>1, RowIs
  <2>3. CASE j <= m
    <3>1. j \in DOMAIN hits /\ hits[j] = r
      BY <1>2, <2>1, <2>3
    <3>2. QED
      BY <2>2, <3>1 DEF Seen
  <2>4. CASE ~(j <= m)
    <3>1. m = limit /\ m < Len(matches) /\ ~(limit >= maxDocs)
      <4>1. j \in 1 .. Len(matches) /\ Len(matches) \in Nat /\ Len(matches) <= maxDocs
        BY <1>1
      <4>2. QED
        BY <1>3, <2>4, <4>1
    <3>2. n >= topK
      BY <1>4, <1>6, <3>1 DEF FoundAll, Smaller
    <3>3. ASSUME NEW i \in 1 .. m PROVE i \in DOMAIN hits /\ hits[i].score >= r.score
      <4>1. i < j /\ i \in 1 .. Len(matches)
        BY <1>2, <1>3, <2>2, <2>4
      <4>2. QED
        BY <1>1, <1>2, <2>1, <4>1
    <3> DEFINE docs == {b.doc : b \in best}
    <3>4. IsFiniteSet(docs) /\ Cardinality(docs) = n
      BY <1>4, DocsOfRows DEF OneEach, n
    <3>5. \A d \in docs : Seen(hits, d, r.score)
      BY <1>4, <3>3 DEF Seen
    <3> HIDE DEF docs
    <3>6. CASE r.doc \in docs
      BY <3>5, <3>6
    <3>7. CASE r.doc \notin docs
      BY <3>2, <3>4, <3>5, <3>7 DEF Crowded
    <3>8. QED
      BY <3>6, <3>7
  <2>5. QED
    BY <2>3, <2>4
<1>9. QED
  BY <1>2, <1>7, <1>8 DEF Covers, hits

LEMMA LookupKeywordFindsBest == LookupKeyword => lookup'.of = "keyword" /\ FindsBest(lookup')
<1> SUFFICES ASSUME LookupKeyword PROVE lookup'.of = "keyword" /\ FindsBest(lookup')
  OBVIOUS
<1>1. PICK matches \in Matches, unmatched \in 0 .. 1, topK \in TopKs :
        lookup' = [of |-> "keyword", topK |-> topK, rows |-> ToSet(matches),
                   answer |-> KeywordSearch(matches, Len(matches) + unmatched, topK)]
  BY DEF LookupKeyword
<1> DEFINE rows == ToSet(matches)
           maxDocs == Len(matches) + unmatched
           l == lookup'
<1>2. topK \in Nat \ {0}
  BY RetrievalConstants
<1>3. matches \in Seq(Rows) /\ Len(matches) \in Nat /\ DOMAIN matches = 1 .. Len(matches)
  <2>1. matches \in Seq(Rows)
    BY RetrievalConstants DEF Rows
  <2>2. QED
    BY <2>1, LenProperties
<1>4. rows \in SUBSET Rows /\ IsFiniteSet(rows)
  <2>1. rows = {matches[i] : i \in 1 .. Len(matches)}
    BY <1>3 DEF ToSet
  <2>2. matches \in Surjection(1 .. Len(matches), rows)
    <3>1. matches = [i \in 1 .. Len(matches) |-> matches[i]]
      BY <1>3, LenProperties
    <3>2. QED
      BY <2>1, <3>1 DEF Surjection
  <2>3. IsFiniteSet(1 .. Len(matches))
    BY <1>3, FS_Interval
  <2>4. rows \in SUBSET Rows
    BY <1>3, <2>1, ElementOfSeq
  <2> HIDE DEF rows
  <2>5. QED
    BY <2>2, <2>3, <2>4, FS_Surjection
<1>5. maxDocs \in Nat /\ Len(matches) <= maxDocs
  BY <1>3
<1> HIDE DEF maxDocs
<1>6. PICK limit \in 1 .. maxDocs + 1 :
        /\ KeywordSearch(matches, maxDocs, topK) = Found(matches, topK, limit)
        /\ FoundAll(matches, maxDocs, topK, limit)
  BY <1>2, <1>5, KeywordLoop
<1>7. Covers(Truncated(matches, limit), rows, topK)
  BY <1>2, <1>5, <1>6, KeywordCovers
<1> HIDE DEF rows
<1>8. /\ l.of = "keyword" /\ l.topK = topK /\ l.rows = rows
      /\ l.answer = DedupeBest(Truncated(matches, limit), topK)
  BY <1>1, <1>6 DEF Found, maxDocs, rows
<1> HIDE DEF l
<1>9. FindsBest(l)
  BY <1>2, <1>4, <1>7, <1>8, CoversFindBest
<1>10. QED
  BY <1>8, <1>9 DEF l

-------------------------------------------------------------------------------
(* The static scan. *)

\* heap is the best topK of S.
IsTop(heap, S, topK) ==
  /\ heap \in SUBSET S /\ Cardinality(heap) = Smaller(topK, Cardinality(S))
  /\ \A x \in heap, y \in S \ heap : Better(x, y)

LEMMA OneEachOfSome ==
  ASSUME NEW U, OneEach(U), NEW S \in SUBSET U
  PROVE  OneEach(S) /\ IsFiniteSet(S) /\ Cardinality(S) \in Nat
BY FS_Subset, FS_CardinalityType DEF OneEach

LEMMA WorstIs ==
  ASSUME NEW heap, OneEach(heap), heap # {}
  PROVE  Worst(heap) \in heap /\ \A x \in heap \ {Worst(heap)} : Better(x, Worst(heap))
<1> DEFINE n == Cardinality(heap)
           before == BetterIn(heap)
           seq == SortedBy(heap, Better)
<1>1. Sorts(seq, heap, before)
  BY BestFirst
<1>2. \A x, y \in heap : x \in before[y] <=> Better(x, y)
  BY DEF BetterIn
<1> HIDE DEF seq, before
<1>3. /\ n \in Nat /\ seq \in [1 .. n -> heap]
      /\ \A x \in heap : \E p \in 1 .. n : seq[p] = x
      /\ \A p, q \in 1 .. n : p < q => Better(seq[p], seq[q])
  <2>1. /\ n \in Nat /\ seq \in [1 .. n -> heap]
        /\ \A x \in heap : \E p \in 1 .. n : seq[p] = x
        /\ \A p, q \in 1 .. n : p < q => seq[p] \in before[seq[q]]
    BY <1>1 DEF Sorts
  <2> HIDE DEF n
  <2>2. \A p \in 1 .. n : seq[p] \in heap
    BY <2>1
  <2>3. QED
    BY <1>2, <2>1, <2>2
<1> HIDE DEF n
<1>4. n \in 1 .. n
  BY <1>3
<1>5. seq[n] \in heap /\ \A x \in heap \ {seq[n]} : Better(x, seq[n])
  <2> SUFFICES ASSUME NEW x \in heap, x # seq[n] PROVE Better(x, seq[n])
    BY <1>3, <1>4
  <2>1. PICK p \in 1 .. n : seq[p] = x
    BY <1>3
  <2>2. p < n
    BY <1>3, <2>1
  <2>3. QED
    BY <1>3, <1>4, <2>1, <2>2
<1>6. QED
  BY <1>5 DEF Worst

\* push_bounded keeps the best.
LEMMA PushTop ==
  ASSUME NEW S, NEW c, c \notin S, OneEach(S \cup {c}), NEW topK \in Nat \ {0},
         NEW heap, IsTop(heap, S, topK)
  PROVE  IsTop(PushBounded(heap, c, topK), S \cup {c}, topK)
<1> DEFINE U == S \cup {c}
           n == Cardinality(S)
           w == Worst(heap)
           swapped == (heap \ {w}) \cup {c}
<1>1. /\ OneEach(S) /\ OneEach(heap) /\ IsFiniteSet(S) /\ IsFiniteSet(heap)
      /\ n \in Nat /\ Cardinality(heap) \in Nat /\ heap \in SUBSET S
  BY OneEachOfSome DEF IsTop
<1>2. /\ \A x, y \in U : x # y => Better(x, y) \/ Better(y, x)
      /\ \A x, y, z \in U : Better(x, y) /\ Better(y, z) => Better(x, z)
  BY BetterIsOrder
<1>3. Cardinality(U) = n + 1
  BY <1>1, FS_AddElement
<1>4. Cardinality(heap) = Smaller(topK, n) /\ \A x \in heap, y \in S \ heap : Better(x, y)
  BY DEF IsTop
<1> HIDE DEF n
<1>5. CASE Cardinality(heap) < topK
  <2>1. Cardinality(heap) = n /\ n < topK
    BY <1>1, <1>4, <1>5 DEF Smaller
  <2>2. heap = S
    BY <1>1, <2>1, FS_Subset DEF n
  <2>3. PushBounded(heap, c, topK) = U
    BY <1>5, <2>2 DEF PushBounded
  <2>4. Cardinality(U) = Smaller(topK, Cardinality(U))
    BY <1>1, <1>3, <2>1 DEF Smaller
  <2>5. QED
    BY <2>3, <2>4 DEF IsTop
<1>6. CASE ~(Cardinality(heap) < topK)
  <2>1. Cardinality(heap) = topK /\ topK <= n
    BY <1>1, <1>4, <1>6 DEF Smaller
  <2>2. heap # {}
    BY <2>1, FS_EmptySet
  <2>3. w \in heap /\ \A x \in heap \ {w} : Better(x, w)
    BY <1>1, <2>2, WorstIs
  <2>4. Smaller(topK, Cardinality(U)) = topK
    BY <1>1, <1>3, <2>1 DEF Smaller
  <2> HIDE DEF w
  <2>5. c \in U /\ w \in U /\ c # w /\ c \notin heap
    BY <1>1, <2>3
  <2>6. CASE Better(c, w)
    <3>1. PushBounded(heap, c, topK) = swapped
      BY <1>6, <2>6 DEF PushBounded, w
    <3>2. Cardinality(swapped) = topK
      <4>1. IsFiniteSet(heap \ {w}) /\ Cardinality(heap \ {w}) = topK - 1 /\ c \notin heap \ {w}
        BY <1>1, <2>1, <2>3, <2>5, FS_RemoveElement
      <4>2. Cardinality(swapped) = topK - 1 + 1
        BY <4>1, FS_AddElement
      <4>3. QED
        BY <4>2
    <3>3. swapped \in SUBSET U
      BY <1>1
    <3>4. ASSUME NEW x \in swapped, NEW y \in U \ swapped PROVE Better(x, y)
      <4>1. x \in U /\ y \in S /\ (x = c \/ (x \in heap /\ Better(x, w)))
        BY <1>1, <2>3
      <4>2. y = w \/ y \notin heap
        OBVIOUS
      <4>3. y = w \/ Better(w, y)
        BY <1>4, <2>3, <4>1, <4>2
      <4>4. Better(x, w)
        BY <2>6, <4>1
      <4>5. QED
        BY <1>2, <2>5, <4>1, <4>3, <4>4
    <3> HIDE DEF swapped, U
    <3>5. QED
      BY <2>4, <3>1, <3>2, <3>3, <3>4 DEF IsTop, U
  <2>7. CASE ~Better(c, w)
    <3>1. PushBounded(heap, c, topK) = heap
      BY <1>6, <2>7 DEF PushBounded, w
    <3>2. Better(w, c)
      BY <1>2, <2>5, <2>7
    <3>3. ASSUME NEW x \in heap, NEW y \in U \ heap PROVE Better(x, y)
      <4>1. x \in U /\ (x = w \/ Better(x, w))
        BY <1>1, <2>3
      <4>2. CASE y = c
        BY <1>2, <2>5, <3>2, <4>1, <4>2
      <4>3. CASE y # c
        BY <1>4, <4>3
      <4>4. QED
        BY <4>2, <4>3
    <3>4. heap \in SUBSET U
      BY <1>1
    <3> HIDE DEF U
    <3>5. QED
      BY <2>1, <2>4, <3>1, <3>3, <3>4 DEF IsTop, U
  <2>8. QED
    BY <2>6, <2>7
<1>7. QED
  BY <1>5, <1>6

\* Pushed, one candidate at a time.
PushesOf(after, heap, run, topK) ==
  /\ after[0] = heap
  /\ \A i \in 1 .. Len(run) : after[i] = PushBounded(after[i - 1], run[i], topK)
  /\ Pushed(heap, run, topK) = after[Len(run)]

LEMMA PushedSteps ==
  ASSUME NEW heap, NEW run, Len(run) \in Nat, NEW topK
  PROVE  \E after : PushesOf(after, heap, run, topK)
<1> DEFINE n == Len(run)
           Step(f) == [i \in 0 .. n |-> IF i = 0 THEN heap ELSE PushBounded(f[i - 1], run[i], topK)]
           c == CHOOSE f : f = Step(f)
<1> HIDE DEF n
<1>0. n \in Nat
  BY DEF n
<1>1. \E f : f = Step(f)
  <2> DEFINE Right(k, f) == \A i \in 0 .. n : i <= k =>
               f[i] = IF i = 0 THEN heap ELSE PushBounded(f[i - 1], run[i], topK)
             Bad == {k \in Nat : ~ \E f : Right(k, f)}
  <2>1. Bad = {}
    <3> SUFFICES ASSUME Bad # {} PROVE FALSE
      OBVIOUS
    <3>1. PICK k \in Bad : \A j \in Bad : k <= j
      <4>1. Bad \in SUBSET Nat
        OBVIOUS
      <4> HIDE DEF Bad
      <4>2. QED
        BY <4>1, LeastNatural
    <3>2. k \in Nat /\ ~ \E f : Right(k, f)
      OBVIOUS
    <3>3. k # 0
      <4>1. Right(0, [i \in 0 .. n |-> heap])
        BY <1>0
      <4>2. QED
        BY <3>2, <4>1
    <3>4. k - 1 \in Nat /\ ~(k <= k - 1)
      BY <3>2, <3>3
    <3>5. PICK f : Right(k - 1, f)
      BY <3>1, <3>4
    <3> DEFINE h == Step(f)
    <3>6. ASSUME NEW i \in 0 .. n, i <= k
          PROVE  h[i] = IF i = 0 THEN heap ELSE PushBounded(h[i - 1], run[i], topK)
      <4>1. CASE i = 0
        BY <4>1
      <4>2. CASE i # 0
        <5> DEFINE j == i - 1
        <5>1. j \in 0 .. n /\ j <= k - 1
          BY <1>0, <3>2, <3>6, <4>2
        <5> HIDE DEF j
        <5>2. h[j] = f[j]
          BY <3>5, <5>1
        <5>3. h[i] = PushBounded(f[j], run[i], topK)
          BY <4>2 DEF j
        <5>4. QED
          BY <4>2, <5>2, <5>3 DEF j
      <4>3. QED
        BY <4>1, <4>2
    <3>7. Right(k, h)
      BY <3>6
    <3>8. QED
      BY <3>2, <3>7
  <2>2. PICK f : Right(n, f)
    <3> HIDE DEF Right
    <3>1. QED
      BY <1>0, <2>1
  <2> DEFINE g == [i \in 0 .. n |-> f[i]]
  <2>3. \A i \in 0 .. n : g[i] = IF i = 0 THEN heap ELSE PushBounded(g[i - 1], run[i], topK)
    <3> SUFFICES ASSUME NEW i \in 0 .. n
                 PROVE  g[i] = IF i = 0 THEN heap ELSE PushBounded(g[i - 1], run[i], topK)
      OBVIOUS
    <3>1. f[i] = IF i = 0 THEN heap ELSE PushBounded(f[i - 1], run[i], topK)
      BY <1>0, <2>2
    <3>2. i # 0 => g[i - 1] = f[i - 1]
      BY <1>0
    <3>3. QED
      BY <3>1, <3>2
  <2>4. g = Step(g)
    BY <2>3
  <2>5. QED
    BY <2>4
<1>2. c = Step(c)
  BY <1>1, Zenon
<1>3. Pushed(heap, run, topK) = c[n]
  BY DEF Pushed, n
<1> HIDE DEF c
<1>4. c[0] = heap /\ \A i \in 1 .. n : c[i] = PushBounded(c[i - 1], run[i], topK)
  <2>1. \A i \in 0 .. n : c[i] = IF i = 0 THEN heap ELSE PushBounded(c[i - 1], run[i], topK)
    BY <1>2
  <2>2. 0 \in 0 .. n /\ \A i \in 1 .. n : i \in 0 .. n /\ i # 0
    BY <1>0
  <2>3. QED
    BY <2>1, <2>2
<1>5. PushesOf(c, heap, run, topK)
  BY <1>3, <1>4 DEF n, PushesOf
<1>6. QED
  BY <1>5

\* A run of candidates, none of them twice and none of them pushed before.
LEMMA PushedTop ==
  ASSUME NEW U, OneEach(U), NEW S \in SUBSET U, NEW run \in Seq(U),
         \A i, j \in 1 .. Len(run) : run[i] = run[j] => i = j,
         \A i \in 1 .. Len(run) : run[i] \notin S,
         NEW topK \in Nat \ {0}, NEW heap, IsTop(heap, S, topK)
  PROVE  IsTop(Pushed(heap, run, topK), S \cup {run[i] : i \in 1 .. Len(run)}, topK)
<1> DEFINE n == Len(run)
           Upto(k) == S \cup {run[i] : i \in 1 .. k}
<1>1. n \in Nat /\ \A i \in 1 .. n : run[i] \in U
  BY LenProperties, ElementOfSeq
<1> HIDE DEF n
<1>2. PICK after : /\ after[0] = heap
                   /\ \A i \in 1 .. n : after[i] = PushBounded(after[i - 1], run[i], topK)
                   /\ Pushed(heap, run, topK) = after[n]
  <2>1. PICK after : PushesOf(after, heap, run, topK)
    <3>1. Len(run) \in Nat
      BY LenProperties
    <3>2. QED
      BY <3>1, PushedSteps, Zenon
  <2>2. QED
    BY <2>1 DEF n, PushesOf
<1> DEFINE Bad == {k \in 0 .. n : ~IsTop(after[k], Upto(k), topK)}
<1>3. Bad = {}
  <2> SUFFICES ASSUME Bad # {} PROVE FALSE
    OBVIOUS
  <2>1. PICK k \in Bad : \A j \in Bad : k <= j
    <3>1. Bad \in SUBSET Nat
      OBVIOUS
    <3> HIDE DEF Bad
    <3>2. QED
      BY <3>1, LeastNatural
  <2>2. k \in 0 .. n /\ ~IsTop(after[k], Upto(k), topK)
    OBVIOUS
  <2>3. k # 0
    <3>1. Upto(0) = S
      OBVIOUS
    <3> HIDE DEF Upto
    <3>2. IsTop(after[0], Upto(0), topK)
      BY <1>2, <3>1
    <3>3. QED
      BY <2>2, <3>2
  <2>4. k - 1 \in 0 .. n /\ k \in 1 .. n /\ ~(k <= k - 1)
    BY <1>1, <2>2, <2>3
  <2>5. IsTop(after[k - 1], Upto(k - 1), topK)
    BY <2>1, <2>4
  <2> DEFINE c == run[k]
             before == Upto(k - 1)
  <2>6. c \notin before
    <3>1. \A i \in 1 .. k - 1 : i \in 1 .. n /\ i # k
      BY <1>1, <2>4
    <3>2. \A i \in 1 .. k - 1 : run[i] # run[k]
      BY <2>4, <3>1 DEF n
    <3>3. run[k] \notin S
      BY <2>4 DEF n
    <3>4. QED
      BY <3>2, <3>3
  <2>7. Upto(k) = before \cup {c}
    <3>1. \A i : i \in 1 .. k <=> (i \in 1 .. k - 1 \/ i = k)
      BY <1>1, <2>4
    <3>2. QED
      BY <3>1
  <2>8. before \cup {c} \in SUBSET U
    <3>1. \A i \in 1 .. k - 1 : i \in 1 .. n
      BY <1>1, <2>4
    <3>2. QED
      BY <1>1, <2>4, <3>1
  <2>9. after[k] = PushBounded(after[k - 1], c, topK)
    BY <1>2, <2>4
  <2> HIDE DEF c, before
  <2>10. OneEach(before \cup {c})
    BY <2>8, OneEachOfSome
  <2>11. IsTop(after[k - 1], before, topK)
    BY <2>5 DEF before
  <2>12. IsTop(PushBounded(after[k - 1], c, topK), before \cup {c}, topK)
    BY <2>6, <2>10, <2>11, PushTop
  <2> HIDE DEF Upto
  <2>13. QED
    BY <2>2, <2>7, <2>9, <2>12
<1>4. n \in 0 .. n
  BY <1>1
<1>5. IsTop(after[n], Upto(n), topK)
  BY <1>3, <1>4
<1>6. QED
  BY <1>2, <1>5 DEF n

\* The best of some and of the best of others are the best of all.
LEMMA TopOfTops ==
  ASSUME NEW U, OneEach(U), NEW A \in SUBSET U, NEW B \in SUBSET U, A \cap B = {},
         NEW topK \in Nat, NEW b, IsTop(b, B, topK), NEW heap, IsTop(heap, A \cup b, topK)
  PROVE  IsTop(heap, A \cup B, topK)
<1>1. /\ IsFiniteSet(A) /\ IsFiniteSet(B) /\ IsFiniteSet(b) /\ IsFiniteSet(heap)
      /\ Cardinality(A) \in Nat /\ Cardinality(B) \in Nat /\ Cardinality(b) \in Nat
      /\ Cardinality(heap) \in Nat
      /\ b \in SUBSET B /\ heap \in SUBSET (A \cup b)
  <2>1. b \in SUBSET B /\ heap \in SUBSET (A \cup b)
    BY DEF IsTop
  <2>2. b \in SUBSET U /\ heap \in SUBSET U
    BY <2>1
  <2>3. QED
    BY <2>1, <2>2, OneEachOfSome
<1>2. /\ Cardinality(A \cup B) = Cardinality(A) + Cardinality(B)
      /\ Cardinality(A \cup b) = Cardinality(A) + Cardinality(b)
  <2>1. A \cap b = {} /\ Cardinality({}) = 0
    BY <1>1, FS_EmptySet
  <2>2. /\ Cardinality(A \cup B) = Cardinality(A) + Cardinality(B) - 0
        /\ Cardinality(A \cup b) = Cardinality(A) + Cardinality(b) - 0
    BY <1>1, <2>1, FS_Union
  <2>3. QED
    BY <1>1, <2>2
<1>3. Cardinality(b) = Smaller(topK, Cardinality(B)) /\ Cardinality(heap) = Smaller(topK, Cardinality(A \cup b))
  BY DEF IsTop
<1>4. Cardinality(heap) = Smaller(topK, Cardinality(A \cup B))
  BY <1>1, <1>2, <1>3 DEF Smaller
<1>5. \A x, y, z \in U : Better(x, y) /\ Better(y, z) => Better(x, z)
  BY BetterIsOrder
<1>6. ASSUME NEW x \in heap, NEW y \in (A \cup B) \ heap PROVE Better(x, y)
  <2>1. CASE y \in A \cup b
    BY <2>1 DEF IsTop
  <2>2. CASE y \notin A \cup b
    <3>1. y \in B \ b
      BY <2>2
    <3>2. \A z \in b : Better(z, y)
      BY <3>1 DEF IsTop
    <3>3. CASE b \subseteq heap
      <4>1. b # B
        BY <3>1
      <4>2. Cardinality(b) # Cardinality(B)
        BY <1>1, <4>1, FS_Subset
      <4>3. Cardinality(b) = topK /\ Cardinality(heap) <= topK
        BY <1>1, <1>3, <1>4, <4>2 DEF Smaller
      <4>4. Cardinality(b) <= Cardinality(heap)
        BY <1>1, <3>3, FS_Subset
      <4>5. b = heap
        BY <1>1, <3>3, <4>3, <4>4, FS_Subset
      <4>6. QED
        BY <3>2, <4>5
    <3>4. CASE ~(b \subseteq heap)
      <4>1. PICK z \in b : z \notin heap
        BY <3>4
      <4>2. Better(x, z) /\ Better(z, y)
        BY <3>2, <4>1 DEF IsTop
      <4>3. x \in U /\ y \in U /\ z \in U
        BY <1>1, <4>1
      <4>4. QED
        BY <1>5, <4>2, <4>3
    <3>5. QED
      BY <3>3, <3>4
  <2>3. QED
    BY <2>1, <2>2
<1>7. QED
  BY <1>1, <1>4, <1>6 DEF IsTop

LEMMA ReducedTop ==
  ASSUME NEW U, OneEach(U), NEW A \in SUBSET U, NEW B \in SUBSET U, A \cap B = {},
         NEW topK \in Nat \ {0}, NEW left, IsTop(left, A, topK), NEW right, IsTop(right, B, topK)
  PROVE  IsTop(Reduced(left, right, topK), A \cup B, topK)
<1> DEFINE run == SortedBy(right, Better)
           n == Cardinality(right)
<1>1. right \in SUBSET B /\ OneEach(right)
  <2>1. right \in SUBSET B
    BY DEF IsTop
  <2>2. right \in SUBSET U
    BY <2>1
  <2>3. QED
    BY <2>1, <2>2, OneEachOfSome
<1>2. Sorts(run, right, BetterIn(right)) /\ IsOrder(right, BetterIn(right))
  BY <1>1, BestFirst
<1> HIDE DEF run
<1>3. /\ n \in Nat /\ run \in [1 .. n -> right]
      /\ \A x \in right : \E p \in 1 .. n : run[p] = x
      /\ \A p \in 1 .. n : Cardinality(BetterIn(right)[run[p]]) = p - 1
  BY <1>2 DEF Sorts
<1> HIDE DEF n
<1>4. run \in Seq(U) /\ Len(run) = n
  <2>1. run \in [1 .. n -> U]
    BY <1>1, <1>3
  <2>2. QED
    BY <1>3, <2>1
<1>5. \A i, j \in 1 .. n : run[i] = run[j] => i = j
  <2> SUFFICES ASSUME NEW i \in 1 .. n, NEW j \in 1 .. n, run[i] = run[j] PROVE i = j
    OBVIOUS
  <2>1. i - 1 = j - 1
    BY <1>3
  <2>2. QED
    BY <1>3, <2>1
<1>6. \A i \in 1 .. n : run[i] \notin A
  BY <1>1, <1>3
<1>7. {run[i] : i \in 1 .. n} = right
  BY <1>3
<1>8. IsTop(Pushed(left, run, topK), A \cup right, topK)
  <2>1. IsTop(Pushed(left, run, topK), A \cup {run[i] : i \in 1 .. Len(run)}, topK)
    BY <1>4, <1>5, <1>6, PushedTop
  <2>2. QED
    BY <1>4, <1>7, <2>1
<1>9. topK \in Nat
  OBVIOUS
<1>10. IsTop(Pushed(left, run, topK), A \cup B, topK)
  BY <1>8, <1>9, TopOfTops
<1>11. QED
  BY <1>10 DEF Reduced, run

\* The records from a to b.
Span(records, a, b) == {records[i] : i \in a .. b}

LEMMA HeapTop ==
  ASSUME NEW U, OneEach(U), NEW records \in Seq(U),
         \A i, j \in 1 .. Len(records) : records[i] = records[j] => i = j,
         NEW a \in 1 .. Len(records) + 1, NEW b \in a - 1 .. Len(records), NEW topK \in Nat \ {0}
  PROVE  IsTop(HeapOf(SubSeq(records, a, b), topK), Span(records, a, b), topK)
<1> DEFINE run == SubSeq(records, a, b)
           n == b - a + 1
<1>1. Len(records) \in Nat
  BY LenProperties
<1>2. a \in Int /\ b \in Int /\ n \in Nat /\ \A i \in a .. b : i \in 1 .. Len(records)
  BY <1>1
<1>3. \A i \in a .. b : records[i] \in U
  BY <1>2, ElementOfSeq
<1>4. /\ run \in Seq(U) /\ Len(run) = IF a <= b THEN b - a + 1 ELSE 0
      /\ \A i \in 1 .. b - a + 1 : run[i] = records[a + i - 1]
  BY <1>2, <1>3, SubSeqProperties
<1> HIDE DEF run
<1>5. Len(run) = n
  BY <1>1, <1>2, <1>4
<1>6. \A i \in 1 .. n : a + i - 1 \in a .. b /\ run[i] = records[a + i - 1]
  BY <1>2, <1>4
<1>7. \A i, j \in 1 .. Len(run) : run[i] = run[j] => i = j
  <2> SUFFICES ASSUME NEW i \in 1 .. n, NEW j \in 1 .. n, run[i] = run[j] PROVE i = j
    BY <1>5
  <2>1. a + i - 1 \in 1 .. Len(records) /\ a + j - 1 \in 1 .. Len(records)
    BY <1>2, <1>6
  <2>2. a + i - 1 = a + j - 1
    BY <1>6, <2>1
  <2>3. QED
    BY <1>2, <2>2
<1>8. {} \cup {run[i] : i \in 1 .. Len(run)} = Span(records, a, b)
  <2>1. \A i \in a .. b : i - a + 1 \in 1 .. n /\ a + (i - a + 1) - 1 = i
    BY <1>2
  <2>2. \A i \in a .. b : \E j \in 1 .. n : run[j] = records[i]
    BY <1>6, <2>1
  <2>3. \A j \in 1 .. n : \E i \in a .. b : run[j] = records[i]
    BY <1>6
  <2> HIDE DEF n
  <2>4. {run[i] : i \in 1 .. n} = {records[i] : i \in a .. b}
    <3>1. ASSUME NEW x \in {run[i] : i \in 1 .. n} PROVE x \in {records[i] : i \in a .. b}
      BY <2>3
    <3>2. ASSUME NEW x \in {records[i] : i \in a .. b} PROVE x \in {run[i] : i \in 1 .. n}
      BY <2>2
    <3>3. QED
      BY <3>1, <3>2
  <2>5. {run[i] : i \in 1 .. Len(run)} = Span(records, a, b)
    BY <1>5, <2>4 DEF Span
  <2>6. QED
    BY <2>5
<1>9. IsTop({}, {}, topK)
  BY FS_EmptySet DEF IsTop, Smaller
<1>10. IsTop(Pushed({}, run, topK), {} \cup {run[i] : i \in 1 .. Len(run)}, topK)
  BY <1>4, <1>7, <1>9, PushedTop
<1>11. QED
  BY <1>8, <1>10 DEF HeapOf, run

\* However the records are cut and the heaps reduced.
LEMMA ScanTop ==
  ASSUME NEW U, OneEach(U), NEW records \in Seq(U),
         \A i, j \in 1 .. Len(records) : records[i] = records[j] => i = j,
         NEW cut1 \in 0 .. Len(records), NEW cut2 \in cut1 .. Len(records),
         NEW leftFirst \in BOOLEAN, NEW topK \in Nat \ {0}
  PROVE  IsTop(ScanTopK(records, topK, cut1, cut2, leftFirst), Span(records, 1, Len(records)), topK)
<1> DEFINE n == Len(records)
           A == Span(records, 1, cut1)
           B == Span(records, cut1 + 1, cut2)
           C == Span(records, cut2 + 1, n)
           a == HeapOf(SubSeq(records, 1, cut1), topK)
           b == HeapOf(SubSeq(records, cut1 + 1, cut2), topK)
           c == HeapOf(SubSeq(records, cut2 + 1, n), topK)
<1>1. n \in Nat /\ cut1 \in Nat /\ cut2 \in Nat /\ cut1 <= cut2 /\ cut2 <= n
  BY LenProperties
<1>2. IsTop(a, A, topK) /\ IsTop(b, B, topK) /\ IsTop(c, C, topK)
  <2>1. /\ 1 \in 1 .. n + 1 /\ cut1 \in 1 - 1 .. n /\ cut1 + 1 \in 1 .. n + 1
        /\ cut2 \in cut1 + 1 - 1 .. n /\ cut2 + 1 \in 1 .. n + 1 /\ n \in cut2 + 1 - 1 .. n
    BY <1>1
  <2>2. QED
    BY <2>1, HeapTop
<1>3. /\ \A i \in 1 .. cut1 : i \in 1 .. n /\ i <= cut1
      /\ \A i \in cut1 + 1 .. cut2 : i \in 1 .. n /\ cut1 < i /\ i <= cut2
      /\ \A i \in cut2 + 1 .. n : i \in 1 .. n /\ cut2 < i
      /\ \A i \in 1 .. n : i \in 1 .. cut1 \/ i \in cut1 + 1 .. cut2 \/ i \in cut2 + 1 .. n
  BY <1>1
<1>4. A \in SUBSET U /\ B \in SUBSET U /\ C \in SUBSET U
  BY <1>3, ElementOfSeq DEF Span
<1>5. A \cap B = {} /\ B \cap C = {} /\ A \cap C = {}
  <2>1. /\ \A i \in 1 .. cut1, j \in cut1 + 1 .. cut2 : i # j
        /\ \A i \in 1 .. cut1, j \in cut2 + 1 .. n : i # j
        /\ \A i \in cut1 + 1 .. cut2, j \in cut2 + 1 .. n : i # j
    BY <1>1
  <2>2. QED
    BY <1>3, <2>1 DEF Span
<1>6. A \cup B \cup C = Span(records, 1, n)
  BY <1>3 DEF Span
<1>7. A \cup (B \cup C) = Span(records, 1, n)
  BY <1>6
<1> HIDE DEF A, B, C, a, b, c
<1>8. /\ (A \cup B) \cap C = {} /\ A \cap (B \cup C) = {}
      /\ A \cup B \in SUBSET U /\ B \cup C \in SUBSET U
  BY <1>4, <1>5
<1>9. IsTop(Reduced(Reduced(a, b, topK), c, topK), A \cup B \cup C, topK)
  <2>1. IsTop(Reduced(a, b, topK), A \cup B, topK)
    BY <1>2, <1>4, <1>5, ReducedTop
  <2>2. QED
    BY <1>2, <1>4, <1>8, <2>1, ReducedTop
<1>10. IsTop(Reduced(a, Reduced(b, c, topK), topK), A \cup (B \cup C), topK)
  <2>1. IsTop(Reduced(b, c, topK), B \cup C, topK)
    BY <1>2, <1>4, <1>5, ReducedTop
  <2>2. QED
    BY <1>2, <1>4, <1>8, <2>1, ReducedTop
<1>11. ScanTopK(records, topK, cut1, cut2, leftFirst)
         = IF leftFirst THEN Reduced(Reduced(a, b, topK), c, topK)
           ELSE Reduced(a, Reduced(b, c, topK), topK)
  BY DEF ScanTopK, a, b, c
<1>12. QED
  BY <1>6, <1>7, <1>9, <1>10, <1>11

\* The best of some, in order, are the first of all in order.
LEMMA TopInOrder ==
  ASSUME NEW S, OneEach(S), NEW topK \in Nat, NEW heap, IsTop(heap, S, topK)
  PROVE  SortedBy(heap, Better) = Truncated(SortedBy(S, Better), topK)
<1> DEFINE n == Cardinality(S)
           k == Cardinality(heap)
           all == SortedBy(S, Better)
           some == SortedBy(heap, Better)
<1>1. heap \in SUBSET S /\ OneEach(heap) /\ n \in Nat /\ k \in Nat /\ k = Smaller(topK, n)
  <2>1. heap \in SUBSET S /\ k = Smaller(topK, n)
    BY DEF IsTop
  <2>2. S \in SUBSET S
    OBVIOUS
  <2>3. QED
    BY <2>1, <2>2, OneEachOfSome
<1>2. k <= n
  BY <1>1 DEF Smaller
<1>3. Sorts(all, S, BetterIn(S)) /\ Sorts(some, heap, BetterIn(heap))
  BY <1>1, BestFirst
<1> HIDE DEF all, some
<1>4. /\ all \in [1 .. n -> S] /\ \A p \in 1 .. n : Cardinality(BetterIn(S)[all[p]]) = p - 1
      /\ \A x \in S : \E p \in 1 .. n : all[p] = x
      /\ some \in [1 .. k -> heap]
      /\ \A p \in 1 .. k : Cardinality(BetterIn(heap)[some[p]]) = p - 1
  BY <1>3 DEF Sorts
\* Nothing outside the heap comes before what is in it.
<1>5. \A x \in heap : BetterIn(heap)[x] = BetterIn(S)[x]
  <2> SUFFICES ASSUME NEW x \in heap PROVE BetterIn(heap)[x] = BetterIn(S)[x]
    OBVIOUS
  <2>1. BetterIn(heap)[x] = {y \in heap : Better(y, x)} /\ BetterIn(S)[x] = {y \in S : Better(y, x)}
    BY <1>1 DEF BetterIn
  <2>2. \A a, b \in S : ~(Better(a, b) /\ Better(b, a))
    BY BetterIsOrder
  <2>3. \A y \in S \ heap : Better(x, y)
    BY DEF IsTop
  <2>4. \A y \in S : Better(y, x) => y \in heap
    BY <1>1, <2>2, <2>3
  <2>5. QED
    BY <1>1, <2>1, <2>4
<1>6. \A i \in 1 .. k : i \in 1 .. n /\ some[i] = all[i]
  <2> SUFFICES ASSUME NEW i \in 1 .. k PROVE i \in 1 .. n /\ some[i] = all[i]
    OBVIOUS
  <2>1. some[i] \in heap /\ some[i] \in S
    BY <1>1, <1>4
  <2>2. PICK p \in 1 .. n : all[p] = some[i]
    BY <1>4, <2>1
  <2>3. Cardinality(BetterIn(S)[some[i]]) = i - 1
    BY <1>4, <1>5, <2>1
  <2>4. p - 1 = i - 1
    BY <1>4, <2>2, <2>3
  <2>5. p = i
    BY <1>1, <2>4
  <2>6. QED
    BY <2>2, <2>5
<1>7. all \in Seq(S) /\ Len(all) = n
  BY <1>1, <1>4, IsASeq, LenProperties
<1>8. /\ Truncated(all, topK) \in Seq(S) /\ Len(Truncated(all, topK)) = k
      /\ \A i \in 1 .. k : Truncated(all, topK)[i] = all[i]
  <2>1. k = Smaller(topK, Len(all))
    BY <1>1, <1>7
  <2>2. QED
    BY <1>7, <2>1, TruncatedIs
<1>9. Truncated(all, topK) \in [1 .. k -> S]
  BY <1>8, LenProperties
<1> DEFINE t == Truncated(all, topK)
<1> HIDE DEF t
<1>10. \A i \in 1 .. k : some[i] = t[i]
  BY <1>6, <1>8 DEF t
<1>11. some = t
  <2>1. some = [i \in 1 .. k |-> some[i]]
    BY <1>4
  <2>2. t = [i \in 1 .. k |-> t[i]]
    BY <1>9 DEF t
  <2>3. QED
    BY <1>10, <2>1, <2>2
<1>12. QED
  BY <1>11 DEF t, all, some

\* The static scan.
LEMMA LookupStaticIsSequential ==
  LookupStatic => /\ lookup'.of = "static"
                  /\ lookup'.answer = Truncated(SortedBy(lookup'.rows, Better), lookup'.topK)
<1> SUFFICES ASSUME LookupStatic
             PROVE  /\ lookup'.of = "static"
                    /\ lookup'.answer = Truncated(SortedBy(lookup'.rows, Better), lookup'.topK)
  OBVIOUS
<1>1. PICK records \in ScanRecords, topK \in TopKs, leftFirst \in BOOLEAN, cut1 \in 0 .. ScanDocs :
        \E cut2 \in cut1 .. ScanDocs :
          lookup' = [of |-> "static", topK |-> topK, rows |-> ToSet(records),
                     answer |-> SortedBy(ScanTopK(records, topK, cut1, cut2, leftFirst), Better)]
  BY DEF LookupStatic
<1>2. PICK cut2 \in cut1 .. ScanDocs :
        lookup' = [of |-> "static", topK |-> topK, rows |-> ToSet(records),
                   answer |-> SortedBy(ScanTopK(records, topK, cut1, cut2, leftFirst), Better)]
  BY <1>1
<1>3. PICK order \in {o \in [1 .. ScanDocs -> 1 .. ScanDocs] : IsInjective(o)},
           scores \in [1 .. ScanDocs -> ScanScores] :
        records = [i \in 1 .. ScanDocs |-> [doc |-> order[i], score |-> scores[i]]]
  BY DEF ScanRecords
<1>4. topK \in Nat \ {0} /\ ScanDocs \in Nat /\ ScanScores \subseteq Int
  BY RetrievalConstants
<1> DEFINE n == ScanDocs
<1>5. \A i, j \in 1 .. n : order[i] = order[j] => i = j
  BY <1>3 DEF IsInjective
<1>6. \A i \in 1 .. n : order[i] \in Nat /\ scores[i] \in Int
  <2>1. order \in [1 .. n -> 1 .. n] /\ scores \in [1 .. n -> ScanScores]
    BY <1>3
  <2>2. \A i \in 1 .. n : order[i] \in 1 .. n /\ scores[i] \in ScanScores
    BY <2>1
  <2>3. \A i \in 1 .. n : i \in Nat
    BY <1>4
  <2>4. QED
    BY <1>4, <2>2, <2>3
<1>7. /\ \A i \in 1 .. n : records[i] = [doc |-> order[i], score |-> scores[i]]
      /\ records \in [1 .. n -> Rows]
  BY <1>3, <1>6 DEF Rows
<1>8. records \in Seq(Rows) /\ Len(records) = n /\ DOMAIN records = 1 .. n
  BY <1>4, <1>7, IsASeq, LenProperties
<1>9. \A i, j \in 1 .. n : records[i].doc = records[j].doc => i = j
  BY <1>5, <1>7
<1> DEFINE U == Span(records, 1, n)
<1>10. ToSet(records) = U
  BY <1>8 DEF ToSet, Span
<1>11. U = {records[i] : i \in 1 .. n}
  BY DEF Span
<1>12. IsFiniteSet(U)
  <2>1. IsFiniteSet(1 .. n)
    BY <1>4, FS_Interval
  <2> DEFINE f == [i \in 1 .. n |-> records[i]]
  <2>2. {f[i] : i \in 1 .. n} = U
    BY <1>11
  <2>3. f \in Surjection(1 .. n, U)
    BY <2>2 DEF Surjection
  <2>4. QED
    BY <2>1, <2>3, FS_Surjection
<1>13. OneEach(U)
  <2>1. U \in SUBSET Rows
    BY <1>7, <1>11
  <2>2. \A a, b \in U : a.doc = b.doc => a = b
    BY <1>9, <1>11
  <2>3. QED
    BY <1>12, <2>1, <2>2 DEF OneEach
<1>14. records \in Seq(U)
  <2>1. records \in [1 .. n -> U]
    BY <1>7, <1>11
  <2>2. QED
    BY <1>4, <2>1, IsASeq
<1>15. \A i, j \in 1 .. Len(records) : records[i] = records[j] => i = j
  BY <1>8, <1>9
<1>16. cut1 \in 0 .. Len(records) /\ cut2 \in cut1 .. Len(records)
  BY <1>8
<1> HIDE DEF U
<1>17. IsTop(ScanTopK(records, topK, cut1, cut2, leftFirst), Span(records, 1, Len(records)), topK)
  BY <1>4, <1>13, <1>14, <1>15, <1>16, ScanTop
<1>18. Span(records, 1, Len(records)) = U
  BY <1>8 DEF U
<1>19. SortedBy(ScanTopK(records, topK, cut1, cut2, leftFirst), Better)
         = Truncated(SortedBy(U, Better), topK)
  BY <1>4, <1>13, <1>17, <1>18, TopInOrder
<1>20. /\ lookup'.of = "static" /\ lookup'.topK = topK /\ lookup'.rows = ToSet(records)
       /\ lookup'.answer = SortedBy(ScanTopK(records, topK, cut1, cut2, leftFirst), Better)
  BY <1>2
<1>21. QED
  BY <1>10, <1>19, <1>20

\* retrieval_common.rs, vector_searcher.rs, keyword_searcher.rs, turbo_searcher.rs: whatever
\* the shards, the matches and the records, and however the scan is cut and joined, each
\* retriever returns the best of what it holds, best first.
THEOREM RetrieversAlwaysFindBest == RetrievalSpec => []RetrieversFindBest
<1>1. RetrievalInit => RetrieversFindBest
  BY DEF RetrievalInit, NoLookup, RetrieversFindBest, VectorFindsBest, KeywordFindsBest, ScanIsSequential
<1>2. RetrieversFindBest /\ [RetrievalNext]_retrievalVars => RetrieversFindBest'
  <2> SUFFICES ASSUME RetrieversFindBest, [RetrievalNext]_retrievalVars PROVE RetrieversFindBest'
    OBVIOUS
  <2>1. CASE lookup' = lookup
    <3> DEFINE P(l) == /\ l.of = "vector" => FindsBest(l)
                       /\ l.of = "keyword" => FindsBest(l)
                       /\ l.of = "static" => l.answer = Truncated(SortedBy(l.rows, Better), l.topK)
    <3>1. P(lookup)
      BY DEF RetrieversFindBest, VectorFindsBest, KeywordFindsBest, ScanIsSequential
    <3> HIDE DEF P
    <3>2. P(lookup')
      BY <2>1, <3>1
    <3>3. QED
      BY <3>2 DEF P, RetrieversFindBest, VectorFindsBest, KeywordFindsBest, ScanIsSequential
  <2>2. CASE LookupVector
    <3>1. lookup'.of = "vector" /\ FindsBest(lookup')
      BY <2>2, LookupVectorFindsBest
    <3>2. QED
      BY <3>1 DEF RetrieversFindBest, VectorFindsBest, KeywordFindsBest, ScanIsSequential
  <2>3. CASE LookupKeyword
    <3>1. lookup'.of = "keyword" /\ FindsBest(lookup')
      BY <2>3, LookupKeywordFindsBest
    <3>2. QED
      BY <3>1 DEF RetrieversFindBest, VectorFindsBest, KeywordFindsBest, ScanIsSequential
  <2>4. CASE LookupStatic
    <3>1. /\ lookup'.of = "static"
          /\ lookup'.answer = Truncated(SortedBy(lookup'.rows, Better), lookup'.topK)
      BY <2>4, LookupStaticIsSequential
    <3>2. QED
      BY <3>1 DEF RetrieversFindBest, VectorFindsBest, KeywordFindsBest, ScanIsSequential
  <2>5. CASE Route
    <3>1. lookup' = lookup
      BY <2>5 DEF Route, Start, Embed, Retrieve, RetrieverFails
    <3>2. QED
      BY <2>1, <3>1
  <2>6. CASE UNCHANGED retrievalVars
    BY <2>1, <2>6 DEF retrievalVars
  <2>7. QED
    BY <2>2, <2>3, <2>4, <2>5, <2>6 DEF RetrievalNext, Lookup
<1>3. QED
  BY <1>1, <1>2, PTL DEF RetrievalSpec

-------------------------------------------------------------------------------
(* What a request is answered with (Retrieval.tla). *)

\* A list of hits, no document twice.
HitList(list) == list \in Seq(Hits) /\ OncePerDoc(list)

LEMMA HitListIs ==
  ASSUME NEW list, HitList(list)
  PROVE  /\ Len(list) \in Nat /\ DOMAIN list = 1 .. Len(list)
         /\ \A i \in 1 .. Len(list) : list[i] \in Hits /\ list[i].doc \in Nat
         /\ \A i, j \in 1 .. Len(list) : list[i].doc = list[j].doc => i = j
<1>1. Len(list) \in Nat /\ DOMAIN list = 1 .. Len(list)
  BY LenProperties DEF HitList
<1>2. \A i \in 1 .. Len(list) : list[i] \in Hits
  BY ElementOfSeq DEF HitList
<1>3. QED
  BY <1>1, <1>2 DEF HitList, OncePerDoc, Hits

LEMMA DocsOfList ==
  ASSUME NEW list, HitList(list)
  PROVE  IsFiniteSet(DocsOf(list)) /\ Cardinality(DocsOf(list)) = Len(list)
<1> DEFINE n == Len(list)
           f == [i \in 1 .. n |-> list[i].doc]
<1>1. /\ n \in Nat /\ DOMAIN list = 1 .. n
      /\ \A i, j \in 1 .. n : list[i].doc = list[j].doc => i = j
  BY HitListIs
<1>2. IsFiniteSet(1 .. n) /\ Cardinality(1 .. n) = n
  BY <1>1, FS_Interval
<1>3. f \in Surjection(1 .. n, DocsOf(list))
  BY <1>1 DEF Surjection, DocsOf
<1>4. f \in Injection(1 .. n, DocsOf(list))
  BY <1>1, <1>3 DEF Surjection, Injection, IsInjective
<1> HIDE DEF f
<1>5. QED
  BY <1>2, <1>3, <1>4, FS_Surjection

LEMMA TruncatedList ==
  ASSUME NEW list, HitList(list), NEW n \in Nat
  PROVE  /\ HitList(Truncated(list, n)) /\ Len(Truncated(list, n)) = Smaller(n, Len(list))
         /\ \A i \in 1 .. Len(Truncated(list, n)) : i \in 1 .. Len(list) /\ Truncated(list, n)[i] = list[i]
         /\ DocsOf(Truncated(list, n)) \subseteq DocsOf(list)
         /\ Len(list) <= n => Truncated(list, n) = list
<1> DEFINE t == Truncated(list, n)
           k == Smaller(n, Len(list))
<1>1. /\ Len(list) \in Nat /\ DOMAIN list = 1 .. Len(list)
      /\ \A i, j \in 1 .. Len(list) : list[i].doc = list[j].doc => i = j
  BY HitListIs
<1>2. /\ t \in Seq(Hits) /\ Len(t) = k
      /\ \A i \in 1 .. k : i \in 1 .. Len(list) /\ t[i] = list[i]
  BY TruncatedIs DEF HitList
<1> HIDE DEF t, k
<1>3. DOMAIN t = 1 .. k
  BY <1>2, LenProperties
<1>4. HitList(t)
  BY <1>1, <1>2, <1>3 DEF HitList, OncePerDoc
<1>5. DocsOf(t) \subseteq DocsOf(list)
  BY <1>1, <1>2, <1>3 DEF DocsOf
<1>6. ASSUME Len(list) <= n PROVE t = list
  <2>1. k = Len(list)
    <3>1. Len(list) \in Nat /\ Len(list) <= n
      BY <1>1, <1>6
    <3> HIDE DEF t
    <3>2. QED
      BY <3>1 DEF k, Smaller
  <2>2. \A i \in 1 .. k : t[i] = list[i]
    BY <1>2
  <2>3. list \in [1 .. k -> Hits] /\ t \in [1 .. k -> Hits]
    BY <1>2, <2>1, LenProperties DEF HitList
  <2>4. t = [i \in 1 .. k |-> t[i]] /\ list = [i \in 1 .. k |-> list[i]]
    BY <2>3
  <2>5. QED
    BY <2>2, <2>4
<1>7. QED
  BY <1>2, <1>4, <1>5, <1>6 DEF t, k

\* The place of a document in a list.
LEMMA RankIs ==
  ASSUME NEW list, HitList(list), NEW d
  PROVE  /\ RankIn(list, d) \in 0 .. Len(list)
         /\ RankIn(list, d) # 0 => list[RankIn(list, d)].doc = d
         /\ RankIn(list, d) # 0 <=> d \in DocsOf(list)
         /\ \A i \in 1 .. Len(list) : list[i].doc = d => RankIn(list, d) = i
<1> DEFINE I == {i \in 1 .. Len(list) : list[i].doc = d}
<1>1. /\ Len(list) \in Nat /\ DOMAIN list = 1 .. Len(list)
      /\ \A i, j \in 1 .. Len(list) : list[i].doc = list[j].doc => i = j
  BY HitListIs
<1>2. RankIn(list, d) = IF I # {} THEN Min(I) ELSE 0
  BY DEF RankIn, SelectInSeq
<1>3. I # {} <=> d \in DocsOf(list)
  BY <1>1 DEF DocsOf
<1>4. I # {} => Min(I) \in I
  <2> SUFFICES ASSUME I # {} PROVE Min(I) \in I
    OBVIOUS
  <2>1. PICK i \in I : TRUE
    OBVIOUS
  <2>2. \A j \in I : i <= j
    BY <1>1, <2>1
  <2>3. QED
    BY <2>1, <2>2 DEF Min
<1>5. \A i, j \in I : i = j
  BY <1>1
<1> DEFINE r == RankIn(list, d)
<1> HIDE DEF r
<1>6. \A i \in I : i \in 1 .. Len(list) /\ i # 0 /\ list[i].doc = d
  BY <1>1
<1>7. \A i \in 1 .. Len(list) : list[i].doc = d => i \in I
  OBVIOUS
<1>8. r = IF I # {} THEN Min(I) ELSE 0
  BY <1>2 DEF r
<1> HIDE DEF I
<1>9. r \in I \/ (I = {} /\ r = 0)
  BY <1>4, <1>8
<1>10. r \in 0 .. Len(list)
  BY <1>1, <1>6, <1>9
<1>11. (r # 0 => list[r].doc = d) /\ (r # 0 <=> d \in DocsOf(list))
  BY <1>3, <1>6, <1>9
<1>12. \A i \in 1 .. Len(list) : list[i].doc = d => r = i
  BY <1>5, <1>7, <1>9
<1>13. QED
  BY <1>10, <1>11, <1>12 DEF r

\* Hits at some of the places, in their order.
Picks(from, picked, f) ==
  /\ f \in [1 .. Len(picked) -> 1 .. Len(from)]
  /\ \A i, j \in 1 .. Len(picked) : i < j <=> f[i] < f[j]
  /\ \A i \in 1 .. Len(picked) : picked[i] = from[f[i]]

LEMMA AtPicks ==
  ASSUME NEW hits, HitList(hits), NEW places \in SUBSET (1 .. Len(hits))
  PROVE  /\ HitList(At(hits, places)) /\ IsFiniteSet(places) /\ Len(At(hits, places)) = Cardinality(places)
         /\ \E f : /\ Picks(hits, At(hits, places), f)
                   /\ \A i \in 1 .. Len(At(hits, places)) : f[i] \in places
<1> DEFINE before == [x \in places |-> {y \in places : y < x}]
           f == SortedBy(places, LAMBDA i, j : i < j)
           n == Cardinality(places)
<1>1. /\ Len(hits) \in Nat /\ DOMAIN hits = 1 .. Len(hits)
      /\ \A i \in 1 .. Len(hits) : hits[i] \in Hits
      /\ \A i, j \in 1 .. Len(hits) : hits[i].doc = hits[j].doc => i = j
  BY HitListIs
<1>2. IsFiniteSet(places)
  <2>1. IsFiniteSet(1 .. Len(hits))
    BY <1>1, FS_Interval
  <2>2. QED
    BY <2>1, FS_Subset
<1>3. \A x \in places : x \in Nat
  BY <1>1
<1>4. before \in [places -> SUBSET places] /\ \A s, t \in places : s \in before[t] <=> s < t
  OBVIOUS
<1>5. f = Sorted(places, before)
  BY DEF SortedBy
<1> HIDE DEF before, f
<1>6. IsOrder(places, before)
  <2>1. \A s \in places : s \notin before[s]
    BY <1>3, <1>4
  <2>2. \A s, t \in places : s # t => s \in before[t] \/ t \in before[s]
    BY <1>3, <1>4
  <2>3. ASSUME NEW s \in places, NEW t \in places, s \in before[t] PROVE before[s] \subseteq before[t]
    <3>1. before[s] \subseteq places
      BY <1>4
    <3>2. \A u \in places : u < s /\ s < t => u < t
      BY <1>3
    <3>3. QED
      BY <1>4, <2>3, <3>1, <3>2
  <2>4. QED
    BY <1>4, <2>1, <2>2, <2>3 DEF IsOrder
<1>7. Sorts(f, places, before)
  BY <1>2, <1>5, <1>6, SortedSorts
<1>8. /\ n \in Nat /\ f \in [1 .. n -> places]
      /\ \A p, q \in 1 .. n : p < q <=> f[p] < f[q]
  BY <1>4, <1>7 DEF Sorts
<1>9. At(hits, places) = [i \in 1 .. n |-> hits[f[i]]]
  BY <1>8, Zenon DEF At, f
<1> DEFINE picked == At(hits, places)
<1> HIDE DEF picked, n
<1>10. picked \in [1 .. n -> Hits] /\ \A i \in 1 .. n : picked[i] = hits[f[i]]
  <2>1. picked = [i \in 1 .. n |-> hits[f[i]]]
    BY <1>9 DEF picked
  <2>2. \A i \in 1 .. n : f[i] \in 1 .. Len(hits)
    BY <1>8
  <2>3. \A i \in 1 .. n : hits[f[i]] \in Hits
    BY <1>1, <2>2
  <2>4. QED
    BY <2>1, <2>3
<1>11. picked \in Seq(Hits) /\ Len(picked) = n /\ DOMAIN picked = 1 .. n
  BY <1>8, <1>10, IsASeq, LenProperties
<1>12. OncePerDoc(picked)
  <2> SUFFICES ASSUME NEW i \in 1 .. n, NEW j \in 1 .. n, picked[i].doc = picked[j].doc PROVE i = j
    BY <1>11 DEF OncePerDoc
  <2>1. f[i] \in 1 .. Len(hits) /\ f[j] \in 1 .. Len(hits) /\ f[i] = f[j]
    <3>1. f[i] \in 1 .. Len(hits) /\ f[j] \in 1 .. Len(hits)
      BY <1>8
    <3>2. hits[f[i]].doc = hits[f[j]].doc
      BY <1>10
    <3>3. QED
      BY <1>1, <3>1, <3>2
  <2>2. ~(i < j) /\ ~(j < i)
    BY <1>8, <1>1, <2>1
  <2>3. QED
    BY <1>8, <2>2
<1>13. Picks(hits, picked, f) /\ \A i \in 1 .. Len(picked) : f[i] \in places
  BY <1>8, <1>10, <1>11 DEF Picks
<1>14. QED
  BY <1>2, <1>11, <1>12, <1>13 DEF picked, n, HitList

\* Fractions.
LEMMA Times ==
  ASSUME NEW a \in Nat, NEW b \in Nat, NEW c \in Nat
  PROVE  /\ a * b \in Nat /\ a * b = b * a /\ (a * b) * c = (a * c) * b
         /\ a <= b => a * c <= b * c
         /\ (a < b /\ 0 < c) => a * c < b * c
OBVIOUS

\* a / b is no less than c / d, and more.
NoLess(s, t) == s[1] * t[2] >= t[1] * s[2]
More(s, t) == s[1] * t[2] > t[1] * s[2]

LEMMA FractionOrder ==
  ASSUME NEW s \in Nat \X (Nat \ {0}), NEW t \in Nat \X (Nat \ {0}), NEW u \in Nat \X (Nat \ {0}),
         NoLess(s, t), NoLess(t, u)
  PROVE  NoLess(s, u) /\ (More(s, t) \/ More(t, u) => More(s, u))
<1>1. /\ s[1] \in Nat /\ s[2] \in Nat /\ 0 < s[2] /\ t[1] \in Nat /\ t[2] \in Nat /\ 0 < t[2]
      /\ u[1] \in Nat /\ u[2] \in Nat /\ 0 < u[2]
  OBVIOUS
<1> DEFINE l == s[1] * t[2]
           m == t[1] * s[2]
           x == t[1] * u[2]
           y == u[1] * t[2]
           p == s[1] * u[2]
           q == u[1] * s[2]
<1>2. /\ l \in Nat /\ m \in Nat /\ x \in Nat /\ y \in Nat /\ p \in Nat /\ q \in Nat
  BY <1>1, Times
<1>3. p * t[2] = l * u[2] /\ m * u[2] = x * s[2] /\ y * s[2] = q * t[2]
  BY <1>1, Times
<1>4. m <= l /\ y <= x
  BY <1>1, <1>2 DEF NoLess
<1>5. (More(s, t) <=> m < l) /\ (More(t, u) <=> y < x) /\ (More(s, u) <=> q < p) /\ (NoLess(s, u) <=> q <= p)
  BY <1>2 DEF More, NoLess
<1> HIDE DEF l, m, x, y, p, q
<1>6. m * u[2] <= l * u[2] /\ y * s[2] <= x * s[2]
  BY <1>1, <1>2, <1>4, Times
<1>7. (m < l => m * u[2] < l * u[2]) /\ (y < x => y * s[2] < x * s[2])
  BY <1>1, <1>2, <1>4, Times
<1>8. p < q => p * t[2] < q * t[2]
  BY <1>1, <1>2, Times
<1>9. p <= q => p * t[2] <= q * t[2]
  BY <1>1, <1>2, Times
<1>10. /\ p * t[2] \in Nat /\ q * t[2] \in Nat /\ m * u[2] \in Nat /\ l * u[2] \in Nat
       /\ x * s[2] \in Nat /\ y * s[2] \in Nat
  BY <1>1, <1>2, Times
<1>11. q <= p
  BY <1>2, <1>3, <1>6, <1>8, <1>10
<1>12. m < l \/ y < x => q < p
  BY <1>2, <1>3, <1>6, <1>7, <1>9, <1>10
<1>13. QED
  BY <1>5, <1>11, <1>12

\* The sum of two fractions, each no less than another.
Plus(v, k) == <<v[1] * k[2] + k[1] * v[2], v[2] * k[2]>>

LEMMA SumsCompare ==
  ASSUME NEW a \in Nat \X (Nat \ {0}), NEW b \in Nat \X (Nat \ {0}),
         NEW c \in Nat \X (Nat \ {0}), NEW d \in Nat \X (Nat \ {0}),
         NoLess(a, c), NoLess(b, d), More(a, c) \/ More(b, d)
  PROVE  More(Plus(a, b), Plus(c, d))
<1>1. /\ a[1] \in Nat /\ a[2] \in Nat /\ 0 < a[2] /\ b[1] \in Nat /\ b[2] \in Nat /\ 0 < b[2]
      /\ c[1] \in Nat /\ c[2] \in Nat /\ 0 < c[2] /\ d[1] \in Nat /\ d[2] \in Nat /\ 0 < d[2]
  OBVIOUS
<1> DEFINE x == a[1] * c[2]
           y == c[1] * a[2]
           z == b[1] * d[2]
           w == d[1] * b[2]
           bd == b[2] * d[2]
           ac == a[2] * c[2]
<1>2. /\ x \in Nat /\ y \in Nat /\ z \in Nat /\ w \in Nat /\ bd \in Nat /\ ac \in Nat
      /\ 0 < bd /\ 0 < ac
  <2>1. 0 * d[2] < b[2] * d[2] /\ 0 * c[2] < a[2] * c[2]
    BY <1>1, Times
  <2>2. QED
    BY <1>1, <2>1, Times
<1>3. /\ (a[1] * b[2] + b[1] * a[2]) * (c[2] * d[2]) = x * bd + z * ac
      /\ (c[1] * d[2] + d[1] * c[2]) * (a[2] * b[2]) = y * bd + w * ac
  BY <1>1
<1>4. y <= x /\ w <= z /\ (y < x \/ w < z)
  BY <1>1, <1>2 DEF NoLess, More
<1>5. More(Plus(a, b), Plus(c, d)) <=> y * bd + w * ac < x * bd + z * ac
  BY <1>1, <1>2, <1>3 DEF More, Plus
<1> HIDE DEF x, y, z, w, bd, ac
<1>6. /\ y * bd <= x * bd /\ w * ac <= z * ac
      /\ y * bd < x * bd \/ w * ac < z * ac
      /\ y * bd \in Nat /\ x * bd \in Nat /\ w * ac \in Nat /\ z * ac \in Nat
  BY <1>2, <1>4, Times
<1>7. QED
  BY <1>5, <1>6

Fractions == Nat \X (Nat \ {0})

\* The scores of the ranker: the smaller of two places gives the higher score, and being in
\* the list more than not being in it.
LEMMA RrfCompares ==
  /\ \A r \in Nat : Rrf(r) \in Fractions
  /\ \A r, s \in Nat : /\ (r = s \/ (r # 0 /\ (s = 0 \/ r <= s))) => NoLess(Rrf(r), Rrf(s))
                       /\ (r # 0 /\ (s = 0 \/ r < s)) => More(Rrf(r), Rrf(s))
<1>1. RrfK \in Nat
  BY RetrievalConstants
<1>2. \A r \in Nat : Rrf(r) \in Fractions
  BY <1>1 DEF Rrf, Fractions
<1>3. \A r \in Nat : Rrf(r)[1] = (IF r = 0 THEN 0 ELSE 1) /\ Rrf(r)[2] = (IF r = 0 THEN 1 ELSE RrfK + r)
  BY DEF Rrf
<1>4. ASSUME NEW r \in Nat, NEW s \in Nat
      PROVE  /\ (r = s \/ (r # 0 /\ (s = 0 \/ r <= s))) => NoLess(Rrf(r), Rrf(s))
             /\ (r # 0 /\ (s = 0 \/ r < s)) => More(Rrf(r), Rrf(s))
  BY <1>1, <1>3 DEF NoLess, More
<1>5. QED
  BY <1>2, <1>4

LEMMA ScoreIs ==
  ASSUME NEW v, HitList(v), NEW k, HitList(k), NEW d
  PROVE  /\ Rrf(RankIn(v, d)) \in Fractions /\ Rrf(RankIn(k, d)) \in Fractions
         /\ FusedScore(v, k, d) = Plus(Rrf(RankIn(v, d)), Rrf(RankIn(k, d)))
         /\ FusedScore(v, k, d) \in Fractions
<1>1. RankIn(v, d) \in Nat /\ RankIn(k, d) \in Nat
  BY RankIs, HitListIs
<1> DEFINE a == Rrf(RankIn(v, d))
           b == Rrf(RankIn(k, d))
<1>2. a \in Fractions /\ b \in Fractions
  BY <1>1, RrfCompares
<1>3. FusedScore(v, k, d) = Plus(a, b)
  BY DEF FusedScore, Plus
<1> HIDE DEF a, b
<1>4. /\ a[1] \in Nat /\ a[2] \in Nat /\ 0 < a[2] /\ b[1] \in Nat /\ b[2] \in Nat /\ 0 < b[2]
  BY <1>2 DEF Fractions
<1>5. a[1] * b[2] \in Nat /\ b[1] * a[2] \in Nat /\ a[2] * b[2] \in Nat /\ 0 * b[2] < a[2] * b[2]
  BY <1>4, Times
<1>6. Plus(a, b) \in Fractions
  BY <1>4, <1>5 DEF Plus, Fractions
<1>7. QED
  BY <1>2, <1>3, <1>6 DEF a, b

\* A document of either list, with the metadata of one of them.
LEMMA MergedIs ==
  ASSUME NEW v, HitList(v), NEW k, HitList(k), NEW d \in DocsOf(v) \cup DocsOf(k)
  PROVE  /\ d \in Nat /\ MergedMeta(v, k, d) \in {"none", "match", "other"}
         /\ \/ \E i \in 1 .. Len(v) : v[i].doc = d /\ v[i].meta = MergedMeta(v, k, d)
            \/ \E i \in 1 .. Len(k) : k[i].doc = d /\ k[i].meta = MergedMeta(v, k, d)
<1> DEFINE a == RankIn(v, d)
           b == RankIn(k, d)
<1>1. /\ a \in 0 .. Len(v) /\ (a # 0 => v[a].doc = d) /\ (a # 0 <=> d \in DocsOf(v))
      /\ b \in 0 .. Len(k) /\ (b # 0 => k[b].doc = d) /\ (b # 0 <=> d \in DocsOf(k))
  BY RankIs
<1>2. /\ Len(v) \in Nat /\ Len(k) \in Nat
      /\ \A i \in 1 .. Len(v) : v[i] \in Hits
      /\ \A i \in 1 .. Len(k) : k[i] \in Hits
  BY HitListIs
<1>3. MergedMeta(v, k, d) = IF a # 0 /\ (v[a].meta # "none" \/ b = 0) THEN v[a].meta ELSE k[b].meta
  BY DEF MergedMeta
<1> HIDE DEF a, b
<1>4. CASE a # 0 /\ (v[a].meta # "none" \/ b = 0)
  <2>1. a \in 1 .. Len(v) /\ v[a] \in Hits /\ v[a].doc = d
    BY <1>1, <1>2, <1>4
  <2>2. QED
    BY <1>3, <1>4, <2>1 DEF Hits
<1>5. CASE ~(a # 0 /\ (v[a].meta # "none" \/ b = 0))
  <2>1. b # 0
    BY <1>1, <1>5
  <2>2. b \in 1 .. Len(k) /\ k[b] \in Hits /\ k[b].doc = d
    BY <1>1, <1>2, <2>1
  <2>3. QED
    BY <1>3, <1>5, <2>2 DEF Hits
<1>6. QED
  BY <1>4, <1>5

\* The fused list: the documents of both lists, each once, the higher score first.
FusedList(v, k, fused) ==
  /\ HitList(fused) /\ DocsOf(fused) = DocsOf(v) \cup DocsOf(k)
  /\ \A i \in 1 .. Len(fused) : fused[i].meta = MergedMeta(v, k, fused[i].doc)
  /\ \A i, j \in 1 .. Len(fused) : i < j <=> FusedBefore(v, k, fused[i], fused[j])

LEMMA FusedIsOrder ==
  ASSUME NEW v, HitList(v), NEW k, HitList(k), NEW S, \A a \in S : a.doc \in Nat,
         \A a, b \in S : a.doc = b.doc => a = b
  PROVE  /\ \A a \in S : ~FusedBefore(v, k, a, a)
         /\ \A a, b, c \in S : FusedBefore(v, k, a, b) /\ FusedBefore(v, k, b, c) => FusedBefore(v, k, a, c)
         /\ \A a, b \in S : a # b => FusedBefore(v, k, a, b) \/ FusedBefore(v, k, b, a)
<1> DEFINE score(a) == FusedScore(v, k, a.doc)
<1>1. \A a \in S : score(a) \in Fractions
  BY ScoreIs
<1>2. \A a, b \in S : FusedBefore(v, k, a, b) <=>
        (More(score(a), score(b)) \/ (score(a)[1] * score(b)[2] = score(b)[1] * score(a)[2] /\ a.doc < b.doc))
  BY DEF FusedBefore, More
<1> HIDE DEF score
<1>3. \A a, b \in S : score(a)[1] * score(b)[2] \in Nat
  BY <1>1, Times DEF Fractions
<1>4. \A a, b \in S : FusedBefore(v, k, a, b) <=>
        /\ NoLess(score(a), score(b))
        /\ More(score(a), score(b)) \/ a.doc < b.doc
  BY <1>2, <1>3 DEF NoLess, More
<1>5. \A a, b \in S : /\ More(score(a), score(b)) <=> ~NoLess(score(b), score(a))
                      /\ NoLess(score(a), score(b)) \/ NoLess(score(b), score(a))
  BY <1>3 DEF NoLess, More
<1>6. \A a \in S : ~More(score(a), score(a))
  BY <1>5
<1>7. ASSUME NEW a \in S, NEW b \in S, NEW c \in S, FusedBefore(v, k, a, b), FusedBefore(v, k, b, c)
      PROVE  FusedBefore(v, k, a, c)
  <2>1. /\ NoLess(score(a), score(b)) /\ NoLess(score(b), score(c))
        /\ More(score(a), score(b)) \/ a.doc < b.doc
        /\ More(score(b), score(c)) \/ b.doc < c.doc
    BY <1>4, <1>7
  <2>2. /\ NoLess(score(a), score(c))
        /\ More(score(a), score(b)) \/ More(score(b), score(c)) => More(score(a), score(c))
    BY <1>1, <2>1, FractionOrder DEF Fractions
  <2>3. More(score(a), score(c)) \/ a.doc < c.doc
    BY <2>1, <2>2
  <2>4. QED
    BY <1>4, <2>2, <2>3
<1>8. \A a \in S : ~FusedBefore(v, k, a, a)
  BY <1>4, <1>6
<1>9. ASSUME NEW a \in S, NEW b \in S, a # b PROVE FusedBefore(v, k, a, b) \/ FusedBefore(v, k, b, a)
  <2>1. a.doc < b.doc \/ b.doc < a.doc
    BY <1>9
  <2>2. QED
    BY <1>4, <1>5, <2>1
<1>10. QED
  BY <1>7, <1>8, <1>9

LEMMA FuseIs ==
  ASSUME NEW v, HitList(v), NEW k, HitList(k)
  PROVE  /\ FusedList(v, k, Fuse(v, k))
         /\ IsFiniteSet(DocsOf(v) \cup DocsOf(k)) /\ Len(Fuse(v, k)) = Cardinality(DocsOf(v) \cup DocsOf(k))
<1> DEFINE docs == DocsOf(v) \cup DocsOf(k)
           M(d) == [doc |-> d, meta |-> MergedMeta(v, k, d)]
           S == {M(d) : d \in docs}
           before == [x \in S |-> {y \in S : FusedBefore(v, k, y, x)}]
           fused == Fuse(v, k)
           n == Cardinality(S)
<1>1. IsFiniteSet(docs)
  BY DocsOfList, FS_Union
<1>2. {hit.doc : hit \in ToSet(v) \cup ToSet(k)} = docs
  BY DEF ToSet, DocsOf
<1>3. \A d \in docs : M(d) \in Hits /\ M(d).doc = d /\ d \in Nat /\ M(d).meta = MergedMeta(v, k, d)
  BY MergedIs DEF Hits
<1>4. fused = SortedBy(S, LAMBDA a, b : FusedBefore(v, k, a, b))
  BY <1>2, Zenon DEF Fuse
<1>5. fused = Sorted(S, before)
  BY <1>4 DEF SortedBy
<1> HIDE DEF docs, fused
<1>6. /\ S \in SUBSET Hits /\ \A a \in S : a.doc \in docs /\ a.doc \in Nat /\ a = M(a.doc)
      /\ \A a, b \in S : a.doc = b.doc => a = b
      /\ {r.doc : r \in S} = docs
  BY <1>3
<1>7. IsFiniteSet(S)
  <2> DEFINE f == [d \in docs |-> M(d)]
  <2>1. f \in Surjection(docs, S)
    BY DEF Surjection
  <2>2. QED
    BY <1>1, <2>1, FS_Surjection
<1>8. before \in [S -> SUBSET S] /\ \A a, b \in S : a \in before[b] <=> FusedBefore(v, k, a, b)
  OBVIOUS
<1>9. \A a \in S : a.meta = MergedMeta(v, k, a.doc)
  BY <1>3, <1>6
<1> HIDE DEF S, before, M
<1>10. IsOrder(S, before)
  <2>1. /\ \A a \in S : ~FusedBefore(v, k, a, a)
        /\ \A a, b, c \in S : FusedBefore(v, k, a, b) /\ FusedBefore(v, k, b, c) => FusedBefore(v, k, a, c)
        /\ \A a, b \in S : a # b => FusedBefore(v, k, a, b) \/ FusedBefore(v, k, b, a)
    BY <1>6, FusedIsOrder
  <2>2. QED
    BY <1>8, <2>1 DEF IsOrder
<1>11. Sorts(fused, S, before)
  BY <1>5, <1>7, <1>10, SortedSorts
<1>12. Cardinality(docs) = n
  BY <1>6, <1>7, DocsOfRows
<1> HIDE DEF n
<1>13. /\ n \in Nat /\ fused \in [1 .. n -> S]
       /\ \A x \in S : \E p \in 1 .. n : fused[p] = x
       /\ \A p, q \in 1 .. n : p < q <=> fused[p] \in before[fused[q]]
  BY <1>11 DEF Sorts, n
<1>14. fused \in Seq(Hits) /\ Len(fused) = n /\ DOMAIN fused = 1 .. n
  <2>1. fused \in [1 .. n -> Hits]
    BY <1>6, <1>13
  <2>2. QED
    BY <1>13, <2>1, IsASeq, LenProperties
<1>15. \A p, q \in 1 .. n : p < q <=> FusedBefore(v, k, fused[p], fused[q])
  BY <1>8, <1>13
<1>16. OncePerDoc(fused)
  <2> SUFFICES ASSUME NEW i \in 1 .. n, NEW j \in 1 .. n, fused[i].doc = fused[j].doc PROVE i = j
    BY <1>14 DEF OncePerDoc
  <2>1. fused[i] = fused[j] /\ fused[i] \in S
    BY <1>6, <1>13
  <2>2. fused[i] \notin before[fused[j]] /\ fused[j] \notin before[fused[i]]
    BY <1>10, <2>1 DEF IsOrder
  <2>3. ~(i < j) /\ ~(j < i)
    BY <1>13, <2>2
  <2>4. QED
    BY <1>13, <2>3
<1>17. DocsOf(fused) = docs
  <2>1. DocsOf(fused) = {fused[i].doc : i \in 1 .. n}
    BY <1>14 DEF DocsOf
  <2>2. \A i \in 1 .. n : fused[i].doc \in docs
    BY <1>6, <1>13
  <2>3. \A d \in docs : \E i \in 1 .. n : fused[i].doc = d
    BY <1>6, <1>13
  <2>4. QED
    BY <2>1, <2>2, <2>3
<1>18. \A i \in 1 .. n : fused[i].meta = MergedMeta(v, k, fused[i].doc)
  BY <1>9, <1>13
<1>19. QED
  BY <1>1, <1>12, <1>14, <1>15, <1>16, <1>17, <1>18 DEF FusedList, HitList, docs, fused

LEMMA AheadIs ==
  ASSUME NEW v, HitList(v), NEW k, HitList(k), NEW a, NEW b,
         Ahead(v, a, b, FALSE), Ahead(k, a, b, FALSE), Ahead(v, a, b, TRUE) \/ Ahead(k, a, b, TRUE)
  PROVE  More(FusedScore(v, k, a), FusedScore(v, k, b))
<1> DEFINE va == RankIn(v, a)
           vb == RankIn(v, b)
           ka == RankIn(k, a)
           kb == RankIn(k, b)
<1>1. va \in Nat /\ vb \in Nat /\ ka \in Nat /\ kb \in Nat
  BY RankIs, HitListIs
<1>2. /\ IF vb = 0 THEN TRUE ELSE va # 0 /\ (va < vb \/ va = vb)
      /\ IF kb = 0 THEN TRUE ELSE ka # 0 /\ (ka < kb \/ ka = kb)
      /\ \/ IF vb = 0 THEN va # 0 ELSE va # 0 /\ va < vb
         \/ IF kb = 0 THEN ka # 0 ELSE ka # 0 /\ ka < kb
  BY DEF Ahead
<1>3. /\ FusedScore(v, k, a) = Plus(Rrf(va), Rrf(ka)) /\ FusedScore(v, k, b) = Plus(Rrf(vb), Rrf(kb))
      /\ Rrf(va) \in Fractions /\ Rrf(vb) \in Fractions /\ Rrf(ka) \in Fractions /\ Rrf(kb) \in Fractions
  BY ScoreIs
<1> HIDE DEF va, vb, ka, kb
<1>4. NoLess(Rrf(va), Rrf(vb)) /\ NoLess(Rrf(ka), Rrf(kb))
  <2>1. va = vb \/ (va # 0 /\ (vb = 0 \/ va <= vb))
    BY <1>1, <1>2
  <2>2. ka = kb \/ (ka # 0 /\ (kb = 0 \/ ka <= kb))
    BY <1>1, <1>2
  <2>3. QED
    BY <1>1, <2>1, <2>2, RrfCompares
<1>5. More(Rrf(va), Rrf(vb)) \/ More(Rrf(ka), Rrf(kb))
  <2>1. (va # 0 /\ (vb = 0 \/ va < vb)) \/ (ka # 0 /\ (kb = 0 \/ ka < kb))
    BY <1>1, <1>2
  <2>2. QED
    BY <1>1, <2>1, RrfCompares
<1>6. QED
  BY <1>3, <1>4, <1>5, SumsCompare DEF Fractions

LEMMA FilteredIs ==
  ASSUME NEW hits, HitList(hits), NEW filters \in BOOLEAN
  PROVE  /\ HitList(ApplyFilters(hits, filters))
         /\ ~filters => ApplyFilters(hits, filters) = hits
         /\ \E f : /\ Picks(hits, ApplyFilters(hits, filters), f)
                   /\ filters => \A i \in 1 .. Len(ApplyFilters(hits, filters)) : hits[f[i]].meta = "match"
<1> DEFINE picked == ApplyFilters(hits, filters)
           places == {i \in 1 .. Len(hits) : hits[i].meta = "match"}
<1>1. DOMAIN hits = 1 .. Len(hits) /\ Len(hits) \in Nat
  BY HitListIs
<1>2. CASE filters
  <2>1. picked = At(hits, places)
    BY <1>1, <1>2 DEF ApplyFilters
  <2>2. places \in SUBSET (1 .. Len(hits)) /\ \A i \in places : hits[i].meta = "match"
    OBVIOUS
  <2> HIDE DEF places, picked
  <2>3. /\ HitList(picked)
        /\ \E f : Picks(hits, picked, f) /\ \A i \in 1 .. Len(picked) : f[i] \in places
    BY <2>1, <2>2, AtPicks
  <2>4. PICK f : Picks(hits, picked, f) /\ \A i \in 1 .. Len(picked) : f[i] \in places
    BY <2>3
  <2>5. \A i \in 1 .. Len(picked) : hits[f[i]].meta = "match"
    BY <2>2, <2>4
  <2>6. QED
    BY <1>2, <2>3, <2>4, <2>5 DEF picked
<1>3. CASE ~filters
  <2>1. picked = hits
    BY <1>3 DEF ApplyFilters
  <2> DEFINE f == [i \in 1 .. Len(hits) |-> i]
  <2>2. Picks(hits, hits, f)
    BY <1>1 DEF Picks
  <2> HIDE DEF f, picked
  <2>3. QED
    BY <1>3, <2>1, <2>2 DEF picked
<1>4. QED
  BY <1>2, <1>3

LEMMA WindowIs ==
  /\ WindowMax \in Nat \ {0} /\ Window(WindowMax) = WindowMax
  /\ \A topK \in 1 .. WindowMax :
       /\ Window(topK) \in 1 .. WindowMax /\ topK <= Window(topK)
       /\ \A wanted \in topK .. WindowMax : Window(topK) <= Window(wanted)
BY RetrievalConstants DEF Window, Smaller

LEMMA RequestIs ==
  ASSUME NEW request \in SearchRequests
  PROVE  /\ request.topK \in 1 .. WindowMax
         /\ request.filters \in BOOLEAN /\ request.includeMeta \in BOOLEAN
BY RetrievalConstants DEF SearchRequests

\* A group of the answer: hits that pass, in their order, metadata only on demand.
GroupOf(hits, request, group) ==
  /\ HitList(group)
  /\ Len(group) = Smaller(Window(request.topK), Len(ApplyFilters(hits, request.filters)))
  /\ ~request.includeMeta => \A i \in 1 .. Len(group) : group[i].meta = "none"
  /\ \E f \in [1 .. Len(group) -> 1 .. Len(hits)] :
       /\ \A i, j \in 1 .. Len(group) : i < j <=> f[i] < f[j]
       /\ \A i \in 1 .. Len(group) : /\ group[i].doc = hits[f[i]].doc
                                     /\ request.filters => hits[f[i]].meta = "match"

LEMMA ResponseGroupIs ==
  ASSUME NEW hits, HitList(hits), NEW request \in SearchRequests
  PROVE  GroupOf(hits, request, ResponseGroup(hits, request))
<1> DEFINE w == Window(request.topK)
           passed == ApplyFilters(hits, request.filters)
           shown == Truncated(passed, w)
           group == ResponseGroup(hits, request)
           n == Smaller(w, Len(passed))
<1>1. w \in Nat
  BY RequestIs, WindowIs
<1>2. HitList(passed) /\ Len(passed) \in Nat
  BY RequestIs, FilteredIs, HitListIs
<1>3. PICK f : /\ Picks(hits, passed, f)
               /\ request.filters => \A i \in 1 .. Len(passed) : hits[f[i]].meta = "match"
  BY RequestIs, FilteredIs
<1>4. group = [i \in DOMAIN shown |-> IF request.includeMeta THEN shown[i] ELSE [shown[i] EXCEPT !.meta = "none"]]
  BY DEF ResponseGroup
<1> HIDE DEF w, passed, group
<1>5. /\ HitList(shown) /\ Len(shown) = n
      /\ \A i \in 1 .. Len(shown) : i \in 1 .. Len(passed) /\ shown[i] = passed[i]
  BY <1>1, <1>2, TruncatedList
<1> HIDE DEF shown
<1>6. /\ DOMAIN shown = 1 .. n /\ n \in Nat
      /\ \A i \in 1 .. n : shown[i] \in Hits
      /\ \A i, j \in 1 .. n : shown[i].doc = shown[j].doc => i = j
  BY <1>5, HitListIs
<1> HIDE DEF n
<1>7. \A i \in 1 .. n : /\ group[i] \in Hits /\ group[i].doc = shown[i].doc
                        /\ ~request.includeMeta => group[i].meta = "none"
  <2> SUFFICES ASSUME NEW i \in 1 .. n
               PROVE  /\ group[i] \in Hits /\ group[i].doc = shown[i].doc
                      /\ ~request.includeMeta => group[i].meta = "none"
    OBVIOUS
  <2>1. group[i] = IF request.includeMeta THEN shown[i] ELSE [shown[i] EXCEPT !.meta = "none"]
    BY <1>4, <1>6
  <2>2. shown[i] \in Hits
    BY <1>6
  <2>3. QED
    BY <2>1, <2>2 DEF Hits
<1>8. group \in [1 .. n -> Hits]
  BY <1>4, <1>6, <1>7
<1>9. group \in Seq(Hits) /\ Len(group) = n /\ DOMAIN group = 1 .. n
  BY <1>6, <1>8, IsASeq, LenProperties
<1>10. HitList(group)
  BY <1>6, <1>7, <1>9 DEF HitList, OncePerDoc
<1> DEFINE g == [i \in 1 .. n |-> f[i]]
<1>11. /\ g \in [1 .. n -> 1 .. Len(hits)]
       /\ \A i, j \in 1 .. n : i < j <=> g[i] < g[j]
       /\ \A i \in 1 .. n : /\ group[i].doc = hits[g[i]].doc
                            /\ request.filters => hits[g[i]].meta = "match"
  <2>1. \A i \in 1 .. n : i \in 1 .. Len(passed) /\ shown[i] = passed[i]
    BY <1>5
  <2>2. /\ \A i \in 1 .. Len(passed) : f[i] \in 1 .. Len(hits) /\ passed[i] = hits[f[i]]
        /\ \A i, j \in 1 .. Len(passed) : i < j <=> f[i] < f[j]
    BY <1>3 DEF Picks
  <2>3. \A i \in 1 .. n : g[i] = f[i]
    OBVIOUS
  <2>4. g \in [1 .. n -> 1 .. Len(hits)]
    BY <2>1, <2>2
  <2> HIDE DEF g
  <2>5. \A i, j \in 1 .. n : i < j <=> g[i] < g[j]
    BY <2>1, <2>2, <2>3
  <2>6. ASSUME NEW i \in 1 .. n
        PROVE  group[i].doc = hits[g[i]].doc /\ (request.filters => hits[g[i]].meta = "match")
    <3>1. group[i].doc = shown[i].doc /\ shown[i] = hits[f[i]] /\ g[i] = f[i] /\ i \in 1 .. Len(passed)
      BY <1>7, <2>1, <2>2, <2>3
    <3>2. request.filters => hits[f[i]].meta = "match"
      BY <1>3, <3>1
    <3>3. QED
      BY <3>1, <3>2
  <2>7. QED
    BY <2>4, <2>5, <2>6
<1> HIDE DEF g
<1>12. \E f2 \in [1 .. n -> 1 .. Len(hits)] :
         /\ \A i, j \in 1 .. n : i < j <=> f2[i] < f2[j]
         /\ \A i \in 1 .. n : /\ group[i].doc = hits[f2[i]].doc
                              /\ request.filters => hits[f2[i]].meta = "match"
  BY <1>11
<1>13. QED
  BY <1>7, <1>9, <1>10, <1>12 DEF GroupOf, group, n, passed, w

\* A narrower window costs no result as long as it is as wide as what is asked for.
LEMMA NarrowIsEnough ==
  ASSUME NEW v, HitList(v), NEW k, HitList(k),
         NEW topK \in Nat, NEW w \in Nat, NEW wide \in Nat, topK <= w, w <= wide
  PROVE  /\ Len(Truncated(k, w)) >= Smaller(topK, Len(Truncated(k, wide)))
         /\ Len(Fuse(Truncated(v, w), Truncated(k, w)))
              >= Smaller(topK, Len(Fuse(Truncated(v, wide), Truncated(k, wide))))
<1>1. Len(v) \in Nat /\ Len(k) \in Nat
  BY HitListIs
<1>2. /\ HitList(Truncated(v, w)) /\ Len(Truncated(v, w)) = Smaller(w, Len(v))
      /\ HitList(Truncated(k, w)) /\ Len(Truncated(k, w)) = Smaller(w, Len(k))
      /\ HitList(Truncated(v, wide)) /\ HitList(Truncated(k, wide))
      /\ Len(Truncated(k, wide)) = Smaller(wide, Len(k))
  BY TruncatedList
<1> DEFINE A == DocsOf(Truncated(v, w))
           B == DocsOf(Truncated(k, w))
           narrow == Len(Fuse(Truncated(v, w), Truncated(k, w)))
           most == Len(Fuse(Truncated(v, wide), Truncated(k, wide)))
<1>3. /\ IsFiniteSet(A \cup B) /\ narrow = Cardinality(A \cup B)
      /\ Cardinality(A) = Smaller(w, Len(v)) /\ Cardinality(B) = Smaller(w, Len(k))
  BY <1>2, FuseIs, DocsOfList
<1>4. narrow \in Nat /\ most \in Nat
  BY <1>2, FuseIs, FS_CardinalityType
<1>5. Cardinality(A) <= narrow /\ Cardinality(B) <= narrow
  <2>1. A \in SUBSET (A \cup B) /\ B \in SUBSET (A \cup B)
    OBVIOUS
  <2> HIDE DEF A, B, narrow
  <2>2. QED
    BY <1>3, <2>1, FS_Subset
<1>6. narrow >= Smaller(topK, most)
  <2>1. CASE Len(v) <= w /\ Len(k) <= w
    <3>1. Len(v) <= wide /\ Len(k) <= wide
      BY <1>1, <2>1
    <3>2. /\ Truncated(v, w) = v /\ Truncated(k, w) = k
          /\ Truncated(v, wide) = v /\ Truncated(k, wide) = k
      BY <2>1, <3>1, TruncatedList
    <3>3. narrow = most
      BY <3>2
    <3> HIDE DEF narrow, most
    <3>4. QED
      BY <1>4, <3>3 DEF Smaller
  <2>2. CASE ~(Len(v) <= w /\ Len(k) <= w)
    <3> HIDE DEF A, B, narrow, most
    <3>1. Cardinality(A) = w \/ Cardinality(B) = w
      BY <1>1, <1>3, <2>2 DEF Smaller
    <3>2. topK <= narrow
      BY <1>4, <1>5, <3>1
    <3>3. QED
      BY <1>4, <3>2 DEF Smaller
  <2>3. QED
    BY <2>1, <2>2
<1>7. Len(Truncated(k, w)) >= Smaller(topK, Len(Truncated(k, wide)))
  BY <1>1, <1>2 DEF Smaller
<1>8. QED
  BY <1>6, <1>7

\* A request on its way.
Underway(s) ==
  /\ s \in [phase : {"embed", "retrieve", "fallback"}, request : SearchRequests, ranking : Rankings,
            tries : Nat, wanted : Nat, warnings : {0, 1}]
  /\ s.request.topK <= s.wanted /\ s.wanted <= WindowMax
  /\ s.phase # "fallback" => s.warnings = 0

SearchInv ==
  \/ search = NoSearch
  \/ Underway(search)
  \/ search.phase = "failed" /\ DOMAIN search = {"phase", "request"}
  \/ search.phase = "answered" /\ AnswersComplete /\ BothRankingsCount

LEMMA RankingIs ==
  ASSUME NEW r \in Rankings
  PROVE  /\ HitList(r.static) /\ HitList(r.keyword) /\ HitList(r.vector)
         /\ DOMAIN r = {"static", "keyword", "vector"}
<1>1. /\ r \in [static : Seq(Hits), keyword : Seq(Hits), vector : Seq(Hits)]
      /\ \A l \in DOMAIN r : OncePerDoc(r[l])
  BY RetrievalConstants
<1>2. DOMAIN r = {"static", "keyword", "vector"}
  BY <1>1
<1>3. OncePerDoc(r.static) /\ OncePerDoc(r.keyword) /\ OncePerDoc(r.vector)
  BY <1>1, <1>2
<1>4. QED
  BY <1>1, <1>2, <1>3 DEF HitList

\* What the router found with the window of a pass.
FoundOf(s, found, w) ==
  LET k == Truncated(s.ranking.keyword, w)
  IN  IF s.phase = "fallback" THEN found.static = <<>> /\ found.dynamic = k
      ELSE /\ found.static = Truncated(s.ranking.static, w)
           /\ found.dynamic = Fuse(Truncated(s.ranking.vector, w), k)

\* A document found, in one of the rankings and with its metadata.
LEMMA FoundIs ==
  ASSUME NEW s, Underway(s), NEW w \in Nat, NEW found, FoundOf(s, found, w)
  PROVE  /\ HitList(found.static) /\ HitList(found.dynamic)
         /\ \A i \in 1 .. Len(found.static) : \E l \in DOMAIN s.ranking : \E j \in DOMAIN s.ranking[l] :
              s.ranking[l][j].doc = found.static[i].doc /\ s.ranking[l][j].meta = found.static[i].meta
         /\ \A i \in 1 .. Len(found.dynamic) : \E l \in DOMAIN s.ranking : \E j \in DOMAIN s.ranking[l] :
              s.ranking[l][j].doc = found.dynamic[i].doc /\ s.ranking[l][j].meta = found.dynamic[i].meta
<1> DEFINE r == s.ranking
           KnownHit(hit) == \E l \in DOMAIN r : \E j \in DOMAIN r[l] : r[l][j].doc = hit.doc /\ r[l][j].meta = hit.meta
           st == Truncated(r.static, w)
           k == Truncated(r.keyword, w)
           v == Truncated(r.vector, w)
<1>1. /\ HitList(r.static) /\ HitList(r.keyword) /\ HitList(r.vector)
      /\ DOMAIN r = {"static", "keyword", "vector"}
  BY RankingIs DEF Underway
<1> HIDE DEF r
<1>2. /\ HitList(st) /\ HitList(k) /\ HitList(v)
      /\ \A i \in 1 .. Len(st) : i \in 1 .. Len(r.static) /\ st[i] = r.static[i]
      /\ \A i \in 1 .. Len(k) : i \in 1 .. Len(r.keyword) /\ k[i] = r.keyword[i]
      /\ \A i \in 1 .. Len(v) : i \in 1 .. Len(r.vector) /\ v[i] = r.vector[i]
  BY <1>1, TruncatedList
<1>3. /\ DOMAIN r.static = 1 .. Len(r.static) /\ DOMAIN r.keyword = 1 .. Len(r.keyword)
      /\ DOMAIN r.vector = 1 .. Len(r.vector)
  BY <1>1, HitListIs
<1> HIDE DEF st, k, v
<1>4. /\ \A i \in 1 .. Len(st) : KnownHit(st[i])
      /\ \A i \in 1 .. Len(k) : KnownHit(k[i])
      /\ \A i \in 1 .. Len(v) : KnownHit(v[i])
  <2>1. \A i \in 1 .. Len(st) : KnownHit(st[i])
    BY <1>1, <1>2, <1>3
  <2>2. \A i \in 1 .. Len(k) : KnownHit(k[i])
    BY <1>1, <1>2, <1>3
  <2>3. \A i \in 1 .. Len(v) : KnownHit(v[i])
    BY <1>1, <1>2, <1>3
  <2>4. QED
    BY <2>1, <2>2, <2>3
<1> HIDE DEF KnownHit
<1>5. CASE s.phase = "fallback"
  <2>1. found.static = <<>> /\ found.dynamic = k
    BY <1>5 DEF FoundOf, k, r
  <2>2. HitList(<<>>) /\ Len(<<>>) = 0
    BY EmptySeq DEF HitList, OncePerDoc
  <2>3. QED
    BY <1>2, <1>4, <2>1, <2>2 DEF KnownHit, r
<1>6. CASE s.phase # "fallback"
  <2>1. found.static = st /\ found.dynamic = Fuse(v, k)
    BY <1>6 DEF FoundOf, k, v, st, r
  <2>2. FusedList(v, k, Fuse(v, k))
    BY <1>2, FuseIs
  <2> DEFINE fused == Fuse(v, k)
  <2> HIDE DEF fused
  <2>3. /\ HitList(fused) /\ DocsOf(fused) = DocsOf(v) \cup DocsOf(k)
        /\ \A i \in 1 .. Len(fused) : fused[i].meta = MergedMeta(v, k, fused[i].doc)
    BY <2>2 DEF FusedList, fused
  <2>4. DOMAIN fused = 1 .. Len(fused)
    BY <2>3, HitListIs
  <2>5. ASSUME NEW i \in 1 .. Len(fused) PROVE KnownHit(fused[i])
    <3> DEFINE d == fused[i].doc
    <3>1. d \in DocsOf(v) \cup DocsOf(k)
      BY <2>3, <2>4 DEF DocsOf
    <3> HIDE DEF d
    <3>2. \/ \E j \in 1 .. Len(v) : v[j].doc = d /\ v[j].meta = MergedMeta(v, k, d)
          \/ \E j \in 1 .. Len(k) : k[j].doc = d /\ k[j].meta = MergedMeta(v, k, d)
      BY <1>2, <3>1, MergedIs
    <3> USE DEF d
    <3>3. \/ \E j \in 1 .. Len(v) : v[j].doc = fused[i].doc /\ v[j].meta = fused[i].meta /\ KnownHit(v[j])
          \/ \E j \in 1 .. Len(k) : k[j].doc = fused[i].doc /\ k[j].meta = fused[i].meta /\ KnownHit(k[j])
      BY <1>4, <2>3, <3>2
    <3>4. QED
      BY <3>3 DEF KnownHit
  <2>6. QED
    BY <1>2, <1>4, <2>1, <2>3, <2>5 DEF KnownHit, r, fused
<1>7. QED
  BY <1>5, <1>6

LEMMA RetrieveKeeps ==
  ASSUME Underway(search), Retrieve
  PROVE  SearchInv'
<1> DEFINE r == search.ranking
           q == search.request
           w == Window(search.wanted)
           found == Grouped(w)
           groups == [static |-> ResponseGroup(found.static, q), dynamic |-> ResponseGroup(found.dynamic, q)]
<1>1. /\ search.phase \in {"retrieve", "fallback"} /\ r \in Rankings /\ q \in SearchRequests
      /\ search.wanted \in Nat /\ search.warnings \in {0, 1}
      /\ q.topK <= search.wanted /\ search.wanted <= WindowMax
      /\ search.phase # "fallback" => search.warnings = 0
  BY DEF Underway, Retrieve
<1>2. /\ q.topK \in 1 .. WindowMax /\ q.filters \in BOOLEAN /\ q.includeMeta \in BOOLEAN
      /\ WindowMax \in Nat \ {0}
  BY <1>1, RequestIs, WindowIs
<1>3. /\ search.wanted \in q.topK .. WindowMax /\ search.wanted \in 1 .. WindowMax
      /\ w \in 1 .. WindowMax /\ w \in Nat /\ q.topK <= w
      /\ Window(q.topK) \in 1 .. WindowMax /\ Window(q.topK) <= w /\ q.topK <= Window(q.topK)
      /\ search.wanted = WindowMax => w = WindowMax
  <2>1. search.wanted \in q.topK .. WindowMax /\ search.wanted \in 1 .. WindowMax
    BY <1>1, <1>2
  <2>2. /\ w \in 1 .. WindowMax /\ search.wanted <= w
        /\ Window(q.topK) \in 1 .. WindowMax /\ Window(q.topK) <= w /\ q.topK <= Window(q.topK)
        /\ search.wanted = WindowMax => w = WindowMax
    BY <1>2, <2>1, WindowIs
  <2>3. QED
    BY <1>2, <2>1, <2>2
<1>4. Warned \in {0, 1} /\ Warned = IF search.phase = "fallback" THEN 1 ELSE 0
  BY <1>1 DEF Warned
<1>5. HitList(r.static) /\ HitList(r.keyword) /\ HitList(r.vector) /\ DOMAIN r = {"static", "keyword", "vector"}
  BY <1>1, RankingIs
<1>6. FoundOf(search, found, w)
  BY DEF FoundOf, Grouped
<1>7. search' = IF ~WideEnough(found)
                THEN [search EXCEPT !.wanted = Smaller(2 * search.wanted, WindowMax), !.warnings = Warned]
                ELSE [phase |-> IF ResponseValid(groups, q) THEN "answered" ELSE "failed",
                      embedded |-> search.phase = "retrieve", request |-> q,
                      ranking |-> r, groups |-> groups, warnings |-> Warned]
  BY DEF Retrieve
<1> HIDE DEF found
<1>8. /\ HitList(found.static) /\ HitList(found.dynamic)
      /\ \A i \in 1 .. Len(found.static) : \E l \in DOMAIN r : \E j \in DOMAIN r[l] :
           r[l][j].doc = found.static[i].doc /\ r[l][j].meta = found.static[i].meta
      /\ \A i \in 1 .. Len(found.dynamic) : \E l \in DOMAIN r : \E j \in DOMAIN r[l] :
           r[l][j].doc = found.dynamic[i].doc /\ r[l][j].meta = found.dynamic[i].meta
  BY <1>3, <1>6, FoundIs
<1>9. /\ GroupOf(found.static, q, groups.static) /\ GroupOf(found.dynamic, q, groups.dynamic)
  BY <1>1, <1>8, ResponseGroupIs
<1> HIDE DEF groups, w
<1>10. ASSUME ~WideEnough(found) PROVE SearchInv'
  <2> DEFINE s == [search EXCEPT !.wanted = Smaller(2 * search.wanted, WindowMax), !.warnings = Warned]
             wanted == Smaller(2 * search.wanted, WindowMax)
  <2>1. wanted \in Nat /\ q.topK <= wanted /\ wanted <= WindowMax
    BY <1>1, <1>2 DEF Smaller
  <2> HIDE DEF wanted
  <2>2. /\ s \in [phase : {"embed", "retrieve", "fallback"}, request : SearchRequests, ranking : Rankings,
                  tries : Nat, wanted : Nat, warnings : {0, 1}]
        /\ s.wanted = wanted /\ s.request = q /\ s.phase = search.phase /\ s.warnings = Warned
    BY <1>4, <2>1 DEF Underway, wanted
  <2>3. Underway(s)
    BY <1>4, <2>1, <2>2 DEF Underway
  <2>4. search' = s
    BY <1>7, <1>10
  <2> HIDE DEF s
  <2>5. Underway(search)'
    BY <2>3, <2>4 DEF Underway
  <2>6. QED
    BY <2>5 DEF SearchInv
<1>11. ASSUME WideEnough(found) PROVE SearchInv'
  <2>1. /\ Len(groups.static) \in Nat /\ Len(groups.dynamic) \in Nat
        /\ HitList(groups.static) /\ HitList(groups.dynamic)
    BY <1>9, HitListIs DEF GroupOf
  <2>2. ResponseValid(groups, q)
    <3>1. /\ HitList(ApplyFilters(found.static, q.filters)) /\ HitList(ApplyFilters(found.dynamic, q.filters))
      BY <1>2, <1>8, FilteredIs
    <3>2. /\ Len(ApplyFilters(found.static, q.filters)) \in Nat /\ Len(ApplyFilters(found.dynamic, q.filters)) \in Nat
      BY <3>1, HitListIs
    <3>3. QED
      BY <1>3, <1>9, <3>2 DEF GroupOf, Smaller, ResponseValid
  <2>3. search' = [phase |-> "answered", embedded |-> search.phase = "retrieve", request |-> q,
                   ranking |-> r, groups |-> groups, warnings |-> Warned]
    BY <1>7, <1>11, <2>2
  <2>4. /\ search'.phase = "answered" /\ search'.embedded = (search.phase = "retrieve") /\ search'.request = q
        /\ search'.ranking = r /\ search'.groups = groups /\ search'.warnings = Warned
    BY <2>3
  \* Filters cost no result: the loop ended with enough, or at the widest window.
  <2>5. FiltersCostNoResult'
    <3> DEFINE most == IF search.phase = "retrieve"
                         THEN Fuse(Truncated(r.vector, WindowMax), Truncated(r.keyword, WindowMax))
                         ELSE Truncated(r.keyword, WindowMax)
               passed == ApplyFilters(found.dynamic, q.filters)
    <3>1. Widest' = most
      BY <2>4 DEF Widest
    <3>2. HitList(most)
      <4>1. HitList(Truncated(r.vector, WindowMax)) /\ HitList(Truncated(r.keyword, WindowMax))
        BY <1>2, <1>5, TruncatedList
      <4>2. HitList(Fuse(Truncated(r.vector, WindowMax), Truncated(r.keyword, WindowMax)))
        BY <4>1, FuseIs DEF FusedList
      <4>3. QED
        BY <4>1, <4>2
    <3> HIDE DEF most
    <3>3. /\ Len(most) \in Nat /\ Len(ApplyFilters(most, q.filters)) \in Nat /\ Len(passed) \in Nat
          /\ Len(found.dynamic) \in Nat
      BY <1>2, <1>8, <3>2, FilteredIs, HitListIs
    <3>4. Len(passed) >= Smaller(q.topK, Len(ApplyFilters(most, q.filters)))
      <4>1. CASE ~q.filters
        <5>1. passed = found.dynamic /\ ApplyFilters(most, q.filters) = most
          BY <1>2, <1>8, <3>2, <4>1, FilteredIs
        <5>2. /\ Len(Truncated(r.keyword, w)) >= Smaller(q.topK, Len(Truncated(r.keyword, WindowMax)))
              /\ Len(Fuse(Truncated(r.vector, w), Truncated(r.keyword, w)))
                   >= Smaller(q.topK, Len(Fuse(Truncated(r.vector, WindowMax), Truncated(r.keyword, WindowMax))))
          <6>1. q.topK \in Nat /\ w <= WindowMax /\ WindowMax \in Nat
            BY <1>2, <1>3
          <6>2. QED
            BY <1>3, <1>5, <6>1, NarrowIsEnough
        <5>3. QED
          BY <1>1, <1>6, <5>1, <5>2 DEF FoundOf, most
      <4>2. CASE q.filters /\ search.wanted < WindowMax
        <5>1. Len(ApplyFilters(found.dynamic, TRUE)) >= q.topK
          <6>1. ~(search.wanted >= WindowMax)
            BY <1>1, <1>2, <4>2
          <6>2. QED
            BY <1>11, <4>2, <6>1, Zenon DEF WideEnough
        <5>2. q.filters = TRUE
          BY <1>2, <4>2
        <5>3. Len(passed) >= q.topK
          BY <5>1, <5>2
        <5> HIDE DEF passed
        <5>4. QED
          BY <1>2, <3>3, <5>3 DEF Smaller
      <4>3. CASE search.wanted = WindowMax
        <5>1. found.dynamic = most
          BY <1>1, <1>3, <1>6, <4>3 DEF FoundOf, most
        <5>2. passed = ApplyFilters(most, q.filters)
          BY <5>1
        <5> HIDE DEF passed
        <5>3. QED
          BY <1>2, <3>3, <5>2 DEF Smaller
      <4>4. QED
        BY <1>1, <1>2, <4>1, <4>2, <4>3
    <3>5. Len(groups.dynamic) = Smaller(Window(q.topK), Len(passed))
      BY <1>9 DEF GroupOf
    <3> HIDE DEF passed
    <3>6. Len(groups.dynamic) >= Smaller(q.topK, Len(ApplyFilters(most, q.filters)))
      BY <1>2, <1>3, <3>3, <3>4, <3>5 DEF Smaller
    <3>7. QED
      BY <2>4, <3>1, <3>6 DEF FiltersCostNoResult
  \* What passes, and nothing else.
  <2>6. AnswerPasses'
    <3> DEFINE Passes(group) ==
          /\ Cardinality(DocsOf(group)) = Len(group)
          /\ q.filters => \A d \in DocsOf(group) : \E list \in {r[l] : l \in DOMAIN r} :
               \E i \in DOMAIN list : list[i].doc = d /\ list[i].meta = "match"
          /\ ~q.includeMeta => \A i \in DOMAIN group : group[i].meta = "none"
    <3>1. ASSUME NEW hits, NEW group, HitList(hits), GroupOf(hits, q, group),
                 \A i \in 1 .. Len(hits) : \E l \in DOMAIN r : \E j \in DOMAIN r[l] :
                   r[l][j].doc = hits[i].doc /\ r[l][j].meta = hits[i].meta
          PROVE  Passes(group)
      <4>1. HitList(group)
        BY <3>1 DEF GroupOf
      <4>2. Cardinality(DocsOf(group)) = Len(group) /\ DOMAIN group = 1 .. Len(group)
        BY <4>1, DocsOfList, HitListIs
      <4>3. PICK f \in [1 .. Len(group) -> 1 .. Len(hits)] :
              \A i \in 1 .. Len(group) : group[i].doc = hits[f[i]].doc /\ (q.filters => hits[f[i]].meta = "match")
        BY <3>1 DEF GroupOf
      <4>4. ASSUME q.filters, NEW d \in DocsOf(group)
            PROVE  \E list \in {r[l] : l \in DOMAIN r} :
                     \E i \in DOMAIN list : list[i].doc = d /\ list[i].meta = "match"
        <5>1. PICK i \in 1 .. Len(group) : group[i].doc = d
          BY <4>2, <4>4 DEF DocsOf
        <5>2. f[i] \in 1 .. Len(hits) /\ hits[f[i]].doc = d /\ hits[f[i]].meta = "match"
          BY <4>3, <4>4, <5>1
        <5>3. PICK l \in DOMAIN r : \E j \in DOMAIN r[l] : r[l][j].doc = d /\ r[l][j].meta = "match"
          BY <3>1, <5>2
        <5>4. QED
          BY <5>3
      <4>5. ~q.includeMeta => \A i \in DOMAIN group : group[i].meta = "none"
        BY <3>1, <4>2 DEF GroupOf
      <4>6. QED
        BY <4>2, <4>4, <4>5
    <3> HIDE DEF Passes
    <3>2. Passes(groups.static) /\ Passes(groups.dynamic)
      BY <1>8, <1>9, <3>1
    <3>3. QED
      <4> SUFFICES ASSUME NEW group \in {groups.static, groups.dynamic} PROVE Passes(group)
        BY <2>4 DEF AnswerPasses, Passes, Answered
      <4>1. QED
        BY <3>2
  <2>7. FallbackAnswers'
    BY <1>1, <1>4, <2>4 DEF FallbackAnswers, Answered
  \* Both rankings count.
  <2>8. BothRankingsCount'
    <3> DEFINE docs == groups.dynamic
               v == r.vector
               k == r.keyword
    <3> SUFFICES ASSUME search.phase = "retrieve", Len(v) <= Window(q.topK), Len(k) <= Window(q.topK),
                        NEW i \in DOMAIN docs, NEW j \in DOMAIN docs,
                        Ahead(v, docs[i].doc, docs[j].doc, FALSE), Ahead(k, docs[i].doc, docs[j].doc, FALSE),
                        \/ Ahead(v, docs[i].doc, docs[j].doc, TRUE)
                        \/ Ahead(k, docs[i].doc, docs[j].doc, TRUE)
                 PROVE  i < j
      BY <2>4 DEF BothRankingsCount, Answered
    <3>1. Truncated(v, w) = v /\ Truncated(k, w) = k
      <4>1. Len(v) \in Nat /\ Len(k) \in Nat
        BY <1>5, HitListIs
      <4>2. Len(v) <= w /\ Len(k) <= w
        BY <1>2, <1>3, <4>1
      <4>3. QED
        BY <1>3, <1>5, <4>2, TruncatedList
    <3>2. found.dynamic = Fuse(v, k)
      BY <1>6, <3>1 DEF FoundOf
    <3>3. FusedList(v, k, found.dynamic)
      BY <1>5, <3>2, FuseIs
    <3>4. DOMAIN docs = 1 .. Len(docs)
      BY <2>1, HitListIs
    <3>5. PICK f \in [1 .. Len(docs) -> 1 .. Len(found.dynamic)] :
            /\ \A a, b \in 1 .. Len(docs) : a < b <=> f[a] < f[b]
            /\ \A a \in 1 .. Len(docs) : docs[a].doc = found.dynamic[f[a]].doc
      BY <1>9 DEF GroupOf
    <3>6. /\ i \in 1 .. Len(docs) /\ j \in 1 .. Len(docs)
          /\ f[i] \in 1 .. Len(found.dynamic) /\ f[j] \in 1 .. Len(found.dynamic)
      BY <3>4, <3>5
    <3> DEFINE a == found.dynamic[f[i]]
               b == found.dynamic[f[j]]
    <3>7. docs[i].doc = a.doc /\ docs[j].doc = b.doc
      BY <3>5, <3>6
    <3> HIDE DEF docs
    <3>8. More(FusedScore(v, k, a.doc), FusedScore(v, k, b.doc))
      <4>1. /\ Ahead(v, a.doc, b.doc, FALSE) /\ Ahead(k, a.doc, b.doc, FALSE)
            /\ Ahead(v, a.doc, b.doc, TRUE) \/ Ahead(k, a.doc, b.doc, TRUE)
        BY <3>7
      <4> HIDE DEF a, b
      <4>2. QED
        BY <1>5, <4>1, AheadIs
    <3>9. FusedBefore(v, k, a, b)
      BY <3>8 DEF More, FusedBefore
    <3>10. f[i] < f[j]
      BY <3>3, <3>6, <3>9 DEF FusedList
    <3>11. QED
      BY <3>5, <3>6, <3>10
  <2>9. QED
    BY <2>4, <2>5, <2>6, <2>7, <2>8 DEF SearchInv, AnswersComplete
<1>12. QED
  BY <1>10, <1>11

LEMMA SearchInvHolds == RetrievalSpec => []SearchInv
<1>1. RetrievalInit => SearchInv
  BY DEF RetrievalInit, SearchInv
<1>2. SearchInv /\ [RetrievalNext]_retrievalVars => SearchInv'
  <2> SUFFICES ASSUME SearchInv, [RetrievalNext]_retrievalVars PROVE SearchInv'
    OBVIOUS
  <2>1. search.phase \in {"embed", "retrieve", "fallback"} => Underway(search)
    BY DEF SearchInv, NoSearch
  <2>2. CASE search' = search
    <3>1. FiltersCostNoResult => FiltersCostNoResult'
      BY <2>2 DEF FiltersCostNoResult, Answered, Widest
    <3>2. AnswerPasses => AnswerPasses'
      <4> DEFINE Passes(s) ==
            s.phase = "answered" =>
              \A group \in {s.groups.static, s.groups.dynamic} :
                /\ Cardinality(DocsOf(group)) = Len(group)
                /\ s.request.filters =>
                     \A d \in DocsOf(group) : \E list \in {s.ranking[l] : l \in DOMAIN s.ranking} :
                       \E i \in DOMAIN list : list[i].doc = d /\ list[i].meta = "match"
                /\ ~s.request.includeMeta => \A i \in DOMAIN group : group[i].meta = "none"
      <4>1. AnswerPasses <=> Passes(search)
        BY Zenon DEF AnswerPasses, Answered
      <4>2. AnswerPasses' <=> Passes(search')
        BY Zenon DEF AnswerPasses, Answered
      <4> HIDE DEF Passes
      <4>3. QED
        BY <2>2, <4>1, <4>2
    <3>3. FallbackAnswers => FallbackAnswers'
      BY <2>2 DEF FallbackAnswers, Answered
    <3>4. BothRankingsCount => BothRankingsCount'
      BY <2>2 DEF BothRankingsCount, Answered
    <3>5. Underway(search) => Underway(search)'
      BY <2>2 DEF Underway
    <3>6. QED
      BY <2>2, <3>1, <3>2, <3>3, <3>4, <3>5 DEF SearchInv, AnswersComplete
  <2>3. CASE Start
    <3>1. PICK q \in SearchRequests, r \in Rankings :
            search' = [phase |-> "embed", request |-> q, ranking |-> r, tries |-> 0,
                       wanted |-> q.topK, warnings |-> 0]
      BY <2>3 DEF Start
    <3>2. q.topK \in 1 .. WindowMax /\ WindowMax \in Nat
      BY RequestIs, WindowIs
    <3>3. q.topK \in Nat /\ q.topK <= WindowMax
      BY <3>2
    <3> DEFINE s == [phase |-> "embed", request |-> q, ranking |-> r, tries |-> 0,
                     wanted |-> q.topK, warnings |-> 0]
    <3>4. Underway(s)
      BY <3>3 DEF Underway
    <3> HIDE DEF s
    <3>5. search' = s
      BY <3>1 DEF s
    <3>6. Underway(search)'
      BY <3>4, <3>5 DEF Underway
    <3>7. QED
      BY <3>6 DEF SearchInv
  <2>4. CASE Embed
    <3>1. search.phase = "embed" /\ Underway(search)
      BY <2>1, <2>4 DEF Embed
    <3>2. PICK phase \in {"embed", "retrieve", "fallback"}, tries \in Nat :
            search' = [search EXCEPT !.tries = tries, !.phase = phase]
      <4>1. CASE search' = [search EXCEPT !.phase = "retrieve"]
        <5>1. search' = [search EXCEPT !.tries = search.tries, !.phase = "retrieve"] /\ search.tries \in Nat
          BY <3>1, <4>1 DEF Underway
        <5>2. QED
          BY <5>1
      <4>2. CASE search' = [search EXCEPT !.tries = @ + 1, !.phase = IF search.tries = 0 THEN @ ELSE "fallback"]
        <5>1. search.tries + 1 \in Nat /\ (IF search.tries = 0 THEN search.phase ELSE "fallback") \in {"embed", "fallback"}
          BY <3>1 DEF Underway
        <5>2. QED
          BY <4>2, <5>1
      <4>3. QED
        BY <2>4, <4>1, <4>2 DEF Embed
    <3> DEFINE s == [search EXCEPT !.tries = tries, !.phase = phase]
    <3>3. Underway(s)
      BY <3>1 DEF Underway
    <3> HIDE DEF s
    <3>4. search' = s
      BY <3>2 DEF s
    <3>5. Underway(search)'
      BY <3>3, <3>4 DEF Underway
    <3>6. QED
      BY <3>5 DEF SearchInv
  <2>5. CASE Retrieve
    <3>1. Underway(search)
      BY <2>1, <2>5 DEF Retrieve
    <3>2. QED
      BY <2>5, <3>1, RetrieveKeeps
  <2>6. CASE RetrieverFails
    BY <2>6 DEF RetrieverFails, SearchInv
  <2>7. CASE Lookup
    BY <2>2, <2>7 DEF Lookup
  <2>8. CASE UNCHANGED retrievalVars
    BY <2>2, <2>8 DEF retrievalVars
  <2>9. QED
    BY <2>3, <2>4, <2>5, <2>6, <2>7, <2>8 DEF RetrievalNext, Route
<1>3. QED
  BY <1>1, <1>2, PTL DEF RetrievalSpec

\* router.rs:256, filter.rs, router.rs:263: whatever the rankings, the filters, the windows
\* and the failures of the embedding, an answered request has all that passes its filters
\* up to top_k, nothing else, and a warning if and only if it was answered by keyword alone.
THEOREM AnswersAlwaysComplete == RetrievalSpec => []AnswersComplete
<1>1. SearchInv => AnswersComplete
  <2>1. ASSUME SearchInv, search.phase \notin {"answered", "failed"} PROVE AnswersComplete
    BY <2>1 DEF AnswersComplete, FiltersCostNoResult, AnswerPasses, FallbackAnswers, Answered
  <2>2. ASSUME SearchInv, search.phase = "failed" PROVE AnswersComplete
    BY <2>2 DEF SearchInv, Underway, NoSearch, AnswersComplete, FiltersCostNoResult, AnswerPasses,
                FallbackAnswers, Answered
  <2>3. ASSUME SearchInv, search.phase = "answered" PROVE AnswersComplete
    BY <2>3 DEF SearchInv, Underway, NoSearch
  <2>4. QED
    BY <2>1, <2>2, <2>3
<1>2. QED
  BY <1>1, SearchInvHolds, PTL

\* ranker.rs:25: a chunk that neither ranking puts behind another, and one of them ahead of
\* it, comes first, for rankings of any length and any constant of the fusion.
THEOREM BothRankingsAlwaysCount == RetrievalSpec => []BothRankingsCount
<1>1. SearchInv => BothRankingsCount
  <2>1. ASSUME search.phase # "answered" PROVE BothRankingsCount
    BY <2>1 DEF BothRankingsCount, Answered
  <2>2. ASSUME SearchInv, search.phase = "answered" PROVE BothRankingsCount
    BY <2>2 DEF SearchInv, Underway, NoSearch
  <2>3. QED
    BY <2>1, <2>2
<1>2. QED
  BY <1>1, SearchInvHolds, PTL
=============================================================================
