------------------------------ MODULE Calendar ------------------------------
(***************************************************************************)
(* The time stamps of presigned URLs (storage/src/presign.rs), and the     *)
(* Gregorian calendar they are to be read in.                              *)
(*                                                                         *)
(* An instant is a day since 1970-01-01 and a second of that day: the code *)
(* takes the seconds since the epoch apart in just this way.               *)
(***************************************************************************)
EXTENDS Integers

SecondsPerDay == 86400

Instants == [day : Nat, second : 0..(SecondsPerDay - 1)]

(* Days to year, month and day: years that begin in March are counted in   *)
(* eras of 400 years, the leap day being the last of its year.             *)
DayOfEra(days) == (days + 719468) % 146097
YearOfEra(doe) == (doe - doe \div 1460 + doe \div 36524 - doe \div 146096) \div 365
DayOfYear(doe) ==
  LET yoe == YearOfEra(doe)
  IN  doe - (365 * yoe + yoe \div 4 - yoe \div 100)

(* Of the months from March on, five in a row always have 153 days.        *)
MonthFromMarch(doy) == (5 * doy + 2) \div 153
MonthOf(doy) ==
  LET mp == MonthFromMarch(doy) IN IF mp < 10 THEN mp + 3 ELSE mp - 9
DayOfMonth(doy) == doy - (153 * MonthFromMarch(doy) + 2) \div 5 + 1

YearFromMarch(days) ==
  YearOfEra(DayOfEra(days)) + ((days + 719468) \div 146097) * 400

(* Mutant: January and February stay in the year that began in March.      *)
DaysToYmdInMarchYear(days) ==
  LET doy == DayOfYear(DayOfEra(days))
  IN  [year |-> YearFromMarch(days), month |-> MonthOf(doy), day |-> DayOfMonth(doy)]

DaysToYmd(days) ==
  LET doy == DayOfYear(DayOfEra(days))
      y == YearFromMarch(days)
      m == MonthOf(doy)
  IN  [year |-> IF m <= 2 THEN y + 1 ELSE y, month |-> m, day |-> DayOfMonth(doy)]

(* YYYYMMDDTHHMMSSZ, field by field.                                       *)
FormatUtc(t) ==
  [date   |-> DaysToYmd(t.day),
   hour   |-> t.second \div 3600,
   minute |-> (t.second % 3600) \div 60,
   second |-> t.second % 60]

(* The stamp of a URL and the date of its credential scope.                *)
AmzTimestamps(t) == [amzdate |-> FormatUtc(t), datestamp |-> FormatUtc(t).date]

-----------------------------------------------------------------------------
(***************************************************************************)
(* The Gregorian calendar, as whoever verifies a URL reads its stamp.      *)
(***************************************************************************)
LeapYear(y) == y % 4 = 0 /\ (y % 100 # 0 \/ y % 400 = 0)

DaysInMonth(y, m) ==
  IF m = 2 THEN IF LeapYear(y) THEN 29 ELSE 28
  ELSE IF m \in {4, 6, 9, 11} THEN 30 ELSE 31

(* The days from 1970-01-01 to the first of January of year y; 477 leap    *)
(* days came before 1970.                                                  *)
DaysBeforeYear(y) ==
  365 * (y - 1970) + ((y - 1) \div 4 - (y - 1) \div 100 + (y - 1) \div 400) - 477

DaysBeforeMonth(y, m) ==
  << 0, 31, 59, 90, 120, 151, 181, 212, 243, 273, 304, 334 >>[m]
    + (IF m > 2 /\ LeapYear(y) THEN 1 ELSE 0)

DayNumber(date) ==
  DaysBeforeYear(date.year) + DaysBeforeMonth(date.year, date.month) + date.day - 1

IsDate(date) ==
  /\ date.month \in 1..12
  /\ date.day \in 1..DaysInMonth(date.year, date.month)

ReadStamp(stamp) ==
  [day    |-> DayNumber(stamp.date),
   second |-> 3600 * stamp.hour + 60 * stamp.minute + stamp.second]
=============================================================================
