------------------------------ MODULE Calendar ------------------------------
(***************************************************************************)
(* Days and dates (crates/andon-core/src/date.rs, and parse_stamp of       *)
(* crates/andon-ledger/src/fp_window.rs): a date is turned into its number *)
(* of days since 1970-01-01 by one formula and back by another, both with  *)
(* divisions that round towards zero.  The clock advances and the          *)
(* formulas have to keep up with it.                                       *)
(***************************************************************************)
EXTENDS Integers

CONSTANTS
    KnownDays, \* dates whose number of days is known: [date, days]
    MaxDays    \* bound: days walked from one of them

VARIABLES
    today,     \* the date
    hour,
    epoch,     \* where the walk began
    walked     \* days since

calendarVars == <<today, hour, epoch, walked>>

Date(year, month, day) == [year |-> year, month |-> month, day |-> day]

IsLeap(year) == (year % 4 = 0 /\ year % 100 # 0) \/ year % 400 = 0
DaysInMonth(year, month) ==
    CASE month \in {1, 3, 5, 7, 8, 10, 12} -> 31
      [] month \in {4, 6, 9, 11}           -> 30
      [] month = 2                         -> IF IsLeap(year) THEN 29 ELSE 28
      [] OTHER                             -> 0
IsDate(d) == d.month \in 1..12 /\ d.day \in 1..DaysInMonth(d.year, d.month)

(* The number of a day, counted and not computed: 365 days to a year since   *)
(* 1970, the leap days of the years before this one, 477 of them before      *)
(* 1970, and the days of the months before this one.                         *)
DaysBefore == <<0, 31, 59, 90, 120, 151, 181, 212, 243, 273, 304, 334>>
LeapDaysBefore(year) ==
    (year - 1) \div 4 - (year - 1) \div 100 + (year - 1) \div 400 - 477
DayNumber(d) ==
    365 * (d.year - 1970) + LeapDaysBefore(d.year) + DaysBefore[d.month]
    + (IF d.month > 2 /\ IsLeap(d.year) THEN 1 ELSE 0) + d.day - 1

ASSUME CalendarAssumption ==
    /\ MaxDays \in Nat
    /\ \A known \in KnownDays :
        /\ known.date = Date(known.date.year, known.date.month, known.date.day)
        /\ known.date.year \in Int /\ IsDate(known.date)
        /\ known.days = DayNumber(known.date)

\* Division that rounds towards zero.  Of the formulas, an era of 400 years
\* is the only one whose dividend is ever negative.
Quotient(a, b) == IF a >= 0 THEN a \div b ELSE -((-a) \div b)

\* Mutant: the era of what lies before year 0 rounded towards zero.
EraTowardsZero(n, length) == Quotient(n, length)
Era(n, length) == Quotient(IF n >= 0 THEN n ELSE n - (length - 1), length)

DaysOfEra == 146097
DaysToEpoch == 719468    \* from 1 March of the year 0

\* Years of an era and months of a year that begin in March: how many a
\* number of days holds, and how many days a number of them has.
YearsIn(doe) == (doe - doe \div 1460 + doe \div 36524 - doe \div 146096) \div 365
DaysOfYears(yoe) == 365 * yoe + yoe \div 4 - yoe \div 100
MonthsIn(doy) == (5 * doy + 2) \div 153
DaysOfMonths(mp) == (153 * mp + 2) \div 5

FromDayOfYear(y, doy) ==
    LET mp == MonthsIn(doy)
        month == IF mp < 10 THEN mp + 3 ELSE mp - 9
    IN  Date(y + (IF month <= 2 THEN 1 ELSE 0), month, doy - DaysOfMonths(mp) + 1)

FromDayOfEra(era, doe) ==
    LET yoe == YearsIn(doe)
    IN  FromDayOfYear(yoe + era * 400, doe - DaysOfYears(yoe))

FromDaysSinceEpoch(days) ==
    LET era == Era(days + DaysToEpoch, DaysOfEra)
    IN  FromDayOfEra(era, days + DaysToEpoch - era * DaysOfEra)

DaysFromCivil(d) ==
    LET y == d.year - (IF d.month <= 2 THEN 1 ELSE 0)
        era == Era(y, 400)
        mp == d.month + (IF d.month > 2 THEN -3 ELSE 9)
        doe == DaysOfYears(y - era * 400) + DaysOfMonths(mp) + d.day - 1
    IN  era * DaysOfEra + doe - DaysToEpoch

\* parse_stamp, of fields that are digits; days and seconds of the day apart.
Refused == <<>>
ParseStamp(d, hours, minutes, seconds) ==
    IF ~ IsDate(d) \/ hours > 23 \/ minutes > 59 \/ seconds > 59 THEN Refused
    ELSE <<DaysFromCivil(d), hours * 3600 + minutes * 60 + seconds>>

CalendarInit ==
    /\ epoch \in KnownDays
    /\ today = epoch.date
    /\ hour = 0
    /\ walked = 0

Tomorrow ==
    IF today.day < DaysInMonth(today.year, today.month)
    THEN [today EXCEPT !.day = @ + 1]
    ELSE IF today.month < 12 THEN Date(today.year, today.month + 1, 1)
    ELSE Date(today.year + 1, 1, 1)

HourPasses ==
    /\ hour' = (hour + 8) % 24
    /\ IF hour' # 0 THEN UNCHANGED <<today, walked>>
       ELSE /\ walked < MaxDays
            /\ walked' = walked + 1
            /\ today' = Tomorrow
    /\ UNCHANGED epoch

CalendarNext == HourPasses

CalendarSpec == CalendarInit /\ [][CalendarNext]_calendarVars

------------------------------------------------------------------------------
(* Every day has one number and every number one day: over month ends,      *)
(* leap days and the turns of centuries the two formulas follow the clock   *)
(* and undo each other, a stamp is the moment it names, and the day after   *)
(* the last of a month is no date of that month (andon-core, date.rs;       *)
(* andon-ledger, fp_window.rs, days_from_civil).                            *)
EveryDayHasItsNumber ==
    LET days == epoch.days + walked IN
    /\ FromDaysSinceEpoch(days) = today
    /\ ParseStamp(today, hour, 0, 59) = <<days, hour * 3600 + 59>>
    /\ ParseStamp([today EXCEPT !.day = DaysInMonth(today.year, today.month) + 1], hour, 0, 0)
           = Refused
=============================================================================
