------------------------------ MODULE Calendar ------------------------------
(***************************************************************************)
(* The date arithmetic of backend/app/recurring/generation.py: `shift`,    *)
(* which places the n-th occurrence of a recurrence by counting from its   *)
(* immutable anchor, and the two pieces of Python's standard library it    *)
(* rests on (`datetime.date` ordinals and `calendar.monthrange`).          *)
(*                                                                         *)
(* A date is a record [year, month, day]; Ordinal numbers the days, so     *)
(* that dates compare as integers everywhere else in the project.          *)
(***************************************************************************)
EXTENDS Integers

Months == 1..12
Periods == {"day", "week", "month", "year"}

\* The proleptic Gregorian calendar, as Python's datetime and calendar have it.
IsLeap(y) == y % 4 = 0 /\ (y % 100 # 0 \/ y % 400 = 0)

MonthLength(y, m) ==
    IF m = 2 THEN IF IsLeap(y) THEN 29 ELSE 28
    ELSE IF m \in {4, 6, 9, 11} THEN 30 ELSE 31

\* Days of a common year before the first of each month.
DaysBefore == <<0, 31, 59, 90, 120, 151, 181, 212, 243, 273, 304, 334>>

\* date.toordinal: 0001-01-01 is day 1.
Ordinal(d) ==
    LET past == d.year - 1
    IN  365 * past + past \div 4 - past \div 100 + past \div 400
          + DaysBefore[d.month]
          + (IF d.month > 2 /\ IsLeap(d.year) THEN 1 ELSE 0)
          + d.day

\* The calendar dates (a constructor date(y, m, d) accepts nothing else).
IsDate(d) == d.month \in Months /\ d.day \in 1..MonthLength(d.year, d.month)
CalendarDates == {d \in [year : Int, month : Months, day : 1..31] : IsDate(d)}

-----------------------------------------------------------------------------

PeriodDays == [day |-> 1, week |-> 7]

\* The month `months` after the anchor's, the anchor's day clamped to its length.
MonthsLater(anchor, months) ==
    LET total == anchor.month - 1 + months
        year  == anchor.year + total \div 12
        month == (total % 12) + 1
        last  == MonthLength(year, month)
    IN  [year |-> year, month |-> month,
         day |-> IF anchor.day < last THEN anchor.day ELSE last]

\* Occurrence n counted from the anchor, never from the previous occurrence.
ShiftDate(anchor, period, n) ==
    IF period \in DOMAIN PeriodDays
    THEN Ordinal(anchor) + PeriodDays[period] * n
    ELSE Ordinal(MonthsLater(anchor, n * (IF period = "year" THEN 12 ELSE 1)))
=============================================================================
