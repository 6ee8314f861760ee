------------------------ MODULE MCRecurringGeneration ------------------------
(***************************************************************************)
(* Monthly and two-monthly schedules from 31 January 2024, where the clamp *)
(* to the last day of a month bites: the monthly one falls on 31 January,  *)
(* 29 February, 31 March and 30 April, the two-monthly one on 31 January,  *)
(* 31 March and 31 May.  The clock stands between two of those dates and   *)
(* then on one, so that a run finds nothing due, one occurrence, or more   *)
(* occurrences than the cap lets it post.                                  *)
(***************************************************************************)
EXTENDS RecurringGeneration

Cal == INSTANCE Calendar

Date(m, d) == [year |-> 2024, month |-> m, day |-> d]

MCAnchors == {Date(1, 31)}
MCCadences == {[period |-> "month", repeat_every |-> n] : n \in {1, 2}}
MCShift(a, c, i) == Cal!ShiftDate(a, c.period, c.repeat_every * i)
MCDays == {Cal!Ordinal(Date(3, 15)), Cal!Ordinal(Date(3, 31))}
MCEndDates == {Cal!Ordinal(Date(3, 1))}
MCCreator == [r \in Recs |-> CHOOSE u \in Users : TRUE]
=============================================================================
