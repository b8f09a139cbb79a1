------------------------------ MODULE Calendar ------------------------------
(***************************************************************************)
(* Dates and add_months of app/services/document_workflow.py, by which     *)
(* review, retention and recertification dates are computed.  The calendar *)
(* itself is that of Python's datetime and calendar modules.               *)
(***************************************************************************)
EXTENDS Integers

Leap(year) == (year % 4 = 0 /\ year % 100 # 0) \/ year % 400 = 0

MonthLength(year, month) ==
    CASE month = 2              -> IF Leap(year) THEN 29 ELSE 28
      [] month \in {4, 6, 9, 11} -> 30
      [] OTHER                  -> 31

MINYEAR == 1
MAXYEAR == 9999

\* What datetime.date accepts.
IsDate(d) ==
    /\ d \in [year : MINYEAR .. MAXYEAR, month : 1 .. 12, day : 1 .. 31]
    /\ d.day <= MonthLength(d.year, d.month)

AddMonths(start, months) ==
    LET zero_based == start.month - 1 + months
        year  == start.year + (zero_based \div 12)
        month == (zero_based % 12) + 1
        last  == MonthLength(year, month)
    IN  [year  |-> year,
         month |-> month,
         day   |-> IF start.day < last THEN start.day ELSE last]

\* What the docstring promises: the date in the calendar month so many months
\* later, on the same day or, where the month has no such day, on its last.
\* The number of a month, counted from the beginning of the first year.
MonthNumber(d) == 12 * d.year + d.month

IsMonthsAfter(d, start, months) ==
    /\ IsDate(d)
    /\ MonthNumber(d) = MonthNumber(start) + months
    /\ \/ d.day = start.day
       \/ d.day < start.day /\ d.day = MonthLength(d.year, d.month)

=============================================================================
