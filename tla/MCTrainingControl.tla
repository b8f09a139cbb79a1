------------------------- MODULE MCTrainingControl -------------------------
(***************************************************************************)
(* Model checking of TrainingControl on days around the ends of months in  *)
(* a leap year and after it.                                               *)
(***************************************************************************)
EXTENDS TrainingControl, TLC

Day(year, month, day) == [year |-> year, month |-> month, day |-> day]

MCDays == {Day(2024, 1, 31), Day(2025, 3, 1)}

============================================================================
