-------------------------- MODULE MCScheduleWindows --------------------------
(***************************************************************************)
(* Days of four minutes and weeks of two days: a window that begins at the *)
(* end of the first day and lasts into the second, and one of one minute   *)
(* within it. Time runs from the minute before to the minute after both.   *)
(***************************************************************************)
EXTENDS ScheduleWindows

Overlong == [weekdays |-> {0}, start |-> 3, end |-> 2]
Brief    == [weekdays |-> {0, 1}, start |-> 0, end |-> 1]

MCPlans == {Overlong, Brief}
=============================================================================
