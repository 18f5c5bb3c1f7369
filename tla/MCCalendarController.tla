----------------------- MODULE MCCalendarController -----------------------
(* Small instances of CalendarController for TLC. *)
EXTENDS CalendarController, TLC

CONSTANTS f1, f2

TwoFlushes == {f1, f2}
NoFailures == {}
AllFailures == {"unsent", "unanswered"}
===========================================================================
