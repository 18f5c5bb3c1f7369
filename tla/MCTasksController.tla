------------------------- MODULE MCTasksController -------------------------
(* TasksController with three requests at a time. *)
EXTENDS TasksController

CONSTANTS c1, c2, c3

ThreeCalls == {c1, c2, c3}
=============================================================================
