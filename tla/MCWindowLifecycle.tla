------------------------- MODULE MCWindowLifecycle -------------------------
(* Model values for the tasks of WindowLifecycle.                           *)
EXTENDS WindowLifecycle

CONSTANTS t1, t2

OneTask        == {t1}
TwoTasks       == {t1, t2}
OneBlacklisted == {t2}
=============================================================================
