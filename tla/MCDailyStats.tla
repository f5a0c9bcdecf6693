---------------------------- MODULE MCDailyStats ----------------------------
(***************************************************************************)
(* A small instance of DailyStats for TLC.  The first worker has all its    *)
(* timers; a second one, started beside it, only runs its daily pass, the  *)
(* one whose rows the properties are about.                                *)
(***************************************************************************)
EXTENDS DailyStats

CONSTANT Main   \* the worker with all its timers

Due(w) == IF w = Main THEN Timer(w) ELSE RunDailyIfDue(w)

MCNext ==
    \/ Tick
    \/ ApiStep
    \/ \E w \in Workers : Due(w) \/ PassStep(w)
    \/ \E w \in Workers \ {Main} : Restart(w)

MCSpec == Init /\ [][MCNext]_vars
=============================================================================
