----------------------------- MODULE MCGstPadTask ----------------------------
(***************************************************************************)
(* GstPadTask on small instances: two tasks can exist at a time (one being *)
(* stopped, one just started), so two pool threads, and two callers.       *)
(***************************************************************************)
EXTENDS GstPadTask

CONSTANTS t1, t2, w1, w2, c1, c2, l1

TwoTasks == {t1, t2}
TwoWorkers == {w1, w2}
TwoControllers == {c1, c2}
OneLock == {l1}
=============================================================================
