------------------------------ MODULE MCGstTask ------------------------------
(***************************************************************************)
(* GstTask on small instances.  All variables are bounded by the code      *)
(* itself: no state constraint is needed.                                  *)
(***************************************************************************)
EXTENDS GstTask

CONSTANTS t1, w1, w2, c1, c2, l1, l2

OneTask   == {t1}
TwoWorkers == {w1, w2}
OneController == {c1}
TwoControllers == {c1, c2}
OneLock  == {l1}
TwoLocks == {l1, l2}
=============================================================================
