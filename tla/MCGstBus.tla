------------------------------ MODULE MCGstBus -------------------------------
(***************************************************************************)
(* GstBus on a small instance: two posters, one application thread and the *)
(* flushing thread, with memory for two messages, one of a type nobody     *)
(* asks for.                                                               *)
(***************************************************************************)
EXTENDS GstBus

CONSTANTS p1, p2, c1, f1, m1, m2

TwoPosters == {p1, p2}
OneConsumer == {c1}
TwoMessages == {m1, m2}
OneWanted == {m1}
=============================================================================
