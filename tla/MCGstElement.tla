----------------------------- MODULE MCGstElement ----------------------------
(***************************************************************************)
(* GstElement on a small instance: two threads that set the state, one of  *)
(* the dataflow, one that waits.                                           *)
(***************************************************************************)
EXTENDS GstElement

CONSTANTS s1, s2, d1, g1

TwoSetters == {s1, s2}
OneStreamer == {d1}
OneGetter == {g1}
=============================================================================
