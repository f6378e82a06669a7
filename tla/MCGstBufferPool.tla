--------------------------- MODULE MCGstBufferPool ---------------------------
(***************************************************************************)
(* GstBufferPool on small instances: two threads that compete for the last *)
(* buffer, one that returns buffers and one that controls the pool.        *)
(***************************************************************************)
EXTENDS GstBufferPool

CONSTANTS a1, a2, r1, c1

TwoAcquirers  == {a1, a2}
OneReleaser   == {r1}
OneController == {c1}

OneConfig == {[min |-> 2, max |-> 3]}
=============================================================================
