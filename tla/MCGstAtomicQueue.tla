--------------------------- MODULE MCGstAtomicQueue --------------------------
(***************************************************************************)
(* GstAtomicQueue on small instances.                                      *)
(***************************************************************************)
EXTENDS GstAtomicQueue, TLC

CONSTANTS w1, w2, r1, r2

OneWriter  == {w1}
TwoWriters == {w1, w2}
OneReader  == {r1}
TwoReaders == {r1, r2}

Symmetry == Permutations(TwoWriters) \cup Permutations(TwoReaders)
=============================================================================
