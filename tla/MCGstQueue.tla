------------------------------ MODULE MCGstQueue ------------------------------
(***************************************************************************)
(* GstQueue on small instances.  A full queue is reached with one or two   *)
(* buffers, and max-size-buffers may change under way; the three sets of   *)
(* properties cover each way to treat a full queue, the signals that       *)
(* release qlock (silent FALSE) and flush-on-eos.                          *)
(***************************************************************************)
EXTENDS GstQueue

SomeConfigs ==
  {[leaky |-> "no", flushOnEos |-> FALSE, silent |-> FALSE],
   [leaky |-> "upstream", flushOnEos |-> FALSE, silent |-> TRUE],
   [leaky |-> "downstream", flushOnEos |-> TRUE, silent |-> TRUE]}
SomeMax == {1, 2}
SomeMin == {0, 1}
SomeKinds == {"buffer", "segment", "start", "eos", "query"}
NoHindrances == {}

\* For queue_query: the smallest queue, and EOS from downstream may come
\* while a query waits in it.
PlainConfig == {[leaky |-> "no", flushOnEos |-> FALSE, silent |-> TRUE]}
OneMax == {2}
NoMin == {0}
DataAndQuery == {"buffer", "query"}
EosMeetsQuery == {<<"EOS", "query">>}
=============================================================================
