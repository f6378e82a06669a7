--------------------------- MODULE MCGstSystemClock ---------------------------
(***************************************************************************)
(* GstSystemClock with one synchronous wait, due at 2 or not at all before *)
(* the clock ends at MaxNow = 2, one single-shot and one periodic entry,   *)
(* and two clients.  The periodic entry comes to lie before and behind the *)
(* other one in the list.  A sleep is cut short by more than the time that *)
(* counts as no wait at all, as in the code (500 us and 100 ns).           *)
(***************************************************************************)
EXTENDS GstSystemClock
CONSTANTS s1, a1, p1, c1, c2
OneSync == {s1}
TwoAsync == {a1, p1}
OnePeriodic == {p1}
TwoClients == {c1, c2}
SomeStarts ==
  {[e \in {s1, a1, p1} |-> CASE e = p1 -> 1 [] e = a1 -> 2 [] e = s1 -> t] :
     t \in {2, 4}}
=============================================================================
