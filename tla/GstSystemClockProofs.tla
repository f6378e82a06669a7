------------------------- MODULE GstSystemClockProofs -------------------------
(***************************************************************************)
(* The system clock for any entries, clients, times and intervals: what is *)
(* unscheduled stays so, nothing happens early, the list is sorted, and    *)
(* nobody sleeps without a reason.                                         *)
(*                                                                         *)
(* ClockInv is about one wait at a time; SleepInv adds who holds the       *)
(* clock's lock, how far dispose has come, and the order of the list.      *)
(***************************************************************************)
EXTENDS GstSystemClock, FiniteSetTheorems, SequenceTheorems, TLAPS

ClockTypes ==
  /\ status \in [Entries -> Statuses]
  /\ wpc \in [Entries -> WaitPCs]
  /\ time \in [Entries -> Nat] /\ now \in Nat
  /\ stopping \in BOOLEAN
  /\ tpc \in ThreadPCs

(* A wait that holds its entry's lock and has read the status goes on only *)
(* with one that was not unscheduled; only dispose writes over that.       *)
ReadIsFresh ==
  \A e \in Entries :
    wpc[e] \in {"compute", "noted", "expired"} /\ status[e] = "UNSCHEDULED" => stopping

(* Waits on asynchronous entries are those of the clock's thread.          *)
ThreadWaits ==
  \A e \in Async : wpc[e] # "none" => tpc = "wait" /\ cur = e

ClockInv == ClockTypes /\ ReadIsFresh /\ ThreadWaits

-----------------------------------------------------------------------------
(* The wait on an entry.                                                   *)
LEMMA Returns ==
  ASSUME ClockInv, NEW e \in Entries, wpc[e] # "none",
         NEW res \in {"OK", "BUSY", "UNSCHEDULED"}, WaitReturns(e, res), UNCHANGED cur
  PROVE  /\ wpc' = [wpc EXCEPT ![e] = "none"] /\ tpc' \in ThreadPCs
         /\ ThreadWaits'
         /\ tpc # "call" /\ tpc' = "call" => res = "OK" /\ cur = e
<1> USE DEF ClockInv, ClockTypes
<1>1. wpc' = [wpc EXCEPT ![e] = "none"]
  BY DEF WaitReturns, WaitGoto
<1>2. CASE e \in Sync
  <2>1. UNCHANGED tpc /\ \A f \in Async : f # e
    BY <1>2, ClockAssumption DEF WaitReturns
  <2>2. ThreadWaits'
    BY <1>1, <2>1 DEF ThreadWaits, Entries
  <2>3. QED
    BY <1>1, <2>1, <2>2
<1>3. CASE e \notin Sync
  <2>1. e \in Async /\ tpc = "wait" /\ cur = e
    BY <1>3 DEF Entries, ThreadWaits
  <2>2. tpc' = CASE res = "UNSCHEDULED" -> "next" [] res = "BUSY" -> "again" [] OTHER -> "call"
    BY <1>3 DEF WaitReturns
  <2>3. \A f \in Async : wpc'[f] = "none"
    BY <1>1, <2>1 DEF ThreadWaits, Entries
  <2>4. QED
    BY <1>1, <2>1, <2>2, <2>3 DEF ThreadWaits, ThreadPCs
<1>4. QED
  BY <1>2, <1>3

LEMMA Moves ==
  ASSUME ClockInv, NEW e \in Entries, wpc[e] # "none", NEW pc \in WaitPCs, WaitGoto(e, pc),
         UNCHANGED <<tpc, cur>>
  PROVE  wpc' = [wpc EXCEPT ![e] = pc] /\ tpc' \in ThreadPCs /\ ThreadWaits'
BY DEF ClockInv, ClockTypes, WaitGoto, ThreadWaits, Entries

(* What a step of a wait may do.                                           *)
WaitOK(e) ==
  /\ \A f \in Entries : f # e => status'[f] = status[f] /\ wpc'[f] = wpc[f]
  /\ status[e] = "UNSCHEDULED" /\ status'[e] # "UNSCHEDULED" => stopping
  /\ wpc[e] \in Locking /\ wpc'[e] = "none" => status[e] = "UNSCHEDULED" \/ TimeHasCome(e) \/ e \in Async
  /\ tpc # "call" /\ tpc' = "call" => cur = e /\ TimeHasCome(e)

LEMMA WaitProgressOK ==
  ASSUME ClockInv, NEW e \in Entries, WaitProgress(e)
  PROVE  ClockInv' /\ WaitOK(e)
<1> USE DEF ClockInv, ClockTypes
<1>1. UNCHANGED <<cur, time, stopping, now>> /\ wpc[e] # "none"
  BY DEF WaitProgress, ReadStatus, Compute, Decide
<1>2. CASE ReadStatus(e)
  <2>1. UNCHANGED status
    BY <1>2 DEF ReadStatus
  <2>2. CASE status[e] = "UNSCHEDULED" /\ WaitReturns(e, "UNSCHEDULED")
    <3>1. /\ wpc' = [wpc EXCEPT ![e] = "none"] /\ tpc' \in ThreadPCs /\ ThreadWaits'
          /\ ~(tpc # "call" /\ tpc' = "call")
      BY <1>1, <2>2, Returns
    <3>2. ReadIsFresh'
      BY <1>1, <2>1, <3>1 DEF ReadIsFresh
    <3>3. QED
      BY <1>1, <2>1, <2>2, <3>1, <3>2 DEF WaitOK, WaitPCs
  <2>3. CASE status[e] # "UNSCHEDULED"
    <3>1. PICK pc \in {"compute", "noted", "expired"} : WaitGoto(e, pc) /\ UNCHANGED tpc
      BY <1>2, <2>3 DEF ReadStatus
    <3>2. wpc' = [wpc EXCEPT ![e] = pc] /\ tpc' \in ThreadPCs /\ ThreadWaits'
      BY <1>1, <3>1, Moves DEF WaitPCs
    <3>3. ReadIsFresh'
      BY <1>1, <2>1, <2>3, <3>2 DEF ReadIsFresh
    <3>4. QED
      BY <1>1, <2>1, <3>1, <3>2, <3>3 DEF WaitOK, WaitPCs
  <2>4. QED
    BY <1>2, <2>2, <2>3 DEF ReadStatus
<1>3. CASE Compute(e) \/ Decide(e)
  <2>1. wpc[e] \in {"compute", "noted", "expired"}
    BY <1>3 DEF Compute, Decide
  <2>2. status[e] = "UNSCHEDULED" => stopping
    BY <2>1 DEF ReadIsFresh
  <2>3. UNCHANGED status \/ \E s \in {"OK", "EARLY", "BUSY"} : SetStatus(e, s)
    BY <1>3 DEF Compute, Decide
  <2>4. status' \in [Entries -> Statuses] /\ \A f \in Entries : f # e => status'[f] = status[f]
    BY <2>3 DEF SetStatus, Statuses
  <2>5. CASE WaitGoto(e, "asleep") /\ UNCHANGED tpc
    <3>1. wpc' = [wpc EXCEPT ![e] = "asleep"] /\ tpc' \in ThreadPCs /\ ThreadWaits'
      BY <1>1, <2>5, Moves DEF WaitPCs
    <3>2. ReadIsFresh'
      BY <1>1, <2>4, <3>1 DEF ReadIsFresh
    <3>3. QED
      BY <1>1, <2>2, <2>4, <2>5, <3>1, <3>2 DEF WaitOK, WaitPCs
  <2>6. CASE WaitReturns(e, "OK") /\ TimeHasCome(e)
    <3>1. /\ wpc' = [wpc EXCEPT ![e] = "none"] /\ tpc' \in ThreadPCs /\ ThreadWaits'
          /\ tpc # "call" /\ tpc' = "call" => cur = e
      BY <1>1, <2>6, Returns
    <3>2. ReadIsFresh'
      BY <1>1, <2>4, <3>1 DEF ReadIsFresh
    <3>3. QED
      BY <1>1, <2>2, <2>4, <2>6, <3>1, <3>2 DEF WaitOK, WaitPCs
  <2>7. CASE WaitReturns(e, "BUSY") /\ e \in Async
    <3>1. /\ wpc' = [wpc EXCEPT ![e] = "none"] /\ tpc' \in ThreadPCs /\ ThreadWaits'
          /\ ~(tpc # "call" /\ tpc' = "call")
      BY <1>1, <2>7, Returns
    <3>2. ReadIsFresh'
      BY <1>1, <2>4, <3>1 DEF ReadIsFresh
    <3>3. QED
      BY <1>1, <2>2, <2>4, <2>7, <3>1, <3>2 DEF WaitOK, WaitPCs
  <2>8. QED
    BY <1>3, <2>5, <2>6, <2>7 DEF Compute, Decide
<1>4. QED
  BY <1>2, <1>3 DEF WaitProgress

-----------------------------------------------------------------------------
(* A step that is not that of a wait.                                      *)
OtherOK ==
  /\ \A e \in Entries : status[e] = "UNSCHEDULED" /\ status'[e] # "UNSCHEDULED" => stopping \/ Idle(e)
  /\ \A e \in Entries : wpc[e] \in Locking => wpc'[e] = wpc[e]
  /\ ~(tpc # "call" /\ tpc' = "call")

LEMMA StartsOK ==
  ASSUME ClockInv, NEW e \in Entries,
         (WaitSync(e) /\ e \in Sync) \/ WaitSleeps(e) \/ Create(e)
  PROVE  ClockInv' /\ OtherOK
<1> USE DEF ClockInv, ClockTypes
<1>1. UNCHANGED <<now, tpc, cur, stopping>>
  BY DEF WaitSync, WaitSleeps, SleepEnds, Create, threadVars
<1>2. CASE WaitSync(e) /\ e \in Sync
  <2>1. /\ status' = [status EXCEPT ![e] = "BUSY"] /\ wpc' = [wpc EXCEPT ![e] = "test"]
        /\ wpc[e] = "none" /\ status[e] # "UNSCHEDULED" /\ UNCHANGED time /\ e \notin Async
    BY <1>2, ClockAssumption DEF WaitSync, SetStatus, WaitGoto
  <2>2. ClockTypes'
    BY <1>1, <2>1 DEF Statuses, WaitPCs
  <2>3. ReadIsFresh' /\ ThreadWaits'
    BY <1>1, <2>1 DEF ReadIsFresh, ThreadWaits, Entries
  <2>4. OtherOK
    BY <1>1, <2>1 DEF OtherOK, Locking
  <2>5. QED
    BY <2>2, <2>3, <2>4
<1>3. CASE WaitSleeps(e)
  <2>1. PICK pc \in {"signalled", "timedOut"} : wpc' = [wpc EXCEPT ![e] = pc]
    BY <1>3 DEF WaitSleeps, SleepEnds, WaitGoto
  <2>2. wpc[e] = "asleep" /\ UNCHANGED <<status, time>>
    BY <1>3 DEF WaitSleeps, SleepEnds
  <2>3. ClockTypes'
    BY <1>1, <2>1, <2>2 DEF WaitPCs
  <2>4. ReadIsFresh' /\ ThreadWaits'
    BY <1>1, <2>1, <2>2 DEF ReadIsFresh, ThreadWaits, Entries
  <2>5. OtherOK
    BY <1>1, <2>1, <2>2 DEF OtherOK, Locking
  <2>6. QED
    BY <2>3, <2>4, <2>5
<1>4. CASE Create(e)
  <2>1. PICK t \in Starts : time' = [time EXCEPT ![e] = t[e]]
    BY <1>4 DEF Create
  <2>2. status' = [status EXCEPT ![e] = "OK"] /\ UNCHANGED wpc /\ Idle(e) /\ t[e] \in Nat
    BY <1>4, <2>1, ClockAssumption DEF Create, SetStatus
  <2>3. ClockTypes'
    BY <1>1, <2>1, <2>2 DEF Statuses
  <2>4. ReadIsFresh' /\ ThreadWaits'
    BY <1>1, <2>2 DEF ReadIsFresh, ThreadWaits
  <2>5. OtherOK
    BY <1>1, <2>2 DEF OtherOK
  <2>6. QED
    BY <2>3, <2>4, <2>5
<1>5. QED
  BY <1>2, <1>3, <1>4

(* The clock's thread.                                                     *)
LEMMA TopOK ==
  ASSUME NEW l, AtTop(l)
  PROVE  tpc' \in {"exited", "waiting", "pick"}
BY DEF AtTop

LEMMA ThreadOK ==
  ASSUME ClockInv, ThreadStep
  PROVE  ClockInv' /\ OtherOK
<1> USE DEF ClockInv, ClockTypes
<1>1. UNCHANGED <<now, stopping>>
  BY DEF ThreadStep
<1>2. CASE ThreadLocks
  <2>1. UNCHANGED <<status, wpc>> /\ tpc # "wait" /\ tpc' \in {"exited", "waiting", "pick"}
    BY <1>2, TopOK DEF ThreadLocks, ThreadLooks, Reschedule, RemoveEntry
  <2>2. UNCHANGED time \/ time' = [time EXCEPT ![cur] = @ + Interval]
    BY <1>2 DEF ThreadLocks, ThreadLooks, Reschedule, RemoveEntry
  <2>3. time' \in [Entries -> Nat]
    BY <2>2, ClockAssumption
  <2>4. ReadIsFresh' /\ ThreadWaits'
    BY <1>1, <2>1 DEF ReadIsFresh, ThreadWaits
  <2>5. QED
    BY <1>1, <2>1, <2>3, <2>4 DEF OtherOK, ThreadPCs
<1>3. CASE Pick
  <2>1. UNCHANGED <<time, cur>> /\ tpc = "pick"
    BY <1>3 DEF Pick
  <2>2. CASE tpc' = "next" /\ UNCHANGED <<status, wpc>>
    BY <1>1, <2>1, <2>2 DEF OtherOK, ThreadPCs, ReadIsFresh, ThreadWaits
  <2>3. CASE /\ status[cur] # "UNSCHEDULED" /\ tpc' = "wait"
             /\ status' = [status EXCEPT ![cur] = "BUSY"] /\ wpc' = [wpc EXCEPT ![cur] = "test"]
    <3>1. \A e \in Async : wpc[e] = "none"
      BY <2>1 DEF ThreadWaits
    <3>2. status' \in [Entries -> Statuses] /\ wpc' \in [Entries -> WaitPCs]
      BY <2>3 DEF Statuses, WaitPCs
    <3>3. ReadIsFresh'
      BY <1>1, <2>3 DEF ReadIsFresh
    <3>4. ThreadWaits'
      BY <2>1, <2>3, <3>1 DEF ThreadWaits, Entries
    <3>5. wpc[cur] \notin Locking
      BY <1>3 DEF Pick
    <3>6. OtherOK
      BY <2>1, <2>3, <3>5 DEF OtherOK
    <3>7. QED
      BY <1>1, <2>1, <2>3, <3>2, <3>3, <3>4, <3>6 DEF ThreadPCs
  <2>4. QED
    BY <1>3, <2>2, <2>3 DEF Pick, SetStatus, WaitGoto
<1>4. CASE Callback
  <2>1. UNCHANGED <<status, wpc, time>> /\ tpc = "call" /\ tpc' \in {"sort", "next"}
    BY <1>4 DEF Callback
  <2>2. QED
    BY <1>1, <2>1 DEF OtherOK, ThreadPCs, ReadIsFresh, ThreadWaits
<1>5. QED
  BY <1>2, <1>3, <1>4 DEF ThreadStep

(* The clients.                                                            *)
LEMMA WakesOK ==
  ASSUME WakeThread
  PROVE  tpc' = tpc \/ (tpc = "waiting" /\ tpc' = "woken")
BY DEF WakeThread

LEMMA SignalOK ==
  ASSUME ClockTypes, NEW e, Signal(e)
  PROVE  /\ wpc' \in [Entries -> WaitPCs]
         /\ \A f \in Entries : wpc'[f] = wpc[f] \/ (wpc[f] = "asleep" /\ wpc'[f] = "signalled")
<1>1. \A f \in Entries : wpc'[f] = IF f = e /\ wpc[f] = "asleep" THEN "signalled" ELSE wpc[f]
  BY DEF Signal, ClockTypes
<1>2. QED
  BY <1>1 DEF Signal, ClockTypes, WaitPCs

LEMMA ClientOK ==
  ASSUME ClockInv, NEW c \in Clients,
         ClientProgress(c) \/ Dispose(c) \/ \E e \in Entries : WaitAsync(c, e) \/ Unschedule(c, e)
  PROVE  ClockInv' /\ OtherOK
<1> USE DEF ClockInv, ClockTypes
<1>1. UNCHANGED <<now, time, cur>>
  BY DEF ClientProgress, SpunUp, Insert, Kick, UnscheduleEntry, DisposeHead, Join, Dispose, WaitAsync,
         Unschedule, entryVars, threadVars
<1>2. tpc' = tpc \/ (tpc = "waiting" /\ tpc' = "woken") \/ (tpc = "none" /\ tpc' = "spin")
      \/ (tpc = "exited" /\ tpc' = "none")
  BY WakesOK
  DEF ClientProgress, SpunUp, Insert, Kick, UnscheduleEntry, DisposeHead, Join, Dispose, WaitAsync,
      Unschedule, threadVars
<1>3. stopping' \in BOOLEAN /\ (stopping => stopping')
  BY DEF ClientProgress, SpunUp, Insert, Kick, UnscheduleEntry, DisposeHead, Join, Dispose, WaitAsync,
         Unschedule
<1>4. \/ UNCHANGED wpc
      \/ \E e : Signal(e)
  BY DEF ClientProgress, SpunUp, Insert, Kick, UnscheduleEntry, DisposeHead, Join, Dispose, WaitAsync,
         Unschedule, entryVars
<1>5. /\ wpc' \in [Entries -> WaitPCs]
      /\ \A f \in Entries : wpc'[f] = wpc[f] \/ (wpc[f] = "asleep" /\ wpc'[f] = "signalled")
  BY <1>4, SignalOK
<1>6. /\ status' \in [Entries -> Statuses]
      /\ \A f \in Entries :
           \/ status'[f] = status[f]
           \/ status'[f] = "UNSCHEDULED" /\ (wpc[f] \notin Locking \/ stopping')
  <2>1. CASE UnscheduleEntry(c)
    <3>1. status' = [status EXCEPT ![centry[c]] = "UNSCHEDULED"] /\ wpc[centry[c]] \notin Locking
      BY <2>1 DEF UnscheduleEntry, SetStatus
    <3>2. \A f \in Entries : status'[f] = IF f = centry[c] THEN "UNSCHEDULED" ELSE status[f]
      BY <3>1
    <3>3. status' \in [Entries -> Statuses]
      BY <3>1 DEF Statuses
    <3>4. QED
      BY <3>1, <3>2, <3>3
  <2>2. CASE Dispose(c)
    BY <2>2 DEF Dispose, Statuses
  <2>3. CASE ~UnscheduleEntry(c) /\ ~Dispose(c)
    <3>1. UNCHANGED status
      BY <2>3 DEF ClientProgress, SpunUp, Insert, Kick, DisposeHead, Join, WaitAsync, Unschedule, entryVars
    <3>2. QED
      BY <3>1
  <2>4. QED
    BY <2>1, <2>2, <2>3
<1>7. ReadIsFresh'
  BY <1>3, <1>5, <1>6 DEF ReadIsFresh, Locking
<1>8. ThreadWaits'
  BY <1>1, <1>2, <1>5 DEF ThreadWaits, Entries
<1>9. OtherOK
  BY <1>2, <1>5, <1>6 DEF OtherOK, Locking
<1>10. QED
  BY <1>1, <1>2, <1>3, <1>5, <1>6, <1>7, <1>8, <1>9 DEF ThreadPCs

-----------------------------------------------------------------------------
StepOK == OtherOK \/ \E e \in Entries : WaitOK(e)

LEMMA ClockNext ==
  ASSUME ClockInv, Next
  PROVE  ClockInv' /\ StepOK
<1>1. CASE Tick
  BY <1>1 DEF Tick, entryVars, threadVars, ClockInv, ClockTypes, ReadIsFresh, ThreadWaits, StepOK, OtherOK
<1>2. QED
  BY <1>1, WaitProgressOK, StartsOK, ThreadOK, ClientOK DEF Next, Entries, StepOK

LEMMA ClockStays ==
  ASSUME ClockInv, UNCHANGED vars
  PROVE  ClockInv'
BY DEF vars, entryVars, threadVars, ClockInv, ClockTypes, ReadIsFresh, ThreadWaits

LEMMA ClockInit == Init => ClockInv
<1> SUFFICES ASSUME Init PROVE ClockInv
  OBVIOUS
<1>1. time \in [Entries -> Nat]
  BY ClockAssumption DEF Init
<1>2. ClockTypes
  BY <1>1 DEF Init, ClockTypes, Statuses, WaitPCs, ThreadPCs
<1>3. QED
  BY <1>2 DEF Init, ClockInv, ReadIsFresh, ThreadWaits, Entries

LEMMA ClockInvariance == Spec => []ClockInv
<1>1. ClockInv /\ [Next]_vars => ClockInv'
  BY ClockNext, ClockStays
<1>2. QED
  BY <1>1, ClockInit, PTL DEF Spec

(* gstsystemclock.c:1278: whatever wait begins, ends or begins again       *)
(* around an unschedule, the entry stays unscheduled.                      *)
THEOREM UnscheduledStays == Spec => UnscheduledIsFinal
<1> DEFINE A == \A e \in Entries :
                  status[e] = "UNSCHEDULED" /\ status'[e] # "UNSCHEDULED" => stopping \/ Idle(e)
<1>1. ClockInv /\ [Next]_vars => [A]_vars
  BY ClockNext DEF StepOK, OtherOK, WaitOK
<1>2. QED
  BY <1>1, ClockInvariance, PTL DEF Spec, UnscheduledIsFinal

(* gstsystemclock.c:979, 1051-1079: no wait ends, and no callback is       *)
(* called, more than CLOCK_MIN_WAIT_TIME before the time of its entry.     *)
THEOREM NeverBefore == Spec => NeverEarly
<1> DEFINE A == \A e \in Entries :
                  /\ e \in Sync /\ wpc[e] \in Locking /\ wpc'[e] = "none" =>
                       status[e] = "UNSCHEDULED" \/ TimeHasCome(e)
                  /\ tpc # "call" /\ tpc' = "call" => TimeHasCome(cur)
<1>1. ClockInv /\ [Next]_vars => [A]_vars
  <2>1. ASSUME OtherOK PROVE A
    BY <2>1 DEF OtherOK, Locking
  <2>2. ASSUME NEW e \in Entries, WaitOK(e) PROVE A
    BY <2>2, ClockAssumption DEF WaitOK, Locking
  <2>3. QED
    BY <2>1, <2>2, ClockNext DEF StepOK
<1>2. QED
  BY <1>1, ClockInvariance, PTL DEF Spec, NeverEarly

-----------------------------------------------------------------------------
(* The operators on the list.                                              *)
(* Every nonempty set of numbers has a least element.                      *)
LEMMA Least ==
  ASSUME NEW S, S \subseteq Nat, S # {}
  PROVE  Min(S) \in S /\ \A m \in S : Min(S) <= m
<1> DEFINE R == OpToRel(<, Nat)
<1>1. IsWellFoundedOn(R, Nat)
  BY NatLessThanWellFounded
<1>2. ASSUME NEW m \in Nat, NEW n \in Nat, m < n
      PROVE  <<m, n>> \in R
  BY <1>2 DEF OpToRel
<1> HIDE DEF R
<1>3. PICK n \in S : \A m \in S : ~(<<m, n>> \in R)
  BY <1>1, WFMin
<1>4. ASSUME NEW m \in S
      PROVE  n <= m
  <2>1. ~(m < n)
    BY <1>2, <1>3
  <2> QED
    BY <2>1
<1>5. n \in S /\ \A m \in S : n <= m
  BY <1>4
<1> QED
  BY <1>5 DEF Min

-----------------------------------------------------------------------------
(* The list is sorted, and stays so.                                       *)
InOrder(l, t) == \A i, j \in 1..Len(l) : i <= j => t[l[i]] <= t[l[j]]

(* The positions of a list up to i in the order of times.                  *)
UpTo(l, t, i) == {j \in DOMAIN l : t[l[j]] < t[l[i]] \/ (t[l[j]] = t[l[i]] /\ j <= i)}

LEMMA Ranks ==
  ASSUME NEW S, NEW l \in Seq(S), NEW t, \A f \in S : t[f] \in Nat
  PROVE  /\ \A i \in 1..Len(l) : Cardinality(UpTo(l, t, i)) \in 1..Len(l)
         /\ \A i, j \in 1..Len(l) :
              t[l[i]] < t[l[j]] \/ (t[l[i]] = t[l[j]] /\ i < j) =>
                Cardinality(UpTo(l, t, i)) < Cardinality(UpTo(l, t, j))
<1> DEFINE D == 1..Len(l)
           R(i) == Cardinality(UpTo(l, t, i))
<1>1. Len(l) \in Nat /\ DOMAIN l = D /\ \A i \in D : l[i] \in S /\ t[l[i]] \in Nat
  BY LenProperties
<1>2. IsFiniteSet(D) /\ Cardinality(D) = Len(l)
  <2>1. ASSUME NEW a \in Int, NEW b \in Int
        PROVE  IsFiniteSet(a..b) /\ Cardinality(a..b) = IF a > b THEN 0 ELSE b - a + 1
    BY FS_Interval, Zenon
  <2>2. 1 \in Int /\ Len(l) \in Int
    BY <1>1
  <2>3. IsFiniteSet(D) /\ Cardinality(D) = IF 1 > Len(l) THEN 0 ELSE Len(l) - 1 + 1
    BY <2>1, <2>2, Zenon
  <2> QED
    BY <1>1, <2>3
<1>3. \A i \in D : i \in UpTo(l, t, i) /\ UpTo(l, t, i) \in SUBSET D
  BY <1>1 DEF UpTo
<1>4. \A i \in D : IsFiniteSet(UpTo(l, t, i)) /\ R(i) \in Nat /\ R(i) <= Len(l)
  BY <1>2, <1>3, FS_Subset, FS_CardinalityType
<1>5. ASSUME NEW i \in D PROVE R(i) \in 1..Len(l)
  <2>1. R(i) # 0
    BY <1>3, <1>4, FS_EmptySet
  <2> QED
    BY <1>1, <1>4, <2>1
<1>6. ASSUME NEW i \in D, NEW j \in D, t[l[i]] < t[l[j]] \/ (t[l[i]] = t[l[j]] /\ i < j)
      PROVE  R(i) < R(j)
  <2>1. UpTo(l, t, i) \in SUBSET UpTo(l, t, j) /\ j \notin UpTo(l, t, i)
    BY <1>1, <1>6 DEF UpTo
  <2>2. j \in UpTo(l, t, j)
    BY <1>3
  <2>3. R(i) <= R(j) /\ R(i) # R(j)
    BY <1>4, <2>1, <2>2, FS_Subset
  <2> QED
    BY <1>4, <2>3
<1> QED
  BY <1>5, <1>6

LEMMA Sorts ==
  ASSUME NEW S, NEW l \in Seq(S), NEW t, \A f \in S : t[f] \in Nat
  PROVE  SortedBy(l, t) \in Seq(S) /\ InOrder(SortedBy(l, t), t)
<1> DEFINE D == 1..Len(l)
           R(i) == Cardinality(UpTo(l, t, i))
           f == [i \in D |-> R(i)]
           at(k) == CHOOSE i \in DOMAIN l : R(i) = k
<1>1. Len(l) \in Nat /\ DOMAIN l = D /\ \A i \in D : l[i] \in S /\ t[l[i]] \in Nat
  BY LenProperties
<1>2. /\ \A i \in D : R(i) \in D
      /\ \A i, j \in D : t[l[i]] < t[l[j]] \/ (t[l[i]] = t[l[j]] /\ i < j) => R(i) < R(j)
  BY Ranks
<1> HIDE DEF R
<1>3. \A i, j \in D : R(i) = R(j) => i = j
  <2>1. \A i \in D : R(i) \in Nat
    BY <1>1, <1>2
  <2> SUFFICES ASSUME NEW i \in D, NEW j \in D, i # j PROVE R(i) # R(j)
    OBVIOUS
  <2>2. \/ t[l[i]] < t[l[j]] \/ (t[l[i]] = t[l[j]] /\ i < j)
        \/ t[l[j]] < t[l[i]] \/ (t[l[j]] = t[l[i]] /\ j < i)
    BY <1>1
  <2>3. R(i) < R(j) \/ R(j) < R(i)
    BY <1>2, <2>2
  <2> QED
    BY <2>1, <2>3
<1>4. \A k \in D : \E i \in D : R(i) = k
  <2>1. f \in [D -> D]
    BY <1>2
  <2>2. f \in Injection(D, D)
    BY <1>3, <2>1 DEF Injection, IsInjective
  <2>3. IsFiniteSet(D)
    <3>1. 1 \in Int /\ Len(l) \in Int
      BY <1>1
    <3> QED
      BY <3>1, FS_Interval, Zenon
  <2>4. f \in Surjection(D, D)
    BY <2>2, <2>3, FS_Injection
  <2>5. ASSUME NEW k \in D PROVE \E i \in D : f[i] = k
    BY <2>4 DEF Surjection
  <2> QED
    BY <2>5
<1>5. \A k \in D : at(k) \in D /\ R(at(k)) = k
  BY <1>1, <1>4
<1>6. SortedBy(l, t) = [k \in D |-> l[at(k)]]
  BY <1>1 DEF SortedBy, UpTo, R
<1> HIDE DEF at
<1>7. SortedBy(l, t) \in Seq(S) /\ Len(SortedBy(l, t)) = Len(l)
  <2>1. \A k \in D : l[at(k)] \in S
    BY <1>1, <1>5
  <2>2. SortedBy(l, t) \in [1..Len(l) -> S]
    BY <1>6, <2>1
  <2> QED
    BY <1>1, <2>2
<1>8. ASSUME NEW i \in D, NEW j \in D, i <= j
      PROVE  t[l[at(i)]] <= t[l[at(j)]]
  <2>1. ~(t[l[at(j)]] < t[l[at(i)]])
    <3>1. SUFFICES ASSUME t[l[at(j)]] < t[l[at(i)]] PROVE FALSE
      OBVIOUS
    <3>2. R(at(j)) < R(at(i))
      BY <1>2, <1>5, <3>1
    <3> QED
      BY <1>1, <1>5, <1>8, <3>2
  <2> QED
    BY <1>1, <1>5, <2>1
<1> QED
  BY <1>6, <1>7, <1>8 DEF InOrder

(* g_list_insert_sorted and g_list_remove keep the order; a new first      *)
(* entry is the inserted one.                                              *)
LEMMA Inserts ==
  ASSUME NEW S, NEW l \in Seq(S), NEW t, \A f \in S : t[f] \in Nat, NEW e \in S, InOrder(l, t)
  PROVE  /\ Inserted(e, l, t) \in Seq(S) /\ InOrder(Inserted(e, l, t), t)
         /\ Inserted(e, l, t) # <<>>
         /\ l # <<>> => Head(Inserted(e, l, t)) \in {e, Head(l)}
<1> DEFINE P == {i \in 1..(Len(l) + 1) : i <= Len(l) => t[l[i]] >= t[e]}
           n == Min(P)
           r == Inserted(e, l, t)
<1>1. Len(l) \in Nat /\ \A i \in 1..Len(l) : l[i] \in S /\ t[l[i]] \in Nat
  BY LenProperties
<1>2. n \in P /\ \A i \in P : n <= i
  <2>1. Len(l) + 1 \in P
    BY <1>1
  <2>2. P \subseteq Nat
    BY <1>1
  <2> HIDE DEF P
  <2> QED
    BY <2>1, <2>2, Least
<1>3. n \in 1..(Len(l) + 1) /\ (n <= Len(l) => t[l[n]] >= t[e])
  BY <1>2
<1>4. \A i \in 1..(n - 1) : t[l[i]] < t[e]
  <2> SUFFICES ASSUME NEW i \in 1..(n - 1) PROVE t[l[i]] < t[e]
    OBVIOUS
  <2>1. i \in 1..Len(l) /\ i < n
    BY <1>1, <1>3
  <2>2. i \notin P
    BY <1>2, <1>3, <2>1
  <2>3. ~(t[l[i]] >= t[e])
    BY <1>1, <2>1, <2>2
  <2> QED
    BY <1>1, <2>1, <2>3
<1>5. r = SubSeq(l, 1, n - 1) \o <<e>> \o SubSeq(l, n, Len(l))
  BY DEF Inserted, InsertAt
<1> HIDE DEF n, P
<1>6. /\ r \in Seq(S) /\ Len(r) = Len(l) + 1
      /\ \A i \in 1..(Len(l) + 1) :
           r[i] = IF i < n THEN l[i] ELSE IF i = n THEN e ELSE l[i - 1]
  <2>1. /\ SubSeq(l, 1, n - 1) \in Seq(S) /\ Len(SubSeq(l, 1, n - 1)) = n - 1
        /\ \A i \in 1..(n - 1) : SubSeq(l, 1, n - 1)[i] = l[i]
    BY <1>1, <1>3
  <2>2. /\ SubSeq(l, n, Len(l)) \in Seq(S) /\ Len(SubSeq(l, n, Len(l))) = Len(l) + 1 - n
        /\ \A i \in 1..(Len(l) + 1 - n) : SubSeq(l, n, Len(l))[i] = l[i + n - 1]
    BY <1>1, <1>3
  <2>3. <<e>> \in Seq(S) /\ Len(<<e>>) = 1 /\ <<e>>[1] = e
    OBVIOUS
  <2> DEFINE a == SubSeq(l, 1, n - 1) \o <<e>>
  <2>4. a \in Seq(S) /\ Len(a) = n /\ \A i \in 1..n : a[i] = IF i < n THEN l[i] ELSE e
    <3>1. /\ a \in Seq(S) /\ Len(a) = n - 1 + 1
          /\ \A i \in 1..(n - 1 + 1) : a[i] = IF i <= n - 1 THEN SubSeq(l, 1, n - 1)[i] ELSE <<e>>[i - (n - 1)]
      BY <2>1, <2>3, ConcatProperties
    <3> HIDE DEF a
    <3> QED
      BY <1>1, <1>3, <2>1, <2>3, <3>1
  <2> HIDE DEF a
  <2>5. /\ r \in Seq(S) /\ Len(r) = n + (Len(l) + 1 - n)
        /\ \A i \in 1..(n + (Len(l) + 1 - n)) :
             r[i] = IF i <= n THEN a[i] ELSE SubSeq(l, n, Len(l))[i - n]
    <3> DEFINE b == SubSeq(l, n, Len(l))
    <3>1. a \in Seq(S) /\ b \in Seq(S) /\ Len(a) = n /\ Len(b) = Len(l) + 1 - n
      BY <2>2, <2>4
    <3>2. r = a \o b
      BY <1>5 DEF a
    <3> HIDE DEF b, r
    <3>3. /\ a \o b \in Seq(S) /\ Len(a \o b) = Len(a) + Len(b)
          /\ \A i \in 1..(Len(a) + Len(b)) :
               (a \o b)[i] = IF i <= Len(a) THEN a[i] ELSE b[i - Len(a)]
      BY <3>1, ConcatProperties, Zenon
    <3> QED
      BY <3>1, <3>2, <3>3 DEF b
  <2> HIDE DEF r
  <2>6. n + (Len(l) + 1 - n) = Len(l) + 1
    BY <1>1, <1>3
  <2>7. ASSUME NEW i \in 1..(Len(l) + 1)
        PROVE  r[i] = IF i < n THEN l[i] ELSE IF i = n THEN e ELSE l[i - 1]
    <3>1. r[i] = IF i <= n THEN a[i] ELSE SubSeq(l, n, Len(l))[i - n]
      BY <2>5, <2>6
    <3>2. CASE i <= n
      BY <1>1, <1>3, <2>4, <3>1, <3>2
    <3>3. CASE i > n
      <4>1. i - n \in 1..(Len(l) + 1 - n) /\ (i - n) + n - 1 = i - 1 /\ ~(i <= n)
        BY <1>1, <1>3, <3>3
      <4>2. SubSeq(l, n, Len(l))[i - n] = l[i - 1]
        BY <2>2, <4>1
      <4> QED
        BY <1>3, <3>1, <3>3, <4>1, <4>2
    <3> QED
      BY <1>1, <1>3, <3>2, <3>3
  <2> QED
    BY <2>5, <2>6, <2>7
<1> HIDE DEF r
<1>7. t[e] \in Nat
  OBVIOUS
<1>8. ASSUME NEW i \in 1..Len(r), NEW j \in 1..Len(r), i <= j
      PROVE  t[r[i]] <= t[r[j]]
  <2>1. CASE j < n
    <3>1. r[i] = l[i] /\ r[j] = l[j] /\ i \in 1..Len(l) /\ j \in 1..Len(l)
      BY <1>1, <1>3, <1>6, <1>8, <2>1
    <3> QED
      BY <1>8, <3>1 DEF InOrder
  <2>2. CASE i < n /\ j = n
    <3>1. r[i] = l[i] /\ r[j] = e /\ i \in 1..(n - 1) /\ i \in 1..Len(l)
      BY <1>1, <1>3, <1>6, <1>8, <2>2
    <3>2. t[l[i]] < t[e] /\ t[l[i]] \in Nat
      BY <1>1, <1>4, <3>1
    <3> QED
      BY <1>7, <3>1, <3>2
  <2>3. CASE i < n /\ j > n
    <3>1. r[i] = l[i] /\ r[j] = l[j - 1] /\ i \in 1..Len(l) /\ j - 1 \in 1..Len(l) /\ i <= j - 1
      BY <1>1, <1>3, <1>6, <1>8, <2>3
    <3> QED
      BY <3>1 DEF InOrder
  <2>4. CASE i = n /\ j = n
    BY <1>3, <1>6, <1>7, <2>4
  <2>5. CASE i = n /\ j > n
    <3>1. r[i] = e /\ r[j] = l[j - 1] /\ n \in 1..Len(l) /\ j - 1 \in 1..Len(l) /\ n <= j - 1
      BY <1>1, <1>3, <1>6, <1>8, <2>5
    <3>2. t[l[n]] <= t[l[j - 1]]
      BY <3>1 DEF InOrder
    <3>3. t[l[n]] >= t[e]
      BY <1>3, <3>1
    <3> QED
      BY <1>1, <1>7, <3>1, <3>2, <3>3
  <2>6. CASE i > n
    <3>1. r[i] = l[i - 1] /\ r[j] = l[j - 1] /\ i - 1 \in 1..Len(l) /\ j - 1 \in 1..Len(l) /\ i - 1 <= j - 1
      BY <1>1, <1>3, <1>6, <1>8, <2>6
    <3> QED
      BY <3>1 DEF InOrder
  <2> QED
    BY <1>1, <1>3, <1>6, <1>8, <2>1, <2>2, <2>3, <2>4, <2>5, <2>6
<1>9. r # <<>> /\ Head(r) = r[1]
  BY <1>1, <1>6
<1>10. l # <<>> => r[1] \in {e, Head(l)}
  BY <1>1, <1>3, <1>6
<1> QED
  BY <1>6, <1>8, <1>9, <1>10 DEF InOrder, r

LEMMA Removes ==
  ASSUME NEW S, NEW l \in Seq(S), NEW t, \A f \in S : t[f] \in Nat, NEW e, InOrder(l, t)
  PROVE  RemoveFirst(l, e) \in Seq(S) /\ InOrder(RemoveFirst(l, e), t)
<1> DEFINE P == {i \in 1..Len(l) : l[i] = e}
           n == Min(P)
           r == RemoveFirst(l, e)
<1>1. Len(l) \in Nat /\ \A i \in 1..Len(l) : l[i] \in S /\ t[l[i]] \in Nat
  BY LenProperties
<1>2. CASE P = {}
  BY <1>2 DEF RemoveFirst
<1>3. CASE P # {}
  <2>1. n \in 1..Len(l)
    <3>1. P \subseteq Nat
      BY <1>1
    <3>2. n \in P
      BY <1>3, <3>1, Least
    <3> QED
      BY <3>2
  <2>2. r = SubSeq(l, 1, n - 1) \o SubSeq(l, n + 1, Len(l))
    BY <1>3 DEF RemoveFirst, RemoveAt, SelectInSeq
  <2> HIDE DEF n
  <2>3. /\ r \in Seq(S) /\ Len(r) = Len(l) - 1
        /\ \A i \in 1..(Len(l) - 1) : r[i] = IF i < n THEN l[i] ELSE l[i + 1]
    <3>1. /\ SubSeq(l, 1, n - 1) \in Seq(S) /\ Len(SubSeq(l, 1, n - 1)) = n - 1
          /\ \A i \in 1..(n - 1) : SubSeq(l, 1, n - 1)[i] = l[i]
      BY <1>1, <2>1
    <3>2. /\ SubSeq(l, n + 1, Len(l)) \in Seq(S) /\ Len(SubSeq(l, n + 1, Len(l))) = Len(l) - n
          /\ \A i \in 1..(Len(l) - n) : SubSeq(l, n + 1, Len(l))[i] = l[i + n]
      BY <1>1, <2>1
    <3>3. /\ r \in Seq(S) /\ Len(r) = n - 1 + (Len(l) - n)
          /\ \A i \in 1..(n - 1 + (Len(l) - n)) :
               r[i] = IF i <= n - 1 THEN SubSeq(l, 1, n - 1)[i]
                      ELSE SubSeq(l, n + 1, Len(l))[i - (n - 1)]
      <4> DEFINE a == SubSeq(l, 1, n - 1)
                 b == SubSeq(l, n + 1, Len(l))
      <4>1. a \in Seq(S) /\ b \in Seq(S) /\ Len(a) = n - 1 /\ Len(b) = Len(l) - n
        BY <3>1, <3>2
      <4>2. r = a \o b
        BY <2>2
      <4> HIDE DEF a, b, r
      <4>3. /\ a \o b \in Seq(S) /\ Len(a \o b) = Len(a) + Len(b)
            /\ \A i \in 1..(Len(a) + Len(b)) :
                 (a \o b)[i] = IF i <= Len(a) THEN a[i] ELSE b[i - Len(a)]
        BY <4>1, ConcatProperties, Zenon
      <4> QED
        BY <4>1, <4>2, <4>3 DEF a, b
    <3> HIDE DEF r
    <3>4. n - 1 + (Len(l) - n) = Len(l) - 1
      BY <1>1, <2>1
    <3>5. ASSUME NEW i \in 1..(Len(l) - 1) PROVE r[i] = IF i < n THEN l[i] ELSE l[i + 1]
      <4>1. r[i] = IF i <= n - 1 THEN SubSeq(l, 1, n - 1)[i] ELSE SubSeq(l, n + 1, Len(l))[i - (n - 1)]
        BY <3>3, <3>4
      <4>2. CASE i < n
        BY <1>1, <2>1, <3>1, <4>1, <4>2
      <4>3. CASE i >= n
        <5>1. i - (n - 1) \in 1..(Len(l) - n) /\ i - (n - 1) + n = i + 1 /\ ~(i <= n - 1) /\ ~(i < n)
          BY <1>1, <2>1, <4>3
        <5>2. SubSeq(l, n + 1, Len(l))[i - (n - 1)] = l[i + 1]
          BY <3>2, <5>1
        <5> QED
          BY <4>1, <5>1, <5>2
      <4> QED
        BY <1>1, <2>1, <4>2, <4>3
    <3> QED
      BY <3>3, <3>4, <3>5
  <2> HIDE DEF r, P
  <2>4. ASSUME NEW i \in 1..Len(r), NEW j \in 1..Len(r), i <= j
        PROVE  t[r[i]] <= t[r[j]]
    <3>2. /\ i \in 1..(Len(l) - 1) /\ j \in 1..(Len(l) - 1)
          /\ r[i] = IF i < n THEN l[i] ELSE l[i + 1]
          /\ r[j] = IF j < n THEN l[j] ELSE l[j + 1]
      <4>1. 1..Len(r) = 1..(Len(l) - 1)
        BY <2>3, Zenon
      <4>2. i \in 1..(Len(l) - 1) /\ j \in 1..(Len(l) - 1)
        BY <4>1, Zenon
      <4> QED
        BY <2>3, <4>2
    <3>1. PICK a \in 1..Len(l), b \in 1..Len(l) : a <= b /\ r[i] = l[a] /\ r[j] = l[b]
      <4>1. CASE j < n
        <5>1. r[i] = l[i] /\ r[j] = l[j] /\ i \in 1..Len(l) /\ j \in 1..Len(l)
          BY <1>1, <2>1, <2>4, <3>2, <4>1
        <5> QED
          BY <2>4, <5>1
      <4>2. CASE i < n /\ j >= n
        <5>1. r[i] = l[i] /\ r[j] = l[j + 1] /\ i \in 1..Len(l) /\ j + 1 \in 1..Len(l) /\ i <= j + 1
          BY <1>1, <2>1, <2>4, <3>2, <4>2
        <5> QED
          BY <5>1
      <4>3. CASE i >= n
        <5>1. /\ r[i] = l[i + 1] /\ r[j] = l[j + 1] /\ i + 1 \in 1..Len(l) /\ j + 1 \in 1..Len(l)
              /\ i + 1 <= j + 1
          <6>1. ~(i < n) /\ ~(j < n) /\ i + 1 \in 1..Len(l) /\ j + 1 \in 1..Len(l) /\ i + 1 <= j + 1
            <7>1. i \in Nat /\ j \in Nat /\ n \in Nat /\ i <= Len(l) - 1 /\ j <= Len(l) - 1
              BY <1>1, <2>1, <3>2
            <7>2. i >= n /\ i <= j
              BY <2>4, <4>3
            <7> QED
              BY <1>1, <7>1, <7>2
          <6> QED
            BY <3>2, <6>1
        <5> QED
          BY <5>1
      <4> QED
        BY <1>1, <2>1, <3>2, <4>1, <4>2, <4>3
    <3> QED
      BY <3>1 DEF InOrder
  <2> QED
    BY <2>3, <2>4 DEF InOrder, r
<1> QED
  BY <1>2, <1>3

-----------------------------------------------------------------------------
(* Why somebody sleeps.                                                    *)
Holding == {"insert", "kick", "unschedule", "head"}

(* The clock's lock, and the entries that clients and the thread work on.  *)
CallInv ==
  /\ list \in Seq(Async)
  /\ cpc \in [Clients -> ClientPCs]
  /\ centry \in [Clients -> Entries \cup {None}]
  /\ \A c \in Clients :
       /\ cpc[c] \in Holding <=> holder = c
       /\ cpc[c] \in {"spinup", "spun", "insert"} => centry[c] \in Async
       /\ cpc[c] \in Holding => centry[c] \in Entries
  /\ tpc = "pick" <=> holder = "thread"
  /\ tpc = "pick" => list # <<>> /\ Head(list) = cur
  /\ tpc = "wait" => cur \in Async

(* Dispose comes last: nobody else uses the clock any more.                *)
DisposeInv ==
  /\ stopping =>
       /\ \A c \in Clients : cpc[c] \in {"idle", "head", "join", "disposed"}
       /\ \A c, d \in Clients : cpc[c] # "idle" /\ cpc[d] # "idle" => c = d
       /\ \A e \in Sync : wpc[e] = "none"
  /\ \A c \in Clients :
       /\ cpc[c] \in {"head", "join", "disposed"} => stopping
       /\ cpc[c] = "head" => list # <<>> /\ Head(list) = centry[c]

(* Whoever is about to sleep, or sleeps, is known to unschedule.           *)
BusyInv ==
  \A e \in Entries :
    /\ wpc[e] # "none" => status[e] \in {"BUSY", "UNSCHEDULED"}
    /\ wpc[e] \in {"compute", "asleep"} =>
         \/ status[e] = "BUSY"
         \/ stopping /\ (Near(e) \/ \E c \in Clients : cpc[c] = "head")

(* The clock's thread works on the first entry, or is about to leave it.   *)
HeadInv ==
  tpc = "wait" =>
    /\ wpc[cur] \in {"test", "compute", "asleep"} =>
         \/ list # <<>> /\ Head(list) = cur
         \/ Near(cur)
         \/ \E c \in Clients : cpc[c] = "kick" /\ centry[c] = cur
    /\ wpc[cur] \in {"timedOut", "expired"} => Near(cur)

FirstInv == tpc = "waiting" => list = <<>> /\ ~stopping

Sorted == InOrder(list, time)

SleepInv == ClockInv /\ CallInv /\ DisposeInv /\ BusyInv /\ HeadInv /\ FirstInv /\ Sorted

(* A wait goes on.                                                         *)
LEMMA ProgressSleeps ==
  ASSUME SleepInv, NEW e \in Entries, WaitProgress(e)
  PROVE  CallInv' /\ DisposeInv' /\ BusyInv' /\ HeadInv' /\ FirstInv' /\ Sorted'
<1>1. UNCHANGED <<cur, time, stopping, now, list, holder, cpc, centry>> /\ wpc[e] # "none"
  BY DEF WaitProgress, ReadStatus, Compute, Decide, clientVars
<1>2. \/ UNCHANGED tpc
      \/ e \in Async /\ tpc = "wait" /\ tpc' \in {"next", "again", "call"} /\ wpc'[e] = "none"
  BY <1>1 DEF WaitProgress, ReadStatus, Compute, Decide, WaitReturns, WaitGoto, SleepInv, ClockInv, ClockTypes,
              ThreadWaits, Entries
<1>3. \A f \in Entries : f # e => status'[f] = status[f] /\ wpc'[f] = wpc[f]
  BY WaitProgressOK DEF SleepInv, WaitOK
<1>4. \/ wpc'[e] = "none"
      \/ wpc[e] = "test" /\ wpc'[e] = "compute" /\ status[e] # "UNSCHEDULED" /\ status'[e] = status[e]
      \/ wpc[e] = "signalled" /\ wpc'[e] = "noted" /\ status'[e] = status[e]
      \/ wpc[e] = "timedOut" /\ wpc'[e] = "expired" /\ status'[e] = status[e]
      \/ wpc[e] = "compute" /\ wpc'[e] = "asleep" /\ status'[e] = status[e]
      \/ wpc[e] = "expired" /\ wpc'[e] = "asleep" /\ status'[e] = "BUSY"
      \/ wpc[e] = "noted" /\ e \notin Async /\ wpc'[e] = "asleep" /\ status'[e] = "BUSY"
  <2>1. status \in [Entries -> Statuses] /\ wpc \in [Entries -> WaitPCs]
    BY DEF SleepInv, ClockInv, ClockTypes
  <2>2. CASE ReadStatus(e)
    BY <2>1, <2>2 DEF ReadStatus, WaitReturns, WaitGoto
  <2>3. CASE Compute(e)
    BY <2>1, <2>3 DEF Compute, WaitReturns, WaitGoto
  <2>4. CASE Decide(e)
    BY <2>1, <2>4 DEF Decide, WaitReturns, WaitGoto, SetStatus
  <2> QED
    BY <2>2, <2>3, <2>4 DEF WaitProgress
<1>5. CallInv' /\ FirstInv' /\ Sorted'
  BY <1>1, <1>2 DEF SleepInv, CallInv, FirstInv, Sorted
<1>6. DisposeInv'
  <2>1. stopping => e \notin Sync
    BY <1>1 DEF SleepInv, DisposeInv
  <2> QED
    BY <1>1, <1>3, <2>1 DEF SleepInv, DisposeInv, Entries
<1>7. BusyInv'
  <2>1. \A f \in Entries : Near(f)' <=> Near(f)
    BY <1>1 DEF Near
  <2> QED
    BY <1>1, <1>3, <1>4, <2>1 DEF SleepInv, BusyInv
<1>8. HeadInv'
  <2> SUFFICES ASSUME tpc' = "wait" PROVE HeadInv'
    BY DEF HeadInv
  <2>1. tpc = "wait" /\ cur \in Async /\ cur \in Entries
    BY <1>2 DEF SleepInv, CallInv, Entries
  <2>2. Near(cur)' <=> Near(cur)
    BY <1>1 DEF Near
  <2>3. CASE cur = e
    BY <1>1, <1>4, <2>1, <2>2, <2>3 DEF SleepInv, HeadInv
  <2>4. CASE cur # e
    BY <1>1, <1>3, <2>1, <2>2, <2>4 DEF SleepInv, HeadInv
  <2> QED
    BY <2>3, <2>4
<1> QED
  BY <1>5, <1>6, <1>7, <1>8

(* Time passes, sleeps end, waits begin and entries are created.           *)
LEMMA TickSleeps ==
  ASSUME SleepInv, Tick
  PROVE  CallInv' /\ DisposeInv' /\ BusyInv' /\ HeadInv' /\ FirstInv' /\ Sorted'
<1>1. /\ UNCHANGED <<status, time, wpc, list, stopping, holder, tpc, cur, cpc, centry>>
      /\ now < MaxNow /\ now' = now + 1
  BY DEF Tick, entryVars, threadVars, clientVars
<1>2. \A e \in Entries : Near(e) => Near(e)'
  BY <1>1, ClockAssumption DEF Near, SleepInv, ClockInv, ClockTypes
<1>3. tpc = "wait" => cur \in Entries
  BY DEF SleepInv, CallInv, Entries
<1> QED
  BY <1>1, <1>2, <1>3 DEF SleepInv, CallInv, DisposeInv, BusyInv, HeadInv, FirstInv, Sorted

LEMMA EndSleeps ==
  ASSUME SleepInv, NEW e \in Entries, WaitSleeps(e)
  PROVE  CallInv' /\ DisposeInv' /\ BusyInv' /\ HeadInv' /\ FirstInv' /\ Sorted'
<1>1. /\ UNCHANGED <<status, time, now, list, stopping, holder, tpc, cur, cpc, centry>>
      /\ wpc[e] = "asleep"
  BY DEF WaitSleeps, SleepEnds, threadVars, clientVars
<1>2. PICK pc \in {"signalled", "timedOut"} :
        wpc' = [wpc EXCEPT ![e] = pc] /\ (pc = "timedOut" => Near(e))
  BY DEF WaitSleeps, SleepEnds, WaitGoto
<1>3. \A f \in Entries : wpc'[f] = IF f = e THEN pc ELSE wpc[f]
  BY <1>2 DEF SleepInv, ClockInv, ClockTypes
<1>4. \A f \in Entries : Near(f)' <=> Near(f)
  BY <1>1 DEF Near
<1>5. tpc = "wait" => cur \in Entries
  BY DEF SleepInv, CallInv, Entries
<1>6. CallInv' /\ FirstInv' /\ Sorted'
  BY <1>1 DEF SleepInv, CallInv, FirstInv, Sorted
<1>7. DisposeInv'
  BY <1>1, <1>3 DEF SleepInv, DisposeInv, Entries
<1>8. BusyInv'
  BY <1>1, <1>2, <1>3, <1>4 DEF SleepInv, BusyInv
<1>9. HeadInv'
  BY <1>1, <1>2, <1>3, <1>4, <1>5 DEF SleepInv, HeadInv
<1> QED
  BY <1>6, <1>7, <1>8, <1>9

LEMMA StartSleeps ==
  ASSUME SleepInv, NEW e \in Sync, WaitSync(e)
  PROVE  CallInv' /\ DisposeInv' /\ BusyInv' /\ HeadInv' /\ FirstInv' /\ Sorted'
<1>1. /\ UNCHANGED <<time, now, list, stopping, holder, tpc, cur, cpc, centry>>
      /\ wpc[e] = "none" /\ ~stopping
      /\ status' = [status EXCEPT ![e] = "BUSY"] /\ wpc' = [wpc EXCEPT ![e] = "test"]
  BY DEF WaitSync, SetStatus, WaitGoto, threadVars, clientVars
<1>2. /\ \A f \in Entries : wpc'[f] = IF f = e THEN "test" ELSE wpc[f]
      /\ \A f \in Entries : status'[f] = IF f = e THEN "BUSY" ELSE status[f]
  BY <1>1 DEF SleepInv, ClockInv, ClockTypes
<1>3. \A f \in Entries : Near(f)' <=> Near(f)
  BY <1>1 DEF Near
<1>4. tpc = "wait" => cur \in Entries /\ cur # e
  BY ClockAssumption DEF SleepInv, CallInv, Entries
<1>5. CallInv' /\ FirstInv' /\ Sorted' /\ DisposeInv'
  BY <1>1 DEF SleepInv, CallInv, DisposeInv, FirstInv, Sorted
<1>6. BusyInv'
  BY <1>1, <1>2, <1>3 DEF SleepInv, BusyInv
<1>7. HeadInv'
  BY <1>1, <1>2, <1>3, <1>4 DEF SleepInv, HeadInv
<1> QED
  BY <1>5, <1>6, <1>7

LEMMA CreateSleeps ==
  ASSUME SleepInv, NEW e \in Entries, Create(e)
  PROVE  CallInv' /\ DisposeInv' /\ BusyInv' /\ HeadInv' /\ FirstInv' /\ Sorted'
<1>1. /\ UNCHANGED <<wpc, now, list, stopping, holder, tpc, cur, cpc, centry>>
      /\ wpc[e] = "none" /\ e \notin ToSet(list)
      /\ status' = [status EXCEPT ![e] = "OK"]
  BY DEF Create, Idle, SetStatus, threadVars, clientVars
<1>2. PICK t \in Starts : time' = [time EXCEPT ![e] = t[e]]
  BY DEF Create
<1>3. \A f \in Entries : f # e => status'[f] = status[f] /\ time'[f] = time[f]
  BY <1>1, <1>2 DEF SleepInv, ClockInv, ClockTypes
<1>4. \A f \in Entries : wpc[f] # "none" => f # e /\ (Near(f)' <=> Near(f))
  BY <1>1, <1>3 DEF Near
<1>5. tpc = "wait" => cur \in Entries
  BY DEF SleepInv, CallInv, Entries
<1>6. CallInv' /\ FirstInv' /\ DisposeInv'
  BY <1>1 DEF SleepInv, CallInv, DisposeInv, FirstInv
<1>7. Sorted'
  <2>1. \A i \in 1..Len(list) : list[i] \in Entries /\ list[i] # e
    BY <1>1 DEF SleepInv, CallInv, ToSet, Entries
  <2> QED
    BY <1>1, <1>3, <2>1 DEF SleepInv, Sorted, InOrder
<1>8. BusyInv'
  BY <1>1, <1>3, <1>4 DEF SleepInv, BusyInv
<1>9. HeadInv'
  BY <1>1, <1>4, <1>5 DEF SleepInv, HeadInv
<1> QED
  BY <1>6, <1>7, <1>8, <1>9

(* The clock's thread.                                                     *)
LEMMA LocksSleep ==
  ASSUME SleepInv, ThreadLocks, UNCHANGED <<now, stopping, centry>>
  PROVE  CallInv' /\ DisposeInv' /\ BusyInv' /\ HeadInv' /\ FirstInv' /\ Sorted'
<1>1. UNCHANGED <<status, wpc>> /\ holder = None /\ tpc # "wait" /\ AtTop(list')
  BY DEF ThreadLocks, ThreadLooks, Reschedule, RemoveEntry
<1>2. UNCHANGED time \/ time' = [time EXCEPT ![cur] = @ + Interval]
  BY DEF ThreadLocks, ThreadLooks, Reschedule, RemoveEntry
<1>3. time' \in [Entries -> Nat]
  BY <1>2, ClockAssumption DEF SleepInv, ClockInv, ClockTypes
<1>4. list' \in Seq(Async) /\ Sorted'
  <2>1. list \in Seq(Async) /\ InOrder(list, time)
    BY DEF SleepInv, CallInv, Sorted
  <2>2. \A e \in Async : time[e] \in Nat /\ time'[e] \in Nat
    BY <1>3 DEF SleepInv, ClockInv, ClockTypes, Entries
  <2>3. CASE UNCHANGED <<list, time>>
    BY <2>1, <2>3 DEF Sorted
  <2>4. CASE list' = RemoveFirst(list, cur) /\ UNCHANGED time
    BY <2>1, <2>2, <2>4, Removes DEF Sorted
  <2>5. CASE list' = SortedBy(list, time')
    BY <2>1, <2>2, <2>5, Sorts DEF Sorted
  <2> QED
    BY <2>3, <2>4, <2>5 DEF ThreadLocks, ThreadLooks, Reschedule, RemoveEntry
<1>5. \A c \in Clients : cpc[c] \notin Holding
  BY <1>1, ClockAssumption DEF SleepInv, CallInv
<1>6. /\ cpc' \in [Clients -> ClientPCs]
      /\ \A c \in Clients : cpc'[c] = cpc[c] \/ (cpc[c] = "spinup" /\ cpc'[c] = "spun")
  BY <1>1 DEF AtTop, Spun, SleepInv, CallInv, ClientPCs
<1>7. \/ tpc' = "pick" /\ list' # <<>> /\ cur' = Head(list') /\ holder' = "thread"
      \/ tpc' = "exited" /\ holder' = None
      \/ tpc' = "waiting" /\ holder' = None /\ list' = <<>> /\ ~stopping
  BY <1>1 DEF AtTop
<1>8. CallInv'
  <2>1. \A c \in Clients : holder' # c /\ cpc'[c] \notin Holding
    BY <1>5, <1>6, <1>7, ClockAssumption DEF Holding
  <2>2. holder' = "thread" <=> tpc' = "pick"
    BY <1>7, ClockAssumption
  <2>3. \A c \in Clients : cpc'[c] \in {"spinup", "spun", "insert"} => centry[c] \in Async
    BY <1>6 DEF SleepInv, CallInv
  <2> QED
    BY <1>4, <1>6, <1>7, <2>1, <2>2, <2>3 DEF SleepInv, CallInv
<1>9. DisposeInv'
  <2>1. \A c \in Clients : cpc'[c] # "head" /\ (cpc[c] = "idle" <=> cpc'[c] = "idle")
    BY <1>5, <1>6 DEF Holding
  <2>2. stopping => \A c \in Clients : cpc'[c] = cpc[c]
    BY <1>6 DEF SleepInv, DisposeInv
  <2>3. \A c \in Clients : cpc'[c] \in {"head", "join", "disposed"} => stopping
    BY <1>6 DEF SleepInv, DisposeInv
  <2> QED
    BY <1>1, <2>1, <2>2, <2>3 DEF SleepInv, DisposeInv
<1>10. BusyInv'
  <2>1. \A e \in Async : wpc[e] = "none"
    BY <1>1 DEF SleepInv, ClockInv, ThreadWaits
  <2>2. \A e \in Sync : wpc[e] = "none" \/ ~stopping
    BY DEF SleepInv, DisposeInv
  <2> QED
    BY <1>1, <2>1, <2>2 DEF SleepInv, BusyInv, Entries
<1>11. HeadInv' /\ FirstInv'
  BY <1>7 DEF HeadInv, FirstInv
<1> QED
  BY <1>4, <1>8, <1>9, <1>10, <1>11

LEMMA ThreadSleeps ==
  ASSUME SleepInv, ThreadStep
  PROVE  CallInv' /\ DisposeInv' /\ BusyInv' /\ HeadInv' /\ FirstInv' /\ Sorted'
<1>1. UNCHANGED <<now, stopping, centry>>
  BY DEF ThreadStep
<1>2. \A c \in Clients : c # None /\ c # "thread"
  BY ClockAssumption
<1>3. CASE Pick
  <2>1. /\ UNCHANGED <<time, list, cur, cpc>> /\ tpc = "pick" /\ holder' = None
        /\ tpc' \in {"next", "wait"}
    BY <1>3 DEF Pick
  <2>2. list # <<>> /\ Head(list) = cur /\ cur \in Async /\ cur \in Entries
    BY <2>1 DEF SleepInv, CallInv, Entries
  <2>3. holder = "thread" /\ \A c \in Clients : cpc[c] \notin Holding
    BY <1>2, <2>1 DEF SleepInv, CallInv
  <2>4. /\ \A e \in Entries : e # cur => status'[e] = status[e] /\ wpc'[e] = wpc[e]
        /\ \/ UNCHANGED <<status, wpc>> /\ tpc' = "next"
           \/ status'[cur] = "BUSY" /\ wpc'[cur] = "test"
    BY <1>3, <2>2 DEF Pick, SetStatus, WaitGoto, SleepInv, ClockInv, ClockTypes
  <2>5. CallInv'
    BY <1>1, <1>2, <2>1, <2>2, <2>3, ClockAssumption DEF SleepInv, CallInv
  <2>6. DisposeInv'
    BY <1>1, <2>1, <2>2, <2>4, ClockAssumption DEF SleepInv, DisposeInv, Entries
  <2>7. BusyInv'
    <3>1. \A e \in Entries : Near(e)' <=> Near(e)
      BY <1>1, <2>1 DEF Near
    <3> QED
      BY <1>1, <2>1, <2>4, <3>1 DEF SleepInv, BusyInv
  <2>8. HeadInv' /\ FirstInv' /\ Sorted'
    BY <2>1, <2>2, <2>4 DEF SleepInv, HeadInv, FirstInv, Sorted
  <2> QED
    BY <2>5, <2>6, <2>7, <2>8
<1>4. CASE Callback
  <2>1. /\ UNCHANGED <<status, time, list, holder, wpc, cur, cpc>>
        /\ tpc = "call" /\ tpc' \in {"sort", "next"}
    BY <1>4 DEF Callback
  <2>2. \A e \in Entries : Near(e)' <=> Near(e)
    BY <1>1, <2>1 DEF Near
  <2> QED
    BY <1>1, <2>1, <2>2 DEF SleepInv, CallInv, DisposeInv, BusyInv, HeadInv, FirstInv, Sorted
<1> QED
  BY <1>1, <1>3, <1>4, LocksSleep DEF ThreadStep

-----------------------------------------------------------------------------
(* The clients.                                                            *)
(* A client that takes the lock, or waits for the thread to be there.      *)
LEMMA CallSleeps ==
  ASSUME SleepInv, NEW c \in Clients,
         SpunUp(c) \/ \E e \in Entries : WaitAsync(c, e) \/ Unschedule(c, e)
  PROVE  CallInv' /\ DisposeInv' /\ BusyInv' /\ HeadInv' /\ FirstInv' /\ Sorted'
<1>1. /\ UNCHANGED <<now, status, time, wpc, list, stopping, cur>> /\ holder = None
      /\ cpc[c] \in {"idle", "spun"} /\ ~stopping
  <2>1. cpc[c] = "spun" => ~stopping
    BY DEF SleepInv, DisposeInv
  <2> QED
    BY <2>1 DEF SpunUp, WaitAsync, Unschedule, entryVars, threadVars
<1>2. PICK pc \in {"spinup", "insert", "unschedule"}, e \in Entries :
        /\ cpc' = [cpc EXCEPT ![c] = pc] /\ centry' = [centry EXCEPT ![c] = e]
        /\ pc # "unschedule" => e \in Async
        /\ IF pc = "spinup" THEN tpc = "none" /\ tpc' = "spin" /\ UNCHANGED holder
           ELSE UNCHANGED tpc /\ holder' = c
  <2>1. CASE SpunUp(c)
    <3>1. cpc[c] = "spun" /\ centry[c] \in Async /\ centry[c] \in Entries
      BY <2>1 DEF SpunUp, SleepInv, CallInv, Entries
    <3> QED
      BY <2>1, <3>1 DEF SpunUp, ClientGoto, threadVars
  <2>2. ASSUME NEW e \in Entries, WaitAsync(c, e) \/ Unschedule(c, e)
        PROVE  \E pc \in {"spinup", "insert", "unschedule"} :
                 /\ cpc' = [cpc EXCEPT ![c] = pc] /\ centry' = [centry EXCEPT ![c] = e]
                 /\ pc # "unschedule" => e \in Async
                 /\ IF pc = "spinup" THEN tpc = "none" /\ tpc' = "spin" /\ UNCHANGED holder
                    ELSE UNCHANGED tpc /\ holder' = c
    BY <2>2 DEF WaitAsync, Unschedule, ClientGoto, threadVars
  <2> QED
    BY <2>1, <2>2
<1>3. \A d \in Clients : /\ cpc'[d] = IF d = c THEN pc ELSE cpc[d]
                         /\ centry'[d] = IF d = c THEN e ELSE centry[d]
  BY <1>2 DEF SleepInv, CallInv
<1>4. c # None /\ c # "thread" /\ None # "thread" /\ \A d \in Clients : d # None
  BY ClockAssumption
<1>5. /\ cpc' \in [Clients -> ClientPCs] /\ centry' \in [Clients -> Entries \cup {None}]
      /\ \A d \in Clients : cpc[d] \notin Holding
  BY <1>1, <1>2, <1>4 DEF SleepInv, CallInv, ClientPCs
<1>6. CallInv'
  <2>1. /\ \A d \in Clients : cpc'[d] \in Holding <=> holder' = d
        /\ tpc' = "pick" <=> holder' = "thread"
    BY <1>1, <1>2, <1>3, <1>4, <1>5 DEF Holding, SleepInv, CallInv
  <2>2. \A d \in Clients :
          /\ cpc'[d] \in {"spinup", "spun", "insert"} => centry'[d] \in Async
          /\ cpc'[d] \in Holding => centry'[d] \in Entries
    BY <1>2, <1>3, <1>5 DEF SleepInv, CallInv
  <2>3. (tpc' = "pick" => tpc = "pick") /\ (tpc' = "wait" => tpc = "wait")
    BY <1>2
  <2> QED
    BY <1>1, <1>5, <2>1, <2>2, <2>3 DEF SleepInv, CallInv
<1>7. DisposeInv'
  BY <1>1, <1>2, <1>3 DEF SleepInv, DisposeInv
<1>8. \A f \in Entries : Near(f)' <=> Near(f)
  BY <1>1 DEF Near
<1>9. BusyInv'
  BY <1>1, <1>8 DEF SleepInv, BusyInv
<1>10. HeadInv' /\ FirstInv' /\ Sorted'
  <2>1. tpc' = "wait" => tpc = "wait" /\ cur \in Entries
    BY <1>2 DEF SleepInv, CallInv, Entries
  <2>2. \A d \in Clients : cpc[d] = "kick" => cpc'[d] = cpc[d] /\ centry'[d] = centry[d]
    BY <1>1, <1>3
  <2>3. tpc' = "waiting" => tpc = "waiting"
    BY <1>2
  <2> QED
    BY <1>1, <1>8, <2>1, <2>2, <2>3 DEF SleepInv, HeadInv, FirstInv, Sorted
<1> QED
  BY <1>6, <1>7, <1>9, <1>10

LEMMA InsertSleeps ==
  ASSUME SleepInv, NEW c \in Clients, Insert(c)
  PROVE  CallInv' /\ DisposeInv' /\ BusyInv' /\ HeadInv' /\ FirstInv' /\ Sorted'
<1>1. /\ UNCHANGED <<now, status, time, wpc, stopping, cur>> /\ cpc[c] = "insert"
  BY DEF Insert, entryVars
<1>2. centry[c] \in Async /\ holder = c /\ ~stopping
  BY <1>1 DEF SleepInv, CallInv, DisposeInv, Holding
<1>3. \A d \in Clients : d # c => cpc[d] \notin Holding
  BY <1>2 DEF SleepInv, CallInv
<1>4. tpc # "pick" /\ c # "thread" /\ None # "thread" /\ \A d \in Clients : d # None
  BY <1>2, ClockAssumption DEF SleepInv, CallInv
<1>5. /\ list' \in Seq(Async) /\ Sorted'
      /\ list # <<>> => list' # <<>> /\ (Head(list') = Head(list) \/ Head(list') = centry[c])
  <2>1. list \in Seq(Async) /\ InOrder(list, time) /\ \A e \in Async : time[e] \in Nat
    BY DEF SleepInv, ClockInv, ClockTypes, CallInv, Sorted, Entries
  <2>2. CASE UNCHANGED list
    BY <1>1, <2>1, <2>2 DEF Sorted
  <2>3. CASE list' = Inserted(centry[c], list, time)
    <3>1. /\ list' \in Seq(Async) /\ InOrder(list', time)
          /\ list' # <<>> /\ (list # <<>> => Head(list') \in {centry[c], Head(list)})
      BY <1>2, <2>1, <2>3, Inserts
    <3> QED
      BY <1>1, <3>1 DEF Sorted
  <2> QED
    BY <2>2, <2>3 DEF Insert
<1>6. PICK pc \in {"idle", "kick"}, e \in Entries \cup {None} :
        /\ cpc'[c] = pc /\ centry'[c] = e
        /\ \A d \in Clients : d # c =>
             /\ cpc'[d] = cpc[d] \/ (cpc[d] = "spinup" /\ cpc'[d] = "spun")
             /\ centry'[d] = centry[d]
        /\ cpc' \in [Clients -> ClientPCs] /\ centry' \in [Clients -> Entries \cup {None}]
        /\ pc = "idle" => holder' = None
        /\ pc = "kick" => holder' = c /\ list # <<>> /\ e = Head(list) /\ e \in Entries
        /\ list # <<>> => pc = "kick" \/ Head(list') = Head(list)
        /\ tpc' = tpc \/ (tpc = "waiting" /\ tpc' = "woken")
        /\ list = <<>> => tpc' # "waiting" \/ list' = <<>>
  <2>1. cpc \in [Clients -> ClientPCs] /\ centry \in [Clients -> Entries \cup {None}]
    BY DEF SleepInv, CallInv
  <2>2. list # <<>> => Head(list) \in Entries
    BY DEF SleepInv, CallInv, Entries
  <2>3. CASE holder' = None /\ ClientGoto(c, "idle", None) /\ UNCHANGED <<list, tpc>>
    <3> WITNESS "idle" \in {"idle", "kick"}, None \in Entries \cup {None}
    <3> QED
      BY <2>1, <2>3, <1>4 DEF ClientGoto, ClientPCs, SleepInv, FirstInv
  <2>4. CASE list # <<>> /\ ClientGoto(c, "kick", Head(list)) /\ UNCHANGED <<holder, tpc>>
    BY <1>2, <2>1, <2>2, <2>4 DEF ClientGoto, ClientPCs
  <2>5. CASE /\ holder' = None /\ list # <<>> /\ Head(list') # centry[c]
             /\ ClientGoto(c, "idle", None) /\ UNCHANGED tpc
    BY <1>5, <2>1, <2>5 DEF ClientGoto, ClientPCs
  <2>6. CASE /\ holder' = None /\ list = <<>> /\ WakeThread
             /\ cpc' = [Spun EXCEPT ![c] = "idle"] /\ centry' = [centry EXCEPT ![c] = None]
    <3>1. tpc' = tpc \/ (tpc = "waiting" /\ tpc' = "woken")
      BY <2>6 DEF WakeThread
    <3>2. tpc' # "waiting"
      BY <2>6 DEF WakeThread
    <3>3. \A d \in Clients : cpc'[d] = IF d = c THEN "idle" ELSE IF cpc[d] = "spinup" THEN "spun" ELSE cpc[d]
      BY <2>6 DEF Spun
    <3>4. cpc' \in [Clients -> ClientPCs] /\ centry' \in [Clients -> Entries \cup {None}]
      BY <2>1, <2>6 DEF Spun, ClientPCs
    <3> QED
      BY <2>1, <2>6, <3>1, <3>2, <3>3, <3>4
  <2> QED
    BY <2>3, <2>4, <2>5, <2>6 DEF Insert
<1>7. CallInv'
  BY <1>1, <1>2, <1>3, <1>4, <1>5, <1>6 DEF SleepInv, CallInv, Holding
<1>8. DisposeInv'
  BY <1>1, <1>2, <1>3, <1>6 DEF SleepInv, DisposeInv, Holding
<1>9. \A f \in Entries : Near(f)' <=> Near(f)
  BY <1>1 DEF Near
<1>10. BusyInv'
  BY <1>1, <1>2, <1>9 DEF SleepInv, BusyInv
<1>11. HeadInv'
  <2> SUFFICES ASSUME tpc' = "wait" PROVE HeadInv'
    BY DEF HeadInv
  <2>1. tpc = "wait" /\ cur \in Entries /\ ~\E d \in Clients : cpc[d] = "kick"
    BY <1>1, <1>3, <1>6 DEF SleepInv, CallInv, Entries, Holding
  <2>2. CASE list # <<>> /\ Head(list) = cur
    BY <1>1, <1>5, <1>6, <1>9, <2>1, <2>2 DEF SleepInv, HeadInv
  <2>3. CASE ~(list # <<>> /\ Head(list) = cur)
    BY <1>1, <1>9, <2>1, <2>3 DEF SleepInv, HeadInv
  <2> QED
    BY <2>2, <2>3
<1>12. FirstInv'
  BY <1>1, <1>6 DEF SleepInv, FirstInv
<1> QED
  BY <1>5, <1>7, <1>8, <1>10, <1>11, <1>12

(* A client that holds the lock of an entry wakes who sleeps on it.        *)
LEMMA KickSleeps ==
  ASSUME SleepInv, NEW c \in Clients, Kick(c) \/ UnscheduleEntry(c)
  PROVE  CallInv' /\ DisposeInv' /\ BusyInv' /\ HeadInv' /\ FirstInv' /\ Sorted'
<1> DEFINE e == centry[c]
<1>1. /\ UNCHANGED <<now, time, list, stopping, tpc, cur>> /\ cpc[c] \in {"kick", "unschedule"}
      /\ wpc[e] \notin Locking /\ holder' = None
      /\ cpc' = [cpc EXCEPT ![c] = "idle"] /\ centry' = [centry EXCEPT ![c] = None]
  BY DEF Kick, UnscheduleEntry, ClientGoto, threadVars
<1>2. holder = c /\ ~stopping /\ e \in Entries
  BY <1>1 DEF SleepInv, CallInv, DisposeInv, Holding
<1>3. c # "thread" /\ None # "thread" /\ \A d \in Clients : d # None
  BY ClockAssumption
<1>4. \A d \in Clients : d # c => cpc[d] \notin Holding
  BY <1>2 DEF SleepInv, CallInv
<1>5. \A d \in Clients : /\ cpc'[d] = IF d = c THEN "idle" ELSE cpc[d]
                         /\ centry'[d] = IF d = c THEN None ELSE centry[d]
  BY <1>1 DEF SleepInv, CallInv
<1>6. \A f \in Entries :
        /\ status'[f] = status[f] \/ (f = e /\ status'[f] = "UNSCHEDULED")
        /\ wpc'[f] = wpc[f] \/ (f = e /\ wpc[f] = "asleep" /\ wpc'[f] = "signalled")
        /\ f = e => wpc'[f] # "asleep"
  <2>1. status \in [Entries -> Statuses] /\ wpc \in [Entries -> WaitPCs]
    BY DEF SleepInv, ClockInv, ClockTypes
  <2>2. wpc[e] = "asleep" => status[e] = "BUSY"
    BY <1>2 DEF SleepInv, BusyInv
  <2>3. UNCHANGED status \/ SetStatus(e, "UNSCHEDULED")
    BY DEF Kick, UnscheduleEntry
  <2>4. IF status[e] = "BUSY" THEN Signal(e) ELSE UNCHANGED wpc
    BY DEF Kick, UnscheduleEntry
  <2>5. \A f \in Entries : status'[f] = status[f] \/ (f = e /\ status'[f] = "UNSCHEDULED")
    BY <2>1, <2>3 DEF SetStatus
  <2>6. \A f \in Entries : /\ wpc'[f] = wpc[f] \/ (f = e /\ wpc[f] = "asleep" /\ wpc'[f] = "signalled")
                           /\ f = e => wpc'[f] # "asleep"
    BY <2>1, <2>2, <2>4 DEF Signal
  <2> QED
    BY <2>5, <2>6
<1> HIDE DEF e
<1>7. /\ cpc' \in [Clients -> ClientPCs] /\ centry' \in [Clients -> Entries \cup {None}]
      /\ holder # "thread" /\ tpc # "pick"
  BY <1>1, <1>2, <1>3 DEF SleepInv, CallInv, ClientPCs
<1>8. CallInv'
  BY <1>1, <1>3, <1>4, <1>5, <1>7 DEF SleepInv, CallInv, Holding
<1>9. DisposeInv'
  BY <1>1, <1>2, <1>5 DEF SleepInv, DisposeInv
<1>10. \A f \in Entries : Near(f)' <=> Near(f)
  BY <1>1 DEF Near
<1>11. BusyInv'
  BY <1>1, <1>2, <1>6, <1>10 DEF SleepInv, BusyInv, Locking
<1>12. HeadInv'
  <2> SUFFICES ASSUME tpc' = "wait" PROVE HeadInv'
    BY DEF HeadInv
  <2>1. tpc = "wait" /\ cur \in Entries
    BY <1>1 DEF SleepInv, CallInv, Entries
  <2>2. \A d \in Clients : cpc[d] = "kick" => d = c
    BY <1>4 DEF Holding
  <2>3. wpc'[cur] \in {"test", "compute", "asleep"} => wpc'[cur] = wpc[cur] /\ cur # e
    BY <1>1, <1>6, <2>1 DEF Locking, e
  <2>4. wpc'[cur] \in {"timedOut", "expired"} => wpc'[cur] = wpc[cur]
    BY <1>6, <2>1
  <2> QED
    BY <1>1, <1>10, <2>1, <2>2, <2>3, <2>4 DEF SleepInv, HeadInv, e
<1>13. FirstInv' /\ Sorted'
  BY <1>1 DEF SleepInv, FirstInv, Sorted
<1> QED
  BY <1>8, <1>9, <1>11, <1>12, <1>13

(* Dispose.                                                                *)
LEMMA DisposeSleeps ==
  ASSUME SleepInv, NEW c \in Clients, Dispose(c)
  PROVE  CallInv' /\ DisposeInv' /\ BusyInv' /\ HeadInv' /\ FirstInv' /\ Sorted'
<1>1. /\ UNCHANGED <<now, time, wpc, list, cur>> /\ stopping' = TRUE /\ holder = None
      /\ \A d \in Clients : cpc[d] = "idle"
      /\ \A e \in Sync : wpc[e] = "none"
      /\ status' = [e \in Entries |-> IF e \in ToSet(list) THEN "UNSCHEDULED" ELSE status[e]]
  BY DEF Dispose
<1>2. c # "thread" /\ None # "thread" /\ \A d \in Clients : d # None
  BY ClockAssumption
<1>3. tpc # "pick"
  BY <1>1, <1>2 DEF SleepInv, CallInv
<1>4. list # <<>> => Head(list) \in Entries
  BY DEF SleepInv, CallInv, Entries
<1>5. PICK pc \in {"join", "head"}, e \in Entries \cup {None} :
        /\ cpc' = [cpc EXCEPT ![c] = pc] /\ centry' = [centry EXCEPT ![c] = e]
        /\ IF pc = "join" THEN list = <<>> /\ UNCHANGED holder /\ WakeThread
           ELSE list # <<>> /\ holder' = c /\ UNCHANGED tpc /\ e = Head(list) /\ e \in Entries
  BY <1>4 DEF Dispose, ClientGoto
<1>6. \A d \in Clients : /\ cpc'[d] = IF d = c THEN pc ELSE "idle"
                         /\ centry'[d] = IF d = c THEN e ELSE centry[d]
  BY <1>1, <1>5 DEF SleepInv, CallInv
<1>7. /\ cpc' \in [Clients -> ClientPCs] /\ centry' \in [Clients -> Entries \cup {None}]
  BY <1>1, <1>5 DEF SleepInv, CallInv, ClientPCs
<1>8. tpc' = tpc \/ (tpc = "waiting" /\ tpc' = "woken")
  BY <1>5 DEF WakeThread
<1>9. CallInv'
  BY <1>1, <1>2, <1>3, <1>5, <1>6, <1>7, <1>8 DEF SleepInv, CallInv, Holding
<1>10. DisposeInv'
  BY <1>1, <1>5, <1>6 DEF SleepInv, DisposeInv
<1>11. BusyInv'
  <2>1. \A f \in Entries : status'[f] \in {status[f], "UNSCHEDULED"}
    BY <1>1
  <2>2. \A f \in Entries : status'[f] = "UNSCHEDULED" => status[f] = "UNSCHEDULED" \/ cpc'[c] = "head"
    BY <1>1, <1>5, <1>6 DEF ToSet
  <2>3. \A f \in Entries : wpc[f] \in {"compute", "asleep"} => status'[f] = "BUSY" \/ cpc'[c] = "head" \/ Near(f)
    BY <1>1, <2>1, <2>2 DEF SleepInv, BusyInv
  <2>4. \A f \in Entries : Near(f)' <=> Near(f)
    BY <1>1 DEF Near
  <2> QED
    BY <1>1, <2>1, <2>3, <2>4 DEF SleepInv, BusyInv
<1>12. HeadInv'
  <2>1. tpc' = "wait" => tpc = "wait"
    BY <1>8
  <2>2. Near(cur)' <=> Near(cur)
    BY <1>1 DEF Near
  <2> QED
    BY <1>1, <2>1, <2>2 DEF SleepInv, HeadInv
<1>13. FirstInv' /\ Sorted'
  <2>1. tpc' # "waiting"
    BY <1>5, <1>8 DEF WakeThread, SleepInv, FirstInv
  <2> QED
    BY <1>1, <2>1 DEF SleepInv, FirstInv, Sorted
<1> QED
  BY <1>9, <1>10, <1>11, <1>12, <1>13

LEMMA DisposeHeadSleeps ==
  ASSUME SleepInv, NEW c \in Clients, DisposeHead(c)
  PROVE  CallInv' /\ DisposeInv' /\ BusyInv' /\ HeadInv' /\ FirstInv' /\ Sorted'
<1> DEFINE e == centry[c]
<1>1. /\ UNCHANGED <<now, status, time, list, stopping, cur>> /\ cpc[c] = "head"
      /\ wpc[e] \notin Locking /\ Signal(e) /\ holder' = None
      /\ cpc' = [cpc EXCEPT ![c] = "join"] /\ centry' = [centry EXCEPT ![c] = None]
  BY DEF DisposeHead, ClientGoto
<1>2. holder = c /\ stopping /\ e \in Entries /\ list # <<>> /\ Head(list) = e
  BY <1>1 DEF SleepInv, CallInv, DisposeInv, Holding
<1>3. c # "thread" /\ None # "thread" /\ \A d \in Clients : d # None
  BY ClockAssumption
<1>4. \A d \in Clients : d # c => cpc[d] = "idle"
  BY <1>1, <1>2 DEF SleepInv, DisposeInv
<1>5. \A d \in Clients : /\ cpc'[d] = IF d = c THEN "join" ELSE "idle"
                         /\ centry'[d] = IF d = c THEN None ELSE centry[d]
  BY <1>1, <1>4 DEF SleepInv, CallInv
<1>6. \A f \in Entries :
        /\ wpc'[f] = wpc[f] \/ (f = e /\ wpc[f] = "asleep" /\ wpc'[f] = "signalled")
        /\ f = e => wpc'[f] # "asleep"
  BY <1>1 DEF Signal, SleepInv, ClockInv, ClockTypes
<1> HIDE DEF e
<1>7. tpc' = tpc \/ (tpc = "waiting" /\ tpc' = "woken")
  BY DEF DisposeHead, WakeThread
<1>8. /\ cpc' \in [Clients -> ClientPCs] /\ centry' \in [Clients -> Entries \cup {None}]
      /\ holder # "thread" /\ tpc # "pick"
  BY <1>1, <1>2, <1>3 DEF SleepInv, CallInv, ClientPCs
<1>9. CallInv'
  BY <1>1, <1>3, <1>5, <1>7, <1>8 DEF SleepInv, CallInv, Holding
<1>10. DisposeInv'
  <2>1. \A f \in Sync : wpc'[f] = "none"
    BY <1>2, <1>6 DEF SleepInv, DisposeInv, Entries
  <2> QED
    BY <1>1, <1>2, <1>5, <2>1 DEF SleepInv, DisposeInv
<1>11. \A f \in Entries : Near(f)' <=> Near(f)
  BY <1>1 DEF Near
<1>12. BusyInv'
  <2> SUFFICES ASSUME NEW f \in Entries, wpc'[f] \in {"compute", "asleep"}, status[f] # "BUSY"
               PROVE  Near(f)
    BY <1>1, <1>2, <1>6, <1>11 DEF SleepInv, BusyInv
  <2>1. f # e /\ wpc'[f] = wpc[f]
    BY <1>1, <1>6 DEF Locking, e
  <2>2. f \in Async /\ tpc = "wait" /\ cur = f
    BY <1>2, <2>1 DEF SleepInv, DisposeInv, ClockInv, ThreadWaits, Entries
  <2>3. \A d \in Clients : cpc[d] # "kick"
    BY <1>1, <1>4
  <2> QED
    BY <1>2, <2>1, <2>2, <2>3 DEF SleepInv, HeadInv
<1>13. HeadInv'
  <2> SUFFICES ASSUME tpc' = "wait" PROVE HeadInv'
    BY DEF HeadInv
  <2>1. tpc = "wait" /\ cur \in Entries /\ \A d \in Clients : cpc[d] # "kick"
    BY <1>1, <1>4, <1>7 DEF SleepInv, CallInv, Entries
  <2> QED
    BY <1>1, <1>6, <1>11, <2>1 DEF SleepInv, HeadInv
<1>14. FirstInv' /\ Sorted'
  <2>1. tpc' # "waiting"
    BY <1>2, <1>7 DEF SleepInv, FirstInv
  <2> QED
    BY <1>1, <2>1 DEF SleepInv, FirstInv, Sorted
<1> QED
  BY <1>9, <1>10, <1>12, <1>13, <1>14

LEMMA JoinSleeps ==
  ASSUME SleepInv, NEW c \in Clients, Join(c)
  PROVE  CallInv' /\ DisposeInv' /\ BusyInv' /\ HeadInv' /\ FirstInv' /\ Sorted'
<1>1. /\ UNCHANGED <<now, status, time, wpc, stopping, holder, cur>>
      /\ cpc[c] = "join" /\ tpc \in {"none", "exited"} /\ tpc' = "none" /\ list' = <<>>
      /\ cpc' = [cpc EXCEPT ![c] = "disposed"] /\ centry' = [centry EXCEPT ![c] = None]
  BY DEF Join, ClientGoto, entryVars
<1>2. stopping /\ \A d \in Clients : d # c => cpc[d] = "idle"
  BY <1>1 DEF SleepInv, DisposeInv
<1>3. \A d \in Clients : cpc'[d] = IF d = c THEN "disposed" ELSE "idle"
  BY <1>1, <1>2 DEF SleepInv, CallInv
<1>4. /\ cpc' \in [Clients -> ClientPCs] /\ centry' \in [Clients -> Entries \cup {None}]
      /\ \A d \in Clients : holder # d
  BY <1>1, <1>2 DEF SleepInv, CallInv, ClientPCs, Holding
<1>5. <<>> \in Seq(Async) /\ Len(<<>>) = 0
  OBVIOUS
<1>6. CallInv'
  BY <1>1, <1>3, <1>4, <1>5 DEF SleepInv, CallInv, Holding
<1>7. DisposeInv'
  BY <1>1, <1>2, <1>3 DEF SleepInv, DisposeInv
<1>8. \A e \in Entries : wpc[e] = "none"
  BY <1>1, <1>2 DEF SleepInv, DisposeInv, ClockInv, ThreadWaits, Entries
<1>9. BusyInv'
  BY <1>1, <1>8 DEF BusyInv
<1>10. HeadInv' /\ FirstInv' /\ Sorted'
  BY <1>1, <1>5 DEF HeadInv, FirstInv, Sorted, InOrder
<1> QED
  BY <1>6, <1>7, <1>9, <1>10

-----------------------------------------------------------------------------
LEMMA SleepNext ==
  ASSUME SleepInv, [Next]_vars
  PROVE  SleepInv'
<1>1. ClockInv'
  BY ClockNext, ClockStays DEF SleepInv
<1>2. CASE UNCHANGED vars
  <2>1. UNCHANGED <<now, status, time, wpc, list, stopping, holder, tpc, cur, cpc, centry>>
    BY <1>2 DEF vars, entryVars, threadVars, clientVars
  <2>2. CallInv' /\ DisposeInv'
    BY <2>1 DEF SleepInv, CallInv, DisposeInv
  <2>3. BusyInv' /\ HeadInv' /\ FirstInv' /\ Sorted'
    BY <2>1 DEF SleepInv, BusyInv, HeadInv, FirstInv, Sorted, Near
  <2> QED
    BY <1>1, <2>2, <2>3 DEF SleepInv
<1>3. CASE Next
  <2>1. CallInv' /\ DisposeInv' /\ BusyInv' /\ HeadInv' /\ FirstInv' /\ Sorted'
    <3>1. CASE Tick \/ ThreadStep
      BY <3>1, TickSleeps, ThreadSleeps
    <3>2. ASSUME NEW e \in Entries, WaitProgress(e) \/ WaitSleeps(e) \/ Create(e)
          PROVE  CallInv' /\ DisposeInv' /\ BusyInv' /\ HeadInv' /\ FirstInv' /\ Sorted'
      BY <3>2, ProgressSleeps, EndSleeps, CreateSleeps
    <3>3. ASSUME NEW e \in Sync, WaitSync(e)
          PROVE  CallInv' /\ DisposeInv' /\ BusyInv' /\ HeadInv' /\ FirstInv' /\ Sorted'
      BY <3>3, StartSleeps
    <3>4. ASSUME NEW c \in Clients,
                 (\E e \in Entries : WaitAsync(c, e) \/ Unschedule(c, e)) \/ Dispose(c) \/ ClientProgress(c)
          PROVE  CallInv' /\ DisposeInv' /\ BusyInv' /\ HeadInv' /\ FirstInv' /\ Sorted'
      BY <3>4, CallSleeps, InsertSleeps, KickSleeps, DisposeSleeps, DisposeHeadSleeps, JoinSleeps
      DEF ClientProgress
    <3> QED
      BY <1>3, <3>1, <3>2, <3>3, <3>4 DEF Next
  <2> QED
    BY <1>1, <2>1 DEF SleepInv
<1> QED
  BY <1>2, <1>3

LEMMA SleepInit == Init => SleepInv
<1> SUFFICES ASSUME Init PROVE SleepInv
  OBVIOUS
<1>1. ClockInv
  BY ClockInit
<1>2. <<>> \in Seq(Async) /\ Len(<<>>) = 0
  OBVIOUS
<1>3. CallInv
  BY <1>2, ClockAssumption DEF Init, CallInv, Holding, ClientPCs
<1>4. DisposeInv /\ BusyInv /\ HeadInv /\ FirstInv
  BY DEF Init, DisposeInv, BusyInv, HeadInv, FirstInv, Entries
<1>5. Sorted
  BY <1>2 DEF Init, Sorted, InOrder
<1> QED
  BY <1>1, <1>3, <1>4, <1>5 DEF SleepInv

LEMMA SleepInvariance == Spec => []SleepInv
<1>1. SleepInv /\ [Next]_vars => SleepInv'
  BY SleepNext
<1> QED
  BY <1>1, SleepInit, PTL DEF Spec

(* gstsystemclock.c:694-724, 1187-1234, 1280-1284, 486-515: whoever sleeps *)
(* is known to unschedule and dispose, and the clock's thread sleeps on    *)
(* the first entry, or is about to be told that there is another one.      *)
THEOREM SleepsAreJustified == Spec => []SleepIsJustified
<1>1. SleepInv => SleepIsJustified
  <2> SUFFICES ASSUME SleepInv PROVE SleepIsJustified
    OBVIOUS
  <2>1. \A e \in Entries : wpc[e] = "asleep" =>
          status[e] = "BUSY" \/ (stopping /\ (Near(e) \/ \E c \in Clients : cpc[c] = "head"))
    BY DEF SleepInv, BusyInv
  <2>2. tpc = "wait" /\ wpc[cur] = "asleep" =>
          \/ list # <<>> /\ Head(list) = cur
          \/ Near(cur)
          \/ \E c \in Clients : cpc[c] = "kick" /\ centry[c] = cur
    BY DEF SleepInv, HeadInv
  <2>3. tpc = "waiting" => list = <<>> /\ ~stopping
    BY DEF SleepInv, FirstInv
  <2> QED
    BY <2>1, <2>2, <2>3 DEF SleepIsJustified
<1> QED
  BY <1>1, SleepInvariance, PTL

(* gstsystemclock.c:757-764, 793-799, 1200: the list is in the order of    *)
(* the times of its entries, so the thread that waits on the first one     *)
(* waits for the one that is due first.                                    *)
THEOREM ListSorted == Spec => []Sorted
<1>1. SleepInv => Sorted
  BY DEF SleepInv
<1> QED
  BY <1>1, SleepInvariance, PTL
=============================================================================
