---------------------------- MODULE GstSystemClock ----------------------------
(***************************************************************************)
(* gstreamer/gst/gstsystemclock.c: threads that wait for a time, on their  *)
(* own (gst_clock_id_wait) or by leaving an entry in a sorted list that    *)
(* the clock's thread works through (gst_clock_id_wait_async), while       *)
(* others unschedule entries and the clock itself may be disposed.         *)
(*                                                                         *)
(* Two kinds of lock order the steps: the clock's OBJECT_LOCK, in holder,  *)
(* and a lock in each entry, held by whoever waits on the entry at the     *)
(* places Locking.  A step is what happens between two points where a      *)
(* thread gives up or waits for one of them.                               *)
(***************************************************************************)
EXTENDS Naturals, Sequences, SequencesExt, FiniteSets

CONSTANTS
  Sync,        \* entries waited on with gst_clock_id_wait
  Async,       \* entries given to gst_clock_id_wait_async
  Periodic,    \* those of Async that are periodic
  Clients,     \* threads that call wait_async, unschedule and dispose
  None,
  Starts,      \* what times the entries may be created for
  Interval,    \* interval of the periodic ones
  MinWait,     \* CLOCK_MIN_WAIT_TIME
  Short,       \* by how much a sleep for a near time is cut short (987-1003)
  MaxNow       \* bound on the clock

Entries == Sync \cup Async

ASSUME ClockAssumption ==
  /\ Sync \cap Async = {} /\ Periodic \subseteq Async
  /\ None \notin Entries \cup Clients /\ "thread" \notin Clients
  /\ None # "thread"
  /\ Starts \subseteq [Entries -> Nat] /\ Interval \in Nat \ {0}
  /\ MinWait \in Nat /\ Short \in Nat /\ MaxNow \in Nat

VARIABLES
  now,             \* gst_clock_get_time
  status, time,    \* of each entry
  list, stopping,  \* priv->entries, priv->stopping
  holder,          \* who holds the clock's lock
  wpc,             \* each entry: where the wait on it is
  tpc, cur,        \* the clock's thread, and the entry it works on
  cpc, centry      \* each client: where it is, and with which entry

entryVars == <<status, time, wpc>>
threadVars == <<tpc, cur>>
clientVars == <<cpc, centry>>
vars == <<now, entryVars, list, stopping, holder, threadVars, clientVars>>

\* DONE is overwritten before the entry's lock is released (1026-1078).
Statuses == {"OK", "BUSY", "EARLY", "UNSCHEDULED"}

\* "test" 954  "compute" 961  "asleep" 993, 1009
\* "signalled" and "timedOut": waitret TRUE and FALSE, without the lock
\* "noted" and "expired": the same, status read (1019)
WaitPCs == {"none", "test", "compute", "asleep", "signalled",
            "timedOut", "noted", "expired"}
Locking == {"test", "compute", "noted", "expired"}

\* "spin" created  "waiting" and "woken" 681  "pick" 695  "wait" 729
\* "call" 748  "sort" 757  "again" 783  "next" 795
ThreadPCs == {"none", "spin", "waiting", "woken", "pick", "wait", "call",
              "sort", "again", "next", "exited"}

\* "spinup" and "spun" 1149  "insert" 1187  "kick" 1222  "unschedule" 1275
\* "head" 504  "join" 515
ClientPCs == {"idle", "spinup", "spun", "insert", "kick", "unschedule",
              "head", "join", "disposed"}

Init ==
  /\ now = 0
  /\ status = [e \in Entries |-> "OK"] /\ time \in Starts
  /\ list = <<>> /\ stopping = FALSE /\ holder = None
  /\ wpc = [e \in Entries |-> "none"]
  /\ tpc = "none" /\ cur = None
  /\ cpc = [c \in Clients |-> "idle"] /\ centry = [c \in Clients |-> None]

Tick ==
  /\ now < MaxNow
  /\ now' = now + 1
  /\ UNCHANGED <<entryVars, list, stopping, holder, threadVars, clientVars>>

-----------------------------------------------------------------------------
(* gst_system_clock_id_wait_jitter_unlocked, on entry e.  The wait of an   *)
(* asynchronous entry ends when it is woken (restart is FALSE).            *)

WaitGoto(e, pc) == wpc' = [wpc EXCEPT ![e] = pc]

SetStatus(e, s) == status' = [status EXCEPT ![e] = s]

(* The wait returns res, to gst_clock_id_wait or to the clock's thread,    *)
(* which puts back OK when it has to look at the list again (780-783).     *)
WaitReturns(e, res) ==
  /\ WaitGoto(e, "none")
  /\ tpc' = IF e \in Sync THEN tpc
            ELSE CASE res = "UNSCHEDULED" -> "next"
                   [] res = "BUSY" -> "again"
                   [] OTHER -> "call"

(* 954-957, 1019-1022: the status is read; dispose may still write it.     *)
ReadStatus(e) ==
  /\ wpc[e] \in {"test", "signalled", "timedOut"}
  /\ IF status[e] = "UNSCHEDULED" THEN WaitReturns(e, "UNSCHEDULED")
     ELSE /\ WaitGoto(e, CASE wpc[e] = "test" -> "compute"
                           [] wpc[e] = "signalled" -> "noted"
                           [] wpc[e] = "timedOut" -> "expired")
          /\ UNCHANGED tpc
  /\ UNCHANGED <<status, time, cur>>

(* CLOCK_MIN_WAIT_TIME before its time a wait is as good as over (979,     *)
(* 1057).                                                                  *)
TimeHasCome(e) == time[e] <= now + MinWait

(* 961-979, 1082-1089: the wait begins, unless its time has come.  What is *)
(* not exactly on time is EARLY, even when it is before its time.          *)
Compute(e) ==
  /\ wpc[e] = "compute"
  /\ IF ~TimeHasCome(e)
     THEN WaitGoto(e, "asleep") /\ UNCHANGED <<status, tpc>>
     ELSE /\ SetStatus(e, IF time[e] = now THEN "OK" ELSE "EARLY")
          /\ WaitReturns(e, "OK")
  /\ UNCHANGED <<time, cur>>

(* Near enough for a sleep until its time to be over: it may end half a    *)
(* millisecond too soon (987-1003).  Nothing is near the end of the clock. *)
Near(e) == time[e] <= now \/ (time[e] <= now + Short /\ time[e] <= MaxNow)

(* The sleep ends: timed out, or as if signalled (futex_wait returns EINTR *)
(* and EAGAIN).                                                            *)
SleepEnds(e) ==
  /\ wpc[e] = "asleep"
  /\ \/ WaitGoto(e, "signalled")
     \/ Near(e) /\ WaitGoto(e, "timedOut")
  /\ UNCHANGED <<status, time, threadVars>>

(* Mutant: a sleep that has timed out is taken for the time itself.        *)
DecideOnTimeout(e) ==
  /\ wpc[e] \in {"noted", "expired"}
  /\ IF wpc[e] = "noted" /\ e \in Async
     THEN SetStatus(e, "OK") /\ WaitReturns(e, "BUSY")
     ELSE IF TimeHasCome(e) \/ wpc[e] = "expired"
     THEN SetStatus(e, "OK") /\ WaitReturns(e, "OK")
     ELSE SetStatus(e, "BUSY") /\ WaitGoto(e, "asleep") /\ UNCHANGED tpc
  /\ UNCHANGED <<time, cur>>

(* 1026-1080: was it the time, or a wakeup.                                *)
Decide(e) ==
  /\ wpc[e] \in {"noted", "expired"}
  /\ IF wpc[e] = "noted" /\ e \in Async
     THEN SetStatus(e, "OK") /\ WaitReturns(e, "BUSY")
     ELSE IF TimeHasCome(e)
     THEN SetStatus(e, "OK") /\ WaitReturns(e, "OK")
     ELSE SetStatus(e, "BUSY") /\ WaitGoto(e, "asleep") /\ UNCHANGED tpc
  /\ UNCHANGED <<time, cur>>

WaitProgress(e) ==
  /\ ReadStatus(e) \/ Compute(e) \/ Decide(e)
  /\ UNCHANGED <<now, list, stopping, holder, clientVars>>

WaitSleeps(e) ==
  /\ SleepEnds(e)
  /\ UNCHANGED <<now, list, stopping, holder, clientVars>>

(* gst_system_clock_id_wait_jitter.  An entry unscheduled between the two  *)
(* locks it takes counts as unscheduled before the call.                   *)
WaitSync(e) ==
  /\ wpc[e] = "none" /\ holder = None /\ ~stopping
  /\ status[e] # "UNSCHEDULED"
  /\ SetStatus(e, "BUSY") /\ WaitGoto(e, "test")
  /\ UNCHANGED <<now, time, list, stopping, holder, threadVars, clientVars>>

-----------------------------------------------------------------------------
(* gst_system_clock_async_thread.  Broadcasts on entries_changed reach the *)
(* clock's thread and clients that wait for it to spin up.                 *)

WakeThread == tpc' = IF tpc = "waiting" THEN "woken" ELSE tpc

Spun == [c \in Clients |-> IF cpc[c] = "spinup" THEN "spun" ELSE cpc[c]]

(* The loop from its top, with the clock's lock: leave, wait for an entry, *)
(* or take the first one.                                                  *)
AtTop(l) ==
  /\ cpc' = IF stopping \/ tpc = "spin" THEN Spun ELSE cpc
  /\ IF stopping \/ l = <<>>
     THEN /\ tpc' = IF stopping THEN "exited" ELSE "waiting"
          /\ holder' = None /\ UNCHANGED cur
     ELSE tpc' = "pick" /\ cur' = Head(l) /\ holder' = "thread"

ThreadLooks ==
  /\ tpc \in {"spin", "woken", "again"} /\ holder = None
  /\ AtTop(list)
  /\ UNCHANGED <<time, wpc, list, status>>

(* Mutant: the entry is BUSY whatever it was.                              *)
PickBlindly ==
  /\ tpc = "pick" /\ wpc[cur] \notin Locking
  /\ holder' = None
  /\ SetStatus(cur, "BUSY") /\ tpc' = "wait" /\ WaitGoto(cur, "test")
  /\ UNCHANGED <<time, list, cur, cpc>>

(* 694-724: the entry is BUSY before the clock's lock is released.         *)
Pick ==
  /\ tpc = "pick" /\ wpc[cur] \notin Locking
  /\ holder' = None
  /\ IF status[cur] = "UNSCHEDULED" THEN tpc' = "next" /\ UNCHANGED <<status, wpc>>
     ELSE SetStatus(cur, "BUSY") /\ tpc' = "wait" /\ WaitGoto(cur, "test")
  /\ UNCHANGED <<time, list, cur, cpc>>

(* 741-753: the callback, without any lock.                                *)
Callback ==
  /\ tpc = "call"
  /\ tpc' = IF cur \in Periodic THEN "sort" ELSE "next"
  /\ UNCHANGED <<status, time, list, holder, wpc, cur, cpc>>

(* g_list_sort, which is stable, and g_list_insert_sorted, which puts an   *)
(* entry before the first one that is not earlier.                         *)
SortedBy(l, t) ==
  LET Rank(i) == Cardinality({j \in DOMAIN l :
                    \/ t[l[j]] < t[l[i]]
                    \/ t[l[j]] = t[l[i]] /\ j <= i})
  IN  [k \in DOMAIN l |-> l[CHOOSE i \in DOMAIN l : Rank(i) = k]]

Inserted(e, l, t) ==
  InsertAt(l, Min({i \in 1..(Len(l) + 1) : i <= Len(l) => t[l[i]] >= t[e]}), e)

(* Mutant: the periodic entry keeps its place.                             *)
RescheduleInPlace ==
  /\ tpc = "sort" /\ holder = None
  /\ time' = [time EXCEPT ![cur] = @ + Interval]
  /\ AtTop(list)
  /\ UNCHANGED <<status, wpc, list>>

(* 757-764: a periodic entry goes to its next place in the list.           *)
Reschedule ==
  /\ tpc = "sort" /\ holder = None
  /\ time' = [time EXCEPT ![cur] = @ + Interval]
  /\ list' = SortedBy(list, time')
  /\ AtTop(list')
  /\ UNCHANGED <<status, wpc>>

(* 793-799: the others leave it.                                           *)
RemoveEntry ==
  /\ tpc = "next" /\ holder = None
  /\ list' = RemoveFirst(list, cur)
  /\ AtTop(list')
  /\ UNCHANGED <<status, time, wpc>>

ThreadLocks == ThreadLooks \/ Reschedule \/ RemoveEntry

ThreadStep ==
  /\ ThreadLocks \/ Pick \/ Callback
  /\ UNCHANGED <<now, stopping, centry>>

-----------------------------------------------------------------------------
(* Clients.                                                                *)

Idle(e) == wpc[e] = "none" /\ e \notin ToSet(list) /\ \A c \in Clients : centry[c] # e

ClientGoto(c, pc, e) ==
  /\ cpc' = [cpc EXCEPT ![c] = pc]
  /\ centry' = [centry EXCEPT ![c] = e]

Signal(e) == wpc' = [wpc EXCEPT ![e] = IF @ = "asleep" THEN "signalled" ELSE @]

(* gst_clock_new_single_shot_id, or reinit of an entry nobody uses.        *)
Create(e) ==
  /\ Idle(e) /\ ~stopping
  /\ SetStatus(e, "OK")
  /\ \E t \in Starts : time' = [time EXCEPT ![e] = t[e]]
  /\ UNCHANGED <<now, wpc, list, stopping, holder, threadVars, clientVars>>

(* gst_system_clock_id_wait_async: the clock's thread is created, and      *)
(* waited for, with the clock's lock.                                      *)
WaitAsync(c, e) ==
  /\ cpc[c] = "idle" /\ holder = None /\ ~stopping
  /\ e \in Async /\ Idle(e)
  /\ IF tpc = "none"
     THEN tpc' = "spin" /\ ClientGoto(c, "spinup", e) /\ UNCHANGED holder
     ELSE holder' = c /\ ClientGoto(c, "insert", e) /\ UNCHANGED tpc
  /\ UNCHANGED <<now, entryVars, list, stopping, cur>>

SpunUp(c) ==
  /\ cpc[c] = "spun" /\ holder = None
  /\ holder' = c /\ ClientGoto(c, "insert", centry[c])
  /\ UNCHANGED <<now, entryVars, list, stopping, threadVars>>

(* Mutant: only a thread that waits for a first entry is told.             *)
InsertQuietly(c) ==
  /\ cpc[c] = "insert" /\ wpc[centry[c]] \notin Locking
  /\ holder' = None
  /\ IF status[centry[c]] = "UNSCHEDULED"
     THEN ClientGoto(c, "idle", None) /\ UNCHANGED <<list, tpc>>
     ELSE /\ list' = Inserted(centry[c], list, time)
          /\ IF list = <<>>
             THEN /\ WakeThread
                  /\ cpc' = [Spun EXCEPT ![c] = "idle"]
                  /\ centry' = [centry EXCEPT ![c] = None]
             ELSE ClientGoto(c, "idle", None) /\ UNCHANGED tpc
  /\ UNCHANGED <<now, entryVars, stopping, cur>>

(* 1187-1215: the entry is inserted unless it was unscheduled; a thread    *)
(* that waits on the old head has to be told when there is a new one.      *)
Insert(c) ==
  /\ cpc[c] = "insert" /\ wpc[centry[c]] \notin Locking
  /\ IF status[centry[c]] = "UNSCHEDULED"
     THEN /\ holder' = None /\ ClientGoto(c, "idle", None)
          /\ UNCHANGED <<list, tpc>>
     ELSE /\ list' = Inserted(centry[c], list, time)
          /\ IF list # <<>> /\ Head(list') = centry[c]
             THEN ClientGoto(c, "kick", Head(list)) /\ UNCHANGED <<holder, tpc>>
             ELSE /\ holder' = None
                  /\ IF list = <<>>
                     THEN /\ WakeThread
                          /\ cpc' = [Spun EXCEPT ![c] = "idle"]
                          /\ centry' = [centry EXCEPT ![c] = None]
                     ELSE ClientGoto(c, "idle", None) /\ UNCHANGED tpc
  /\ UNCHANGED <<now, entryVars, stopping, cur>>

(* 1222-1234.                                                              *)
Kick(c) ==
  /\ cpc[c] = "kick" /\ wpc[centry[c]] \notin Locking
  /\ IF status[centry[c]] = "BUSY" THEN Signal(centry[c]) ELSE UNCHANGED wpc
  /\ holder' = None /\ ClientGoto(c, "idle", None)
  /\ UNCHANGED <<now, status, time, list, stopping, threadVars>>

(* gst_system_clock_id_unschedule.                                         *)
Unschedule(c, e) ==
  /\ cpc[c] = "idle" /\ holder = None /\ ~stopping
  /\ holder' = c /\ ClientGoto(c, "unschedule", e)
  /\ UNCHANGED <<now, entryVars, list, stopping, threadVars>>

(* Mutant: the thread that waits on the entry is not woken.                *)
UnscheduleQuietly(c) ==
  /\ cpc[c] = "unschedule" /\ wpc[centry[c]] \notin Locking
  /\ SetStatus(centry[c], "UNSCHEDULED")
  /\ holder' = None /\ ClientGoto(c, "idle", None)
  /\ UNCHANGED <<now, time, wpc, list, stopping, threadVars>>

UnscheduleEntry(c) ==
  /\ cpc[c] = "unschedule" /\ wpc[centry[c]] \notin Locking
  /\ SetStatus(centry[c], "UNSCHEDULED")
  /\ IF status[centry[c]] = "BUSY" THEN Signal(centry[c]) ELSE UNCHANGED wpc
  /\ holder' = None /\ ClientGoto(c, "idle", None)
  /\ UNCHANGED <<now, time, list, stopping, threadVars>>

(* gst_system_clock_dispose, when the last reference goes: all entries are *)
(* unscheduled without their locks, and the first one's waiter is woken.   *)
Dispose(c) ==
  /\ \A d \in Clients : cpc[d] = "idle"
  /\ \A e \in Sync : wpc[e] = "none"
  /\ holder = None /\ ~stopping
  /\ stopping' = TRUE
  /\ status' = [e \in Entries |-> IF e \in ToSet(list) THEN "UNSCHEDULED" ELSE status[e]]
  /\ IF list = <<>> THEN ClientGoto(c, "join", None) /\ WakeThread /\ UNCHANGED holder
     ELSE ClientGoto(c, "head", Head(list)) /\ holder' = c /\ UNCHANGED tpc
  /\ UNCHANGED <<now, time, wpc, list, cur>>

(* Mutant: only a thread that waits for a first entry is woken.            *)
DisposeQuietly(c) ==
  /\ cpc[c] = "head" /\ wpc[centry[c]] \notin Locking
  /\ WakeThread
  /\ holder' = None /\ ClientGoto(c, "join", None)
  /\ UNCHANGED <<now, status, time, wpc, list, stopping, cur>>

DisposeHead(c) ==
  /\ cpc[c] = "head" /\ wpc[centry[c]] \notin Locking
  /\ Signal(centry[c]) /\ WakeThread
  /\ holder' = None /\ ClientGoto(c, "join", None)
  /\ UNCHANGED <<now, status, time, list, stopping, cur>>

Join(c) ==
  /\ cpc[c] = "join" /\ tpc \in {"none", "exited"}
  /\ tpc' = "none" /\ list' = <<>>
  /\ ClientGoto(c, "disposed", None)
  /\ UNCHANGED <<now, entryVars, stopping, holder, cur>>

ClientProgress(c) ==
  SpunUp(c) \/ Insert(c) \/ Kick(c) \/ UnscheduleEntry(c) \/ DisposeHead(c) \/ Join(c)

-----------------------------------------------------------------------------
Next ==
  \/ Tick
  \/ \E e \in Entries : WaitProgress(e) \/ WaitSleeps(e)
  \/ \E e \in Sync : WaitSync(e)
  \/ ThreadStep
  \/ \E e \in Entries : Create(e)
  \/ \E c \in Clients :
       \/ \E e \in Entries : WaitAsync(c, e) \/ Unschedule(c, e)
       \/ Dispose(c) \/ ClientProgress(c)

Spec == Init /\ [][Next]_vars

(* A thread in a wait runs, and a sleep ends when its time has come.       *)
WaitRuns(e) == WaitProgress(e) \/ (WaitSleeps(e) /\ time[e] <= now)

ThreadRuns == ThreadStep \/ \E e \in Async : WaitRuns(e)

(* Time goes on, threads run, callbacks return, and a lock that is         *)
(* released again and again is not denied to the same thread forever.      *)
FairSpec ==
  /\ Spec
  /\ WF_vars(Tick)
  /\ SF_vars(ThreadRuns)
  /\ \A e \in Sync : WF_vars(WaitRuns(e))
  /\ \A c \in Clients : SF_vars(ClientProgress(c))

-----------------------------------------------------------------------------
(* A thread sleeps only for a reason.  The entry it sleeps on is BUSY, or  *)
(* the clock is being disposed of and the sleep is about to end: otherwise *)
(* unschedule would not wake it.  The clock's thread sleeps on the first   *)
(* entry of the list, or somebody is about to wake it, or its time is near *)
(* (a wakeup meant for a thread that had just timed out is lost, 1227);    *)
(* and it waits for a first entry only while there is none.                *)
SleepIsJustified ==
  /\ \A e \in Entries : wpc[e] = "asleep" =>
       \/ status[e] = "BUSY"
       \/ stopping /\ (Near(e) \/ \E c \in Clients : cpc[c] = "head")
  /\ tpc = "wait" /\ wpc[cur] = "asleep" =>
       \/ list # <<>> /\ Head(list) = cur
       \/ Near(cur)
       \/ \E c \in Clients : cpc[c] = "kick" /\ centry[c] = cur
  /\ tpc = "waiting" => list = <<>> /\ ~stopping

(* An entry that was unscheduled stays so until nobody uses it (1278): the *)
(* waits that begin, end and begin again around the call do not mark it as *)
(* busy, on time or late.  Dispose writes without the entry's lock (492).  *)
UnscheduledIsFinal ==
  [][\A e \in Entries :
       status[e] = "UNSCHEDULED" /\ status'[e] # "UNSCHEDULED" =>
         stopping \/ Idle(e)]_vars

(* No wait ends, and no callback is called, more than CLOCK_MIN_WAIT_TIME  *)
(* before the time of its entry, whatever woke the thread and however      *)
(* early its sleep ended (979, 1051-1079).                                 *)
NeverEarly ==
  [][\A e \in Entries :
       /\ e \in Sync /\ wpc[e] \in Locking /\ wpc'[e] = "none" =>
            status[e] = "UNSCHEDULED" \/ TimeHasCome(e)
       /\ tpc # "call" /\ tpc' = "call" => TimeHasCome(cur)]_vars

(* An entry in the list whose time has come is called back, or dropped if  *)
(* it is unscheduled, and leaves the list or gets its next time (757-799). *)
(* This is so for two asynchronous entries.  With three, two that are      *)
(* taken out and put back in front by turns can keep the third waiting.    *)
DueFires ==
  \A e \in Async :
    e \in ToSet(list) /\ time[e] <= now ~> e \notin ToSet(list) \/ time[e] > now

(* gst_clock_id_wait returns when the time has come, and when the entry is *)
(* unscheduled although its time may never come (1280-1284).               *)
WaitEnds ==
  \A e \in Sync :
    wpc[e] # "none" /\ (status[e] = "UNSCHEDULED" \/ time[e] <= now) ~> wpc[e] = "none"

(* wait_async, unschedule and dispose return: the clock's thread spins up, *)
(* locks are released, and it leaves when it is told to (511-515).         *)
CallsReturn ==
  \A c \in Clients : cpc[c] # "idle" ~> cpc[c] \in {"idle", "disposed"}
=============================================================================
