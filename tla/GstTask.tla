------------------------------- MODULE GstTask -------------------------------
(***************************************************************************)
(* gstreamer/gst/gsttask.c: a GstTask calls a function again and again     *)
(* from a thread it borrows from a GstTaskPool, while other threads start, *)
(* pause, stop and join it.                                                *)
(*                                                                         *)
(* A step is one critical section of the task's OBJECT_LOCK, one           *)
(* acquisition of the stream lock (the GRecMutex set with                  *)
(* gst_task_set_lock) or one return of a wait on the task's GCond.  A      *)
(* thread asleep on that GCond is a member of waiters[t]; GST_TASK_SIGNAL  *)
(* is g_cond_signal, so it wakes ONE of them, whichever it is.             *)
(***************************************************************************)
EXTENDS Naturals, FiniteSets

CONSTANTS
  Tasks,         \* GstTask objects
  Workers,       \* threads of the task pool
  Controllers,   \* threads that call the gst_task_* functions
  Locks,         \* GRecMutexes that can be set as a stream lock
  None,          \* NULL
  PushMayFail,   \* TRUE: gst_task_pool_push can report an error
  FuncStates     \* the states the task function may give its own task

ASSUME TaskAssumption ==
  /\ Workers \cap Controllers = {}
  /\ None \notin Tasks \cup Workers \cup Controllers \cup Locks
  /\ PushMayFail \in BOOLEAN
  /\ FuncStates \subseteq {"STARTED", "STOPPED", "PAUSED"}

VARIABLES
  taskState,  \* GST_TASK_STATE of each task
  running,    \* task->running
  thread,     \* task->thread
  lock,       \* task->lock
  poolId,     \* task->priv->pool_id # NULL
  waiters,    \* threads asleep on task->cond
  jobs,       \* gst_task_func calls pushed on the pool, not yet picked up
  owner,      \* who holds each stream lock
  wpc, wtask, \* where each pool thread is in gst_task_func, and for which task
  wlock,      \* its local variable "lock"
  cpc, ctask  \* where each controller is in gst_task_join, and on which task

taskVars   == <<taskState, running, thread, lock, poolId, waiters, jobs>>
workerVars == <<owner, wpc, wtask, wlock>>
ctlVars    == <<cpc, ctask>>
vars       == <<taskVars, workerVars, ctlVars>>

States == {"STARTED", "STOPPED", "PAUSED"}

Threads == Workers \cup Controllers

\* "entry"  344  "enter" 358  "loop" 362  "parked" 369  "relock" 373
\* "func"   384  "unlock" 387 "clear" 389 "leave"  393
WorkerPCs == {"idle", "entry", "enter", "loop", "parked", "relock", "func",
              "unlock", "clear", "leave"}

\* The places of gst_task_func where the stream lock is held.
Holding == {"loop", "func", "unlock"}

\* The places of gst_task_func where its local variable "lock" is set.
HasLock == Holding \cup {"enter", "parked", "relock"}

TypeOK ==
  /\ taskState \in [Tasks -> States]
  /\ running \in [Tasks -> BOOLEAN]
  /\ thread \in [Tasks -> Workers \cup {None}]
  /\ lock \in [Tasks -> Locks \cup {None}]
  /\ poolId \in [Tasks -> BOOLEAN]
  /\ waiters \in [Tasks -> SUBSET Threads]
  /\ jobs \in [Tasks -> 0 .. 1]
  /\ owner \in [Locks -> Threads \cup {None}]
  /\ wpc \in [Workers -> WorkerPCs]
  /\ wtask \in [Workers -> Tasks \cup {None}]
  /\ wlock \in [Workers -> Locks \cup {None}]
  /\ cpc \in [Controllers -> {"idle", "joining"}]
  /\ ctask \in [Controllers -> Tasks \cup {None}]

\* gst_task_init: stopped, no thread, no lock.
Init ==
  /\ taskState = [t \in Tasks |-> "STOPPED"]
  /\ running = [t \in Tasks |-> FALSE]
  /\ thread = [t \in Tasks |-> None]
  /\ lock = [t \in Tasks |-> None]
  /\ poolId = [t \in Tasks |-> FALSE]
  /\ waiters = [t \in Tasks |-> {}]
  /\ jobs = [t \in Tasks |-> 0]
  /\ owner = [l \in Locks |-> None]
  /\ wpc = [w \in Workers |-> "idle"]
  /\ wtask = [w \in Workers |-> None]
  /\ wlock = [w \in Workers |-> None]
  /\ cpc = [c \in Controllers |-> "idle"]
  /\ ctask = [c \in Controllers |-> None]

-----------------------------------------------------------------------------
(* GST_TASK_SIGNAL: who may be left asleep once one sleeper was woken.     *)
Signal(asleep) ==
  IF asleep = {} THEN {asleep} ELSE {asleep \ {x} : x \in asleep}

(* Mutant: running is left for the thread itself to set.                   *)
StartTaskUnmarked(t) ==
  /\ poolId' = [poolId EXCEPT ![t] = TRUE]
  /\ jobs' = [jobs EXCEPT ![t] = @ + 1]
  /\ UNCHANGED running

(* start_task: running is set before the push, whatever the push returns;  *)
(* pool_id is overwritten whether or not an earlier one was joined.        *)
StartTask(t) ==
  /\ running' = [running EXCEPT ![t] = TRUE]
  /\ poolId' = [poolId EXCEPT ![t] = TRUE]
  /\ \/ jobs' = [jobs EXCEPT ![t] = @ + 1]
     \/ PushMayFail /\ UNCHANGED jobs

Refused(t, s) == (s # "STOPPED" /\ lock[t] = None) \/ taskState[t] = s

WakeOne(t) == \E ws \in Signal(waiters[t]) : waiters' = [waiters EXCEPT ![t] = ws]

(* Mutants: a thread is pushed although the task has one; nobody is told   *)
(* that the task left PAUSED.                                              *)
SetStatePushesAgain(t, s) ==
  /\ ~Refused(t, s)
  /\ taskState' = [taskState EXCEPT ![t] = s]
  /\ IF taskState[t] = "STOPPED"
       THEN StartTask(t) ELSE UNCHANGED <<running, poolId, jobs>>
  /\ IF taskState[t] = "PAUSED" THEN WakeOne(t) ELSE UNCHANGED waiters

SetStateNoSignal(t, s) ==
  /\ ~Refused(t, s)
  /\ taskState' = [taskState EXCEPT ![t] = s]
  /\ IF taskState[t] = "STOPPED" /\ ~running[t]
       THEN StartTask(t) ELSE UNCHANGED <<running, poolId, jobs>>
  /\ UNCHANGED waiters

(* gst_task_set_state_unlocked, called with the OBJECT_LOCK.               *)
SetStateUnlocked(t, s) ==
  \/ /\ Refused(t, s)
     /\ UNCHANGED <<taskState, running, poolId, waiters, jobs>>
  \/ /\ ~Refused(t, s)
     /\ taskState' = [taskState EXCEPT ![t] = s]
     /\ IF taskState[t] = "STOPPED" /\ ~running[t]
          THEN StartTask(t) ELSE UNCHANGED <<running, poolId, jobs>>
     /\ IF taskState[t] = "PAUSED" THEN WakeOne(t) ELSE UNCHANGED waiters

-----------------------------------------------------------------------------
(* The controllers.  gst_task_start, _pause and _stop are set_state.       *)
SetState(c, t, s) ==
  /\ cpc[c] = "idle"
  /\ SetStateUnlocked(t, s)
  /\ UNCHANGED <<thread, lock, workerVars, ctlVars>>

Resume(c, t) ==
  /\ cpc[c] = "idle"
  /\ taskState[t] # "STOPPED"
  /\ SetStateUnlocked(t, "STARTED")
  /\ UNCHANGED <<thread, lock, workerVars, ctlVars>>

\* Mutant: the lock is swapped under a running task.
SetLockRunning(c, t, l) ==
  /\ cpc[c] = "idle"
  /\ lock' = [lock EXCEPT ![t] = l]
  /\ UNCHANGED <<taskState, running, thread, poolId, waiters, jobs,
                 workerVars, ctlVars>>

SetLock(c, t, l) ==
  /\ cpc[c] = "idle"
  /\ ~running[t]
  /\ lock' = [lock EXCEPT ![t] = l]
  /\ UNCHANGED <<taskState, running, thread, poolId, waiters, jobs,
                 workerVars, ctlVars>>

(* The end of gst_task_join: the thread and the pool handle are dropped.   *)
JoinDone(c, t) ==
  /\ thread' = [thread EXCEPT ![t] = None]
  /\ poolId' = [poolId EXCEPT ![t] = FALSE]
  /\ cpc' = [cpc EXCEPT ![c] = "idle"]
  /\ ctask' = [ctask EXCEPT ![c] = None]

(* gst_task_join up to its first wait.  A controller is never task->thread;*)
(* SelfJoinDetected is about the worker that is.                           *)
Join(c, t) ==
  /\ cpc[c] = "idle"
  /\ taskState' = [taskState EXCEPT ![t] = "STOPPED"]
  /\ \E ws \in Signal(waiters[t]) :
       \/ /\ running[t]
          /\ waiters' = [waiters EXCEPT ![t] = ws \cup {c}]
          /\ cpc' = [cpc EXCEPT ![c] = "joining"]
          /\ ctask' = [ctask EXCEPT ![c] = t]
          /\ UNCHANGED <<thread, poolId>>
       \/ /\ ~running[t]
          /\ waiters' = [waiters EXCEPT ![t] = ws]
          /\ JoinDone(c, t)
  /\ UNCHANGED <<running, lock, jobs, workerVars>>

(* Mutant: "if (task->running)" instead of "while".                        *)
JoinWokenOnce(c) ==
  /\ cpc[c] = "joining"
  /\ c \notin waiters[ctask[c]]
  /\ JoinDone(c, ctask[c])
  /\ UNCHANGED <<taskState, running, lock, waiters, jobs, workerVars>>

(* The wait of gst_task_join returned: test task->running again.           *)
JoinWoken(c) ==
  /\ cpc[c] = "joining"
  /\ c \notin waiters[ctask[c]]
  /\ \/ /\ running[ctask[c]]
        /\ waiters' = [waiters EXCEPT ![ctask[c]] = @ \cup {c}]
        /\ UNCHANGED <<thread, poolId, cpc, ctask>>
     \/ /\ ~running[ctask[c]]
        /\ JoinDone(c, ctask[c])
        /\ UNCHANGED waiters
  /\ UNCHANGED <<taskState, running, lock, jobs, workerVars>>

-----------------------------------------------------------------------------
(* The pool threads: gst_task_func.                                        *)
Goto(w, pc) == wpc' = [wpc EXCEPT ![w] = pc]

PickUp(w, t) ==
  /\ wpc[w] = "idle"
  /\ jobs[t] > 0
  /\ jobs' = [jobs EXCEPT ![t] = @ - 1]
  /\ wtask' = [wtask EXCEPT ![w] = t]
  /\ Goto(w, "entry")
  /\ UNCHANGED <<taskState, running, thread, lock, poolId, waiters,
                 owner, wlock, ctlVars>>

(* 344-351: leave at once when stopped (or without a lock, 348).           *)
Entry(w) ==
  /\ wpc[w] = "entry"
  /\ LET t == wtask[w] IN
       \/ /\ taskState[t] = "STOPPED" \/ lock[t] = None
          /\ Goto(w, "leave")
          /\ UNCHANGED <<thread, wlock>>
       \/ /\ taskState[t] # "STOPPED" /\ lock[t] # None
          /\ thread' = [thread EXCEPT ![t] = w]
          /\ wlock' = [wlock EXCEPT ![w] = lock[t]]
          /\ Goto(w, "enter")
  /\ UNCHANGED <<taskState, running, lock, poolId, waiters, jobs,
                 owner, wtask, ctlVars>>

(* 354-373: enter_func, or waking from PAUSED, then the stream lock.       *)
TakeStreamLock(w) ==
  /\ \/ wpc[w] = "enter"
     \/ wpc[w] = "relock"
  /\ owner[wlock[w]] = None
  /\ owner' = [owner EXCEPT ![wlock[w]] = w]
  /\ Goto(w, "loop")
  /\ UNCHANGED <<taskVars, wtask, wlock, ctlVars>>

(* 362-384: the state test, taken under the OBJECT_LOCK.  Parking releases *)
(* the stream lock, signals and sleeps in one critical section.            *)
TestState(w) ==
  /\ wpc[w] = "loop"
  /\ LET t == wtask[w] IN
       \/ /\ taskState[t] = "PAUSED"
          /\ owner' = [owner EXCEPT ![wlock[w]] = None]
          /\ \E ws \in Signal(waiters[t]) :
               waiters' = [waiters EXCEPT ![t] = ws \cup {w}]
          /\ Goto(w, "parked")
       \/ /\ taskState[t] = "STOPPED"
          /\ Goto(w, "unlock")
          /\ UNCHANGED <<owner, waiters>>
       \/ /\ taskState[t] = "STARTED"
          /\ Goto(w, "func")
          /\ UNCHANGED <<owner, waiters>>
  /\ UNCHANGED <<taskState, running, thread, lock, poolId, jobs,
                 wtask, wlock, ctlVars>>

(* 369-371: the wait returned and the OBJECT_LOCK is released again.       *)
Unpark(w) ==
  /\ wpc[w] = "parked"
  /\ w \notin waiters[wtask[w]]
  /\ Goto(w, "relock")
  /\ UNCHANGED <<taskVars, owner, wtask, wlock, ctlVars>>

(* 384: the task function changes the state of its own task, or returns.   *)
FuncSetState(w, s) ==
  /\ wpc[w] = "func"
  /\ SetStateUnlocked(wtask[w], s)
  /\ UNCHANGED <<thread, lock, workerVars, ctlVars>>

FuncReturns(w) ==
  /\ wpc[w] = "func"
  /\ Goto(w, "loop")
  /\ UNCHANGED <<taskVars, owner, wtask, wlock, ctlVars>>

DropStreamLock(w) ==
  /\ wpc[w] = "unlock"
  /\ owner' = [owner EXCEPT ![wlock[w]] = None]
  /\ wlock' = [wlock EXCEPT ![w] = None]
  /\ Goto(w, "clear")
  /\ UNCHANGED <<taskVars, wtask, ctlVars>>

ClearThread(w) ==
  /\ wpc[w] = "clear"
  /\ thread' = [thread EXCEPT ![wtask[w]] = None]
  /\ Goto(w, "leave")
  /\ UNCHANGED <<taskState, running, lock, poolId, waiters, jobs,
                 owner, wtask, wlock, ctlVars>>

(* 393-413: leave_func, then running = FALSE and the signal to the joiner. *)
Leave(w) ==
  /\ wpc[w] = "leave"
  /\ LET t == wtask[w] IN
       /\ running' = [running EXCEPT ![t] = FALSE]
       /\ WakeOne(t)
  /\ wtask' = [wtask EXCEPT ![w] = None]
  /\ Goto(w, "idle")
  /\ UNCHANGED <<taskState, thread, lock, poolId, jobs, owner, wlock,
                 ctlVars>>

(* A wait on a condition variable may return without a signal.             *)
SpuriousWakeup(x, t) ==
  /\ x \in waiters[t]
  /\ waiters' = [waiters EXCEPT ![t] = @ \ {x}]
  /\ UNCHANGED <<taskState, running, thread, lock, poolId, jobs,
                 workerVars, ctlVars>>

-----------------------------------------------------------------------------
WorkerStep(w) ==
  \/ \E t \in Tasks : PickUp(w, t)
  \/ Entry(w)
  \/ TakeStreamLock(w)
  \/ TestState(w)
  \/ Unpark(w)
  \/ FuncReturns(w)
  \/ DropStreamLock(w)
  \/ ClearThread(w)
  \/ Leave(w)

FuncStep(w) == \E s \in FuncStates : FuncSetState(w, s)

Calls(c) ==
  \E t \in Tasks :
    \/ \E s \in States : SetState(c, t, s)
    \/ Resume(c, t)
    \/ \E l \in Locks : SetLock(c, t, l)
    \/ Join(c, t)

Next ==
  \/ \E w \in Workers : WorkerStep(w) \/ FuncStep(w)
  \/ \E c \in Controllers : Calls(c) \/ JoinWoken(c)
  \/ \E x \in Threads, t \in Tasks : SpuriousWakeup(x, t)

Spec == Init /\ [][Next]_vars

(***************************************************************************)
(* Fairness.  The pool runs its threads and the task function returns; a   *)
(* woken joiner runs.  Nobody has to call anything, and the task function  *)
(* need not touch the state.                                               *)
(***************************************************************************)
Fairness ==
  /\ \A w \in Workers : WF_vars(WorkerStep(w))
  /\ \A c \in Controllers : WF_vars(JoinWoken(c))

FairSpec == Spec /\ Fairness

-----------------------------------------------------------------------------
(* Workers that execute gst_task_func for t.                               *)
Serving(t) == {w \in Workers : wtask[w] = t}

(* A thread executes gst_task_func for t, or the pool will start one.      *)
HasThread(t) == jobs[t] > 0 \/ Serving(t) # {}

(* At most one pool thread serves a task, and none while a push is still   *)
(* queued in the pool: start_task pushes only when task->running says that *)
(* no earlier thread is left (gsttask.c:743), so two threads never run the *)
(* task function of one task.                                              *)
OneThreadPerTask ==
  \A t \in Tasks :
    /\ \A v, w \in Serving(t) : v = w
    /\ jobs[t] > 0 => Serving(t) = {}

(* What gst_task_join relies on: when task->running is FALSE no thread     *)
(* executes gst_task_func for the task and none will be scheduled, so the  *)
(* caller may free the stream lock (gsttask.c:882).                        *)
JoinIsBarrier == \A t \in Tasks : ~running[t] => ~HasThread(t)

(* The function runs with the stream lock of the task held by its thread,  *)
(* and the lock is still the one configured on the task: set_lock refuses  *)
(* to swap it under a running task (gsttask.c:514).                        *)
FuncHoldsStreamLock ==
  \A w \in Workers :
    /\ wpc[w] \in HasLock => wlock[w] # None /\ wlock[w] = lock[wtask[w]]
    /\ wpc[w] \in Holding => owner[wlock[w]] = w

(* gst_task_join compares the caller with task->thread to refuse a join    *)
(* from the task's own thread (gsttask.c:914): while the function runs     *)
(* that comparison must find the worker, though joiners also reset it.     *)
SelfJoinDetected ==
  \A w \in Workers : wpc[w] = "func" => thread[wtask[w]] = w

(* A task that stays started and has a thread gets to run its function,    *)
(* also when it is resumed from PAUSED (gsttask.c:802, 748), unless that   *)
(* thread was already on its way out.                                      *)
StartedRuns ==
  \A t \in Tasks :
    (taskState[t] = "STARTED" /\ HasThread(t)) ~>
      (taskState[t] # "STARTED" \/ ~running[t] \/ \E w \in Serving(t) : wpc[w] = "func")

(* "If the task already has a thread scheduled we don't have to do         *)
(* anything" (gsttask.c:741): a task that is not stopped has a thread.     *)
StartedHasThread ==
  \A t \in Tasks : taskState[t] # "STOPPED" => running[t]
=============================================================================
