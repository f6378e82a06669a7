----------------------------- MODULE GstPadTask ------------------------------
(***************************************************************************)
(* gstreamer/gst/gstpad.c, gst_pad_start_task, _pause_task and _stop_task: *)
(* a pad owns at most one GstTask, whose stream lock is the pad's, and     *)
(* drives it for any number of callers.  The task is GstTask; a step here  *)
(* is one critical section of the pad's OBJECT_LOCK, with the task calls   *)
(* made in it, or one wait for the stream lock.                            *)
(*                                                                         *)
(* A member of Tasks is the memory of a GstTask: gst_task_new may return   *)
(* the address of a task that was freed, and gst_pad_start_task compares   *)
(* addresses (gstpad.c:6303).                                              *)
(*                                                                         *)
(* A member of Controllers is one call in progress.  Most are made by      *)
(* threads of their own; within[c] is the pool thread when the call is a   *)
(* stop made by the task function, which its documentation forbids         *)
(* (gstpad.c:6409) and its code survives (join_failed, 6459).              *)
(***************************************************************************)
EXTENDS GstTask

CONSTANT StreamLock    \* GST_PAD_GET_STREAM_LOCK of the pad

ASSUME PadAssumption == StreamLock \in Locks /\ "PAUSED" \in FuncStates

VARIABLES
  padTask,      \* GST_PAD_TASK
  ppc, ptask,   \* where each caller is in the pad's functions; its "task"
  within,       \* the pool thread whose task function makes the call
  unjoined      \* tasks whose stop failed and that nobody joined since: on
                \* the pad again, or leaked when the pad had another task

callVars == <<ppc, ptask, within>>
padVars  == <<padTask, callVars, unjoined>>
allVars == <<vars, padVars>>

\* "check" 6300  "pause" 6350  "stop" 6439 and 6457  "join" 6442
\* "failed" 6464
PadPCs == {"idle", "check", "pause", "stop", "join", "failed"}

\* The places of gst_pad_stop_task.
Stopping == {"stop", "join", "failed"}

PadTypeOK ==
  /\ padTask \in Tasks \cup {None}
  /\ ppc \in [Controllers -> PadPCs]
  /\ ptask \in [Controllers -> Tasks \cup {None}]
  /\ within \in [Controllers -> Workers \cup {None}]
  /\ unjoined \subseteq Tasks
  /\ \A c \in Controllers :
       /\ ppc[c] \in {"check", "join", "failed"} => ptask[c] # None
       /\ ppc[c] \in {"idle", "pause"} => ptask[c] = None
       /\ within[c] # None => ppc[c] \in Stopping /\ ptask[c] # None

PadInit ==
  /\ Init
  /\ padTask = None
  /\ ppc = [c \in Controllers |-> "idle"]
  /\ ptask = [c \in Controllers |-> None]
  /\ within = [c \in Controllers |-> None]
  /\ unjoined = {}

(* Where a caller goes next, and the task it remembers.                    *)
PadGoto(c, pc, t) ==
  /\ ppc' = [ppc EXCEPT ![c] = pc]
  /\ ptask' = [ptask EXCEPT ![c] = t]
  /\ UNCHANGED within

PadReturn(c) ==
  /\ ppc' = [ppc EXCEPT ![c] = "idle"]
  /\ ptask' = [ptask EXCEPT ![c] = None]
  /\ within' = [within EXCEPT ![c] = None]

(* The task function of w has called gst_pad_stop_task.                    *)
InStop(w) == \E c \in Controllers : within[c] = w

(* gst_task_set_state on one task, by a caller that is not its thread.     *)
CallSetState(t, s) ==
  /\ SetStateUnlocked(t, s)
  /\ UNCHANGED <<thread, lock, workerVars, ctlVars>>

(* Referenced by the pad, by a caller about to join it, by its thread, or  *)
(* by nobody any more but not freed (the stop that failed keeps its own).  *)
Unreferenced(t) ==
  /\ t # padTask
  /\ t \notin unjoined
  /\ ~running[t]
  /\ \A c \in Controllers : ptask[c] = t => ppc[c] = "check"

-----------------------------------------------------------------------------
(* gst_pad_start_task without a task: create one and release the lock to   *)
(* post the CREATE message; the caller's own reference is gone when it     *)
(* takes the lock again.                                                   *)
PadStartNew(c) ==
  /\ ppc[c] = "idle"
  /\ padTask = None
  /\ \E t \in Tasks :
       /\ Unreferenced(t)
       /\ lock' = [lock EXCEPT ![t] = StreamLock]
       /\ padTask' = t
       /\ PadGoto(c, "check", t)
  /\ UNCHANGED <<taskState, running, thread, poolId, waiters, jobs,
                 workerVars, ctlVars, unjoined>>

(* Mutant: the task the caller created is started, whoever owns it now.    *)
PadStartCreated(c) ==
  /\ ppc[c] = "check"
  /\ CallSetState(ptask[c], "STARTED")
  /\ PadReturn(c)
  /\ UNCHANGED <<padTask, unjoined>>

(* The lock is taken again: start the task unless the pad has another.     *)
PadStartChecked(c) ==
  /\ ppc[c] = "check"
  /\ \/ padTask = ptask[c] /\ CallSetState(padTask, "STARTED")
     \/ padTask # ptask[c] /\ UNCHANGED vars
  /\ PadReturn(c)
  /\ UNCHANGED <<padTask, unjoined>>

PadStart(c) ==
  /\ ppc[c] = "idle"
  /\ padTask # None
  /\ CallSetState(padTask, "STARTED")
  /\ UNCHANGED padVars

(* Mutants: pause returns without waiting; stop keeps the pad's task.      *)
PadPauseNoWait(c) ==
  /\ ppc[c] = "idle"
  /\ padTask # None
  /\ CallSetState(padTask, "PAUSED")
  /\ UNCHANGED padVars

PadStopKeepsTask(c) ==
  /\ ppc[c] = "idle"
  /\ padTask # None
  /\ CallSetState(padTask, "STOPPED")
  /\ PadGoto(c, "stop", padTask)
  /\ UNCHANGED <<padTask, unjoined>>

(* Mutant: the task is only taken away, not stopped.                       *)
PadStopNoState(c) ==
  /\ ppc[c] = "idle"
  /\ padTask' = None
  /\ PadGoto(c, "stop", padTask)
  /\ UNCHANGED <<vars, unjoined>>

PadPause(c) ==
  /\ ppc[c] = "idle"
  /\ padTask # None
  /\ CallSetState(padTask, "PAUSED")
  /\ PadGoto(c, "pause", None)
  /\ UNCHANGED <<padTask, unjoined>>

PadStop(c) ==
  /\ ppc[c] = "idle"
  /\ padTask' = None
  /\ \/ padTask # None /\ CallSetState(padTask, "STOPPED")
     \/ padTask = None /\ UNCHANGED vars
  /\ PadGoto(c, "stop", padTask)
  /\ UNCHANGED unjoined

(* Mutant: the caller does not wait for the stream lock.                   *)
PastStreamLock(c) ==
  /\ ppc[c] \in {"pause", "stop"}
  /\ IF ptask[c] = None THEN PadReturn(c) ELSE PadGoto(c, "join", ptask[c])
  /\ UNCHANGED <<vars, padTask, unjoined>>

(* GST_PAD_STREAM_LOCK and _UNLOCK: the wait for the function to finish.   *)
(* The lock is recursive: the function itself does not wait.               *)
StreamLockBarrier(c) ==
  /\ ppc[c] \in {"pause", "stop"}
  /\ owner[StreamLock] \in {None, within[c]}
  /\ IF ptask[c] = None THEN PadReturn(c) ELSE PadGoto(c, "join", ptask[c])
  /\ UNCHANGED <<vars, padTask, unjoined>>

(* Where a stop is once gst_task_join has looked at task->running: it      *)
(* waits, or unrefs the task it has joined.                                *)
PadJoining(c) ==
  IF running[ptask[c]]
    THEN UNCHANGED <<callVars, unjoined>>
    ELSE PadReturn(c) /\ unjoined' = unjoined \ {ptask[c]}

(* Mutant: the task is dropped while its thread still runs.                *)
PadJoinNoWait(c) ==
  /\ ppc[c] = "join"
  /\ JoinDone(c, ptask[c])
  /\ PadReturn(c)
  /\ UNCHANGED <<taskState, running, lock, waiters, jobs, workerVars,
                 padTask, unjoined>>

(* joining_self: gst_task_join is called by the thread of the task.        *)
JoiningSelf(c) == within[c] # None /\ thread[ptask[c]] = within[c]

PadJoin(c) ==
  /\ ppc[c] = "join"
  /\ ~JoiningSelf(c)
  /\ Join(c, ptask[c])
  /\ PadJoining(c)
  /\ UNCHANGED padTask

PadJoinWoken(c) ==
  /\ JoinWoken(c)
  /\ PadJoining(c)
  /\ UNCHANGED padTask

PadJoinRefused(c) ==
  /\ ppc[c] = "join"
  /\ cpc[c] = "idle"
  /\ JoiningSelf(c)
  /\ PadGoto(c, "failed", ptask[c])
  /\ UNCHANGED <<vars, padTask, unjoined>>

(* join_failed: the pad gets its task back, STOPPED and with its thread,   *)
(* or keeps the one it was given meanwhile.                                *)
PadPutBack(c) ==
  /\ ppc[c] = "failed"
  /\ padTask' = IF padTask = None THEN ptask[c] ELSE padTask
  /\ unjoined' = unjoined \cup {ptask[c]}
  /\ PadReturn(c)
  /\ UNCHANGED vars

-----------------------------------------------------------------------------
(* The pad's task function pauses the task of its pad, as elements do on   *)
(* EOS and errors.  It owns the stream lock, which is recursive, so the    *)
(* call does not wait.                                                     *)
FuncPadPause(w) ==
  /\ wpc[w] = "func" /\ ~InStop(w)
  /\ padTask # None
  /\ CallSetState(padTask, "PAUSED")
  /\ UNCHANGED padVars

(* gst_pad_stop_task up to the stream lock, called by the function of w    *)
(* (without a task the call changes nothing).                              *)
FuncPadStop(w, c) ==
  /\ wpc[w] = "func" /\ ~InStop(w)
  /\ ppc[c] = "idle"
  /\ padTask # None
  /\ padTask' = None
  /\ CallSetState(padTask, "STOPPED")
  /\ ppc' = [ppc EXCEPT ![c] = "stop"]
  /\ ptask' = [ptask EXCEPT ![c] = padTask]
  /\ within' = [within EXCEPT ![c] = w]
  /\ UNCHANGED unjoined

PadWorkerStep(w) ==
  /\ ~InStop(w)
  /\ WorkerStep(w)
  /\ UNCHANGED padVars

PadCalls(c) == PadStartNew(c) \/ PadStart(c) \/ PadPause(c) \/ PadStop(c)

PadProgress(c) ==
  \/ PadStartChecked(c)
  \/ StreamLockBarrier(c)
  \/ PadJoin(c)
  \/ PadJoinWoken(c)
  \/ PadJoinRefused(c)
  \/ PadPutBack(c)

PadNext ==
  \/ \E c \in Controllers : PadCalls(c) \/ PadProgress(c)
  \/ \E w \in Workers : PadWorkerStep(w) \/ FuncPadPause(w)
  \/ \E w \in Workers, c \in Controllers : FuncPadStop(w, c)
  \/ \E x \in Threads, t \in Tasks : SpuriousWakeup(x, t) /\ UNCHANGED padVars

PadSpec == PadInit /\ [][PadNext]_allVars

(***************************************************************************)
(* Fairness: threads run, the task function returns, and a mutex that is   *)
(* released again and again is not denied to the same thread forever.      *)
(***************************************************************************)
PadFairSpec ==
  /\ PadSpec
  /\ \A w \in Workers : /\ WF_allVars(PadWorkerStep(w))
                        /\ SF_allVars(TakeStreamLock(w) /\ PadWorkerStep(w))
  /\ \A c \in Controllers : /\ WF_allVars(PadProgress(c))
                            /\ SF_allVars(StreamLockBarrier(c))

-----------------------------------------------------------------------------
(* The pad only uses the task through its functions: everything GstTask    *)
(* guarantees holds for the task of a pad (gstpad.c:6272-6473).            *)
UsesTask == Spec

(* What the pad promises to elements (PadTaskContract): the function of the*)
(* pad's present or former tasks runs in one thread at a time, begins only *)
(* while the pad's task is STARTED, and does not run at the moment a pause *)
(* or stop of another thread gets the stream lock (gstpad.c:6252-6473).    *)
Contract == INSTANCE PadTaskContract WITH
  Callers <- Controllers,
  tstate  <- IF padTask = None THEN "STOPPED" ELSE taskState[padTask],
  busy    <- \E w \in Workers : wpc[w] = "func",
  waiting <- {c \in Controllers : ppc[c] \in {"pause", "stop"} /\ within[c] = None}

KeepsContract == Contract!ContractSpec

(* A thread that may still run belongs to the pad's task, or to a task that*)
(* a stop in progress is about to join: when every stop has returned,      *)
(* streaming has ended (gstpad.c:6401-6412).  The one exception is a task  *)
(* whose own function stopped it: that stop fails, and when the pad has    *)
(* been given another task meanwhile nobody waits for the thread (6467).   *)
NoStrayThread ==
  \A t \in Tasks :
    HasThread(t) =>
      \/ padTask = t
      \/ \E c \in Controllers : ptask[c] = t /\ ppc[c] \in Stopping
      \/ t \in unjoined

(* A task that left STOPPED has a thread.  GstTask alone does not give this*)
(* (a start that meets a leaving thread is lost); the pad does, since it   *)
(* never starts a task it has stopped (gstpad.c:6436), unless it got that  *)
(* task back from a stop made by the task's own function (6467): then the  *)
(* start is lost as it is on the bare task.                                *)
PadStartNotLost ==
  \A t \in Tasks : taskState[t] # "STOPPED" => running[t] \/ t \in unjoined

(* gst_pad_stop_task returns, unless another caller starts a new task,     *)
(* whose thread may keep the stream lock (gstpad.c:6439-6444), or a task   *)
(* function joins another task while it holds that lock.                   *)
StopReturns ==
  \A c \in Controllers :
    ppc[c] = "stop" ~> \/ ppc[c] = "idle" \/ padTask # None
                       \/ \E d \in Controllers : within[d] # None /\ ppc[d] = "join"
=============================================================================
