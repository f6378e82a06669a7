---------------------------- MODULE GstTaskProofs ----------------------------
(***************************************************************************)
(* The safety of GstTask for any number of tasks, pool threads, callers    *)
(* and stream locks.                                                       *)
(***************************************************************************)
EXTENDS GstTask, TLAPS

(* The places of gst_task_func between the two assignments of task->thread *)
(* (gsttask.c:350 and 390).                                                *)
OwnsThread == HasLock \cup {"clear"}

(* What each thread's place says about its local variables.                *)
PlacesOK ==
  /\ \A w \in Workers : wpc[w] = "idle" <=> wtask[w] = None
  /\ \A c \in Controllers : cpc[c] = "joining" <=> ctask[c] # None

(* task->thread is the worker while it is anywhere between those two.      *)
ThreadIsWorker ==
  \A w \in Workers : wpc[w] \in OwnsThread => thread[wtask[w]] = w

IInv ==
  /\ TypeOK
  /\ PlacesOK
  /\ OneThreadPerTask
  /\ JoinIsBarrier
  /\ FuncHoldsStreamLock
  /\ ThreadIsWorker

(* Waking one sleeper leaves a subset of them asleep.                      *)
LEMMA SignalSubset ==
  ASSUME NEW asleep, NEW ws \in Signal(asleep)
  PROVE  ws \subseteq asleep
BY DEF Signal

LEMMA InitInv == Init => IInv
BY TaskAssumption
DEF Init, IInv, TypeOK, PlacesOK, OneThreadPerTask, JoinIsBarrier, HasThread, Serving,
    FuncHoldsStreamLock, ThreadIsWorker, OwnsThread, HasLock, Holding, States,
    WorkerPCs, Threads

LEMMA WakeOneType ==
  ASSUME TypeOK, NEW t \in Tasks, WakeOne(t)
  PROVE  waiters' \in [Tasks -> SUBSET Threads]
<1>1. PICK ws \in Signal(waiters[t]) : waiters' = [waiters EXCEPT ![t] = ws]
  BY DEF WakeOne
<1>2. ws \in SUBSET Threads
  BY <1>1, SignalSubset DEF TypeOK
<1>3. QED
  BY <1>1, <1>2 DEF TypeOK

(* A sleeper, once woken or put to sleep, is still one of the threads.     *)
LEMMA SleepType ==
  ASSUME TypeOK, NEW t \in Tasks, NEW x \in Threads,
         NEW ws \in Signal(waiters[t]), waiters' = [waiters EXCEPT ![t] = ws \cup {x}]
  PROVE  waiters' \in [Tasks -> SUBSET Threads]
<1>1. ws \cup {x} \in SUBSET Threads
  BY SignalSubset DEF TypeOK
<1>2. QED
  BY <1>1 DEF TypeOK

(* set_state_unlocked, whoever calls it: a push happens only when no       *)
(* thread is left.                                                         *)
LEMMA SetStateInv ==
  ASSUME IInv, NEW t \in Tasks, NEW s \in States, SetStateUnlocked(t, s),
         UNCHANGED <<thread, lock, workerVars, ctlVars>>
  PROVE  IInv'
<1> USE TaskAssumption DEF IInv, workerVars, ctlVars
<1>1. waiters' \in [Tasks -> SUBSET Threads]
  BY WakeOneType DEF SetStateUnlocked, TypeOK
<1>2. taskState' \in [Tasks -> States]
  BY DEF SetStateUnlocked, TypeOK
<1>3. /\ running' \in [Tasks -> BOOLEAN]
      /\ poolId' \in [Tasks -> BOOLEAN]
      /\ jobs' \in [Tasks -> 0 .. 1]
  <2>1. CASE taskState[t] = "STOPPED" /\ ~running[t] /\ ~Refused(t, s)
    <3>1. StartTask(t) /\ jobs[t] = 0
      BY <2>1 DEF SetStateUnlocked, JoinIsBarrier, HasThread, TypeOK
    <3>2. QED
      BY <3>1 DEF StartTask, TypeOK
  <2>2. CASE ~(taskState[t] = "STOPPED" /\ ~running[t] /\ ~Refused(t, s))
    BY <2>2 DEF SetStateUnlocked, TypeOK
  <2>3. QED
    BY <2>1, <2>2
<1>4. TypeOK'
  BY <1>1, <1>2, <1>3 DEF TypeOK
<1>5. OneThreadPerTask' /\ JoinIsBarrier'
  BY DEF SetStateUnlocked, StartTask, TypeOK, JoinIsBarrier, HasThread, OneThreadPerTask, Serving
<1>6. PlacesOK' /\ FuncHoldsStreamLock' /\ ThreadIsWorker'
  BY DEF PlacesOK, FuncHoldsStreamLock, ThreadIsWorker
<1>7. QED
  BY <1>4, <1>5, <1>6

(* The end of a join resets task->thread only when no worker is left.      *)
LEMMA JoinDoneInv ==
  ASSUME IInv, NEW c \in Controllers, NEW t \in Tasks, ~running[t], JoinDone(c, t),
         waiters' \in [Tasks -> SUBSET Threads], taskState' \in [Tasks -> States],
         UNCHANGED <<running, lock, jobs, workerVars>>
  PROVE  IInv'
<1> USE TaskAssumption DEF IInv, workerVars
<1>1. TypeOK'
  BY DEF TypeOK, JoinDone
<1>2. PlacesOK'
  BY DEF PlacesOK, JoinDone, TypeOK
<1>3. OneThreadPerTask' /\ JoinIsBarrier' /\ FuncHoldsStreamLock'
  BY DEF OneThreadPerTask, JoinIsBarrier, HasThread, Serving, FuncHoldsStreamLock
<1>4. ThreadIsWorker'
  <2>1. Serving(t) = {}
    BY DEF JoinIsBarrier, HasThread
  <2>2. QED
    BY <2>1 DEF ThreadIsWorker, Serving, JoinDone, TypeOK, OwnsThread, HasLock, Holding, PlacesOK
<1>5. QED
  BY <1>1, <1>2, <1>3, <1>4

LEMMA JoinInv ==
  ASSUME IInv, NEW c \in Controllers, NEW t \in Tasks, Join(c, t)
  PROVE  IInv'
<1> USE TaskAssumption DEF IInv
<1>1. PICK ws \in Signal(waiters[t]) :
        \/ /\ running[t]
           /\ waiters' = [waiters EXCEPT ![t] = ws \cup {c}]
           /\ cpc' = [cpc EXCEPT ![c] = "joining"]
           /\ ctask' = [ctask EXCEPT ![c] = t]
           /\ UNCHANGED <<thread, poolId>>
        \/ /\ ~running[t]
           /\ waiters' = [waiters EXCEPT ![t] = ws]
           /\ JoinDone(c, t)
  BY DEF Join
<1>2. taskState' \in [Tasks -> States]
  BY DEF Join, TypeOK, States
<1>3. CASE running[t]
  <2>1. waiters' \in [Tasks -> SUBSET Threads]
    BY <1>1, <1>3, SleepType DEF Threads
  <2>2. TypeOK'
    BY <1>1, <1>2, <1>3, <2>1 DEF Join, TypeOK, workerVars
  <2>3. PlacesOK'
    BY <1>1, <1>3 DEF Join, PlacesOK, TypeOK, workerVars
  <2>4. OneThreadPerTask' /\ JoinIsBarrier' /\ FuncHoldsStreamLock' /\ ThreadIsWorker'
    BY <1>1, <1>3
    DEF Join, OneThreadPerTask, JoinIsBarrier, HasThread, Serving, FuncHoldsStreamLock,
        ThreadIsWorker, workerVars
  <2>5. QED
    BY <2>2, <2>3, <2>4
<1>4. CASE ~running[t]
  <2>1. waiters' \in [Tasks -> SUBSET Threads]
    BY <1>1, <1>4, WakeOneType DEF WakeOne
  <2>2. QED
    BY <1>1, <1>2, <1>4, <2>1, JoinDoneInv DEF Join
<1>5. QED
  BY <1>3, <1>4

LEMMA JoinWokenInv ==
  ASSUME IInv, NEW c \in Controllers, JoinWoken(c)
  PROVE  IInv'
<1> USE TaskAssumption DEF IInv
<1>1. ctask[c] \in Tasks
  BY DEF JoinWoken, PlacesOK, TypeOK
<1>2. CASE running[ctask[c]]
  <2>1. TypeOK'
    BY <1>1, <1>2 DEF JoinWoken, TypeOK, Threads, workerVars
  <2>2. QED
    BY <1>1, <1>2, <2>1
    DEF JoinWoken, PlacesOK, OneThreadPerTask, JoinIsBarrier, HasThread, Serving,
        FuncHoldsStreamLock, ThreadIsWorker, workerVars
<1>3. CASE ~running[ctask[c]]
  BY <1>1, <1>3, JoinDoneInv DEF JoinWoken, TypeOK
<1>4. QED
  BY <1>2, <1>3

-----------------------------------------------------------------------------
(* The pool threads.                                                       *)
LEMMA PickUpInv ==
  ASSUME IInv, NEW w \in Workers, NEW t \in Tasks, PickUp(w, t)
  PROVE  IInv'
<1> USE TaskAssumption DEF IInv, ctlVars
<1>1. jobs[t] = 1 /\ Serving(t) = {} /\ running[t]
  BY DEF PickUp, TypeOK, OneThreadPerTask, JoinIsBarrier, HasThread
<1>2. TypeOK'
  BY <1>1 DEF PickUp, Goto, TypeOK, WorkerPCs
<1>3. PlacesOK'
  BY DEF PickUp, Goto, TypeOK, PlacesOK
<1>4. \A u \in Tasks : Serving(u)' = IF u = t THEN {w} ELSE Serving(u)
  BY <1>1 DEF PickUp, Goto, TypeOK, PlacesOK, Serving
<1>5. OneThreadPerTask'
  BY <1>1, <1>4 DEF PickUp, TypeOK, OneThreadPerTask
<1>6. JoinIsBarrier'
  BY <1>1, <1>4 DEF PickUp, TypeOK, JoinIsBarrier, HasThread
<1>7. FuncHoldsStreamLock' /\ ThreadIsWorker'
  BY DEF PickUp, Goto, TypeOK, FuncHoldsStreamLock, ThreadIsWorker, OwnsThread, HasLock, Holding
<1>8. QED
  BY <1>2, <1>3, <1>5, <1>6, <1>7

(* The steps a worker takes while it serves its task.                      *)
LEMMA ServingStep ==
  ASSUME IInv, NEW w \in Workers, wpc[w] # "idle"
  PROVE  /\ wtask[w] \in Tasks
         /\ w \in Serving(wtask[w])
         /\ running[wtask[w]]
BY DEF IInv, PlacesOK, TypeOK, JoinIsBarrier, HasThread, Serving

(* What a worker's step leaves alone when it moves neither jobs, running,  *)
(* nor its task.                                                           *)
LEMMA SameServing ==
  ASSUME IInv, UNCHANGED <<running, jobs, wtask>>
  PROVE  OneThreadPerTask' /\ JoinIsBarrier'
BY DEF IInv, OneThreadPerTask, JoinIsBarrier, HasThread, Serving

LEMMA EntryInv ==
  ASSUME IInv, NEW w \in Workers, Entry(w)
  PROVE  IInv'
<1> USE TaskAssumption DEF IInv, ctlVars
<1>1. wtask[w] \in Tasks /\ w \in Serving(wtask[w])
  BY ServingStep DEF Entry
<1>2. TypeOK'
  BY <1>1 DEF Entry, Goto, TypeOK, WorkerPCs
<1>3. PlacesOK'
  BY DEF Entry, Goto, TypeOK, PlacesOK
<1>4. OneThreadPerTask' /\ JoinIsBarrier'
  BY SameServing DEF Entry
<1>5. FuncHoldsStreamLock'
  BY <1>1 DEF Entry, Goto, TypeOK, FuncHoldsStreamLock, HasLock, Holding
<1>6. ThreadIsWorker'
  BY <1>1 DEF Entry, Goto, TypeOK, ThreadIsWorker, OwnsThread, HasLock, Holding,
              OneThreadPerTask, Serving, PlacesOK
<1>7. QED
  BY <1>2, <1>3, <1>4, <1>5, <1>6

LEMMA TakeStreamLockInv ==
  ASSUME IInv, NEW w \in Workers, TakeStreamLock(w)
  PROVE  IInv'
<1> USE TaskAssumption DEF IInv, ctlVars, taskVars
<1>1. wtask[w] \in Tasks /\ wlock[w] \in Locks
  BY ServingStep DEF TakeStreamLock, FuncHoldsStreamLock, HasLock, TypeOK
<1>2. TypeOK'
  BY <1>1 DEF TakeStreamLock, Goto, TypeOK, WorkerPCs, Threads
<1>3. PlacesOK' /\ ThreadIsWorker'
  BY DEF TakeStreamLock, Goto, TypeOK, PlacesOK, ThreadIsWorker, OwnsThread, HasLock, Holding
<1>4. OneThreadPerTask' /\ JoinIsBarrier'
  BY SameServing DEF TakeStreamLock
<1>5. FuncHoldsStreamLock'
  BY <1>1 DEF TakeStreamLock, Goto, TypeOK, FuncHoldsStreamLock, HasLock, Holding
<1>6. QED
  BY <1>2, <1>3, <1>4, <1>5

LEMMA TestStateInv ==
  ASSUME IInv, NEW w \in Workers, TestState(w)
  PROVE  IInv'
<1> USE TaskAssumption DEF IInv, ctlVars
<1> DEFINE t == wtask[w]
<1>1. t \in Tasks /\ wlock[w] \in Locks
  BY ServingStep DEF TestState, FuncHoldsStreamLock, HasLock, Holding, TypeOK
<1>2. waiters' \in [Tasks -> SUBSET Threads]
  BY <1>1, SleepType DEF TestState, Threads, TypeOK
<1>3. TypeOK'
  BY <1>1, <1>2 DEF TestState, Goto, TypeOK, WorkerPCs, Threads
<1>4. PlacesOK' /\ ThreadIsWorker'
  BY DEF TestState, Goto, TypeOK, PlacesOK, ThreadIsWorker, OwnsThread, HasLock, Holding
<1>5. OneThreadPerTask' /\ JoinIsBarrier'
  BY SameServing DEF TestState
<1>6. FuncHoldsStreamLock'
  <2>1. CASE taskState[t] = "PAUSED"
    BY <1>1, <2>1 DEF TestState, Goto, TypeOK, FuncHoldsStreamLock, HasLock, Holding
  <2>2. CASE taskState[t] # "PAUSED"
    BY <1>1, <2>2 DEF TestState, Goto, TypeOK, FuncHoldsStreamLock, HasLock, Holding
  <2>3. QED
    BY <2>1, <2>2
<1>7. QED
  BY <1>3, <1>4, <1>5, <1>6

LEMMA UnparkInv ==
  ASSUME IInv, NEW w \in Workers, Unpark(w) \/ FuncReturns(w)
  PROVE  IInv'
<1> USE TaskAssumption DEF IInv, ctlVars, taskVars
<1>1. TypeOK'
  BY DEF Unpark, FuncReturns, Goto, TypeOK, WorkerPCs
<1>2. PlacesOK' /\ ThreadIsWorker' /\ FuncHoldsStreamLock'
  BY DEF Unpark, FuncReturns, Goto, TypeOK, PlacesOK, ThreadIsWorker, FuncHoldsStreamLock,
         OwnsThread, HasLock, Holding
<1>3. OneThreadPerTask' /\ JoinIsBarrier'
  BY SameServing DEF Unpark, FuncReturns
<1>4. QED
  BY <1>1, <1>2, <1>3

LEMMA DropStreamLockInv ==
  ASSUME IInv, NEW w \in Workers, DropStreamLock(w)
  PROVE  IInv'
<1> USE TaskAssumption DEF IInv, ctlVars, taskVars
<1>1. wlock[w] \in Locks
  BY DEF DropStreamLock, FuncHoldsStreamLock, HasLock, Holding, TypeOK
<1>2. TypeOK'
  BY <1>1 DEF DropStreamLock, Goto, TypeOK, WorkerPCs
<1>3. PlacesOK' /\ ThreadIsWorker'
  BY DEF DropStreamLock, Goto, TypeOK, PlacesOK, ThreadIsWorker, OwnsThread, HasLock, Holding
<1>4. OneThreadPerTask' /\ JoinIsBarrier'
  BY SameServing DEF DropStreamLock
<1>5. FuncHoldsStreamLock'
  BY <1>1 DEF DropStreamLock, Goto, TypeOK, FuncHoldsStreamLock, HasLock, Holding
<1>6. QED
  BY <1>2, <1>3, <1>4, <1>5

LEMMA ClearThreadInv ==
  ASSUME IInv, NEW w \in Workers, ClearThread(w)
  PROVE  IInv'
<1> USE TaskAssumption DEF IInv, ctlVars
<1>1. wtask[w] \in Tasks /\ w \in Serving(wtask[w])
  BY ServingStep DEF ClearThread
<1>2. TypeOK'
  BY DEF ClearThread, Goto, TypeOK, WorkerPCs
<1>3. PlacesOK' /\ FuncHoldsStreamLock'
  BY DEF ClearThread, Goto, TypeOK, PlacesOK, FuncHoldsStreamLock, HasLock, Holding
<1>4. OneThreadPerTask' /\ JoinIsBarrier'
  BY SameServing DEF ClearThread
<1>5. ThreadIsWorker'
  BY <1>1 DEF ClearThread, Goto, TypeOK, ThreadIsWorker, OwnsThread, HasLock, Holding,
              OneThreadPerTask, Serving, PlacesOK
<1>6. QED
  BY <1>2, <1>3, <1>4, <1>5

LEMMA LeaveInv ==
  ASSUME IInv, NEW w \in Workers, Leave(w)
  PROVE  IInv'
<1> USE TaskAssumption DEF IInv, ctlVars
<1>1. wtask[w] \in Tasks /\ w \in Serving(wtask[w])
  BY ServingStep DEF Leave
<1>2. Serving(wtask[w]) = {w} /\ jobs[wtask[w]] = 0
  BY <1>1 DEF OneThreadPerTask, TypeOK
<1>3. waiters' \in [Tasks -> SUBSET Threads]
  BY <1>1, WakeOneType DEF Leave
<1>4. TypeOK'
  BY <1>3 DEF Leave, Goto, TypeOK, WorkerPCs
<1>5. PlacesOK' /\ FuncHoldsStreamLock' /\ ThreadIsWorker'
  BY DEF Leave, Goto, TypeOK, PlacesOK, ThreadIsWorker, FuncHoldsStreamLock, OwnsThread,
         HasLock, Holding
<1>6. \A u \in Tasks : Serving(u)' = Serving(u) \ {w}
  BY DEF Leave, Serving, TypeOK
<1>7. OneThreadPerTask' /\ JoinIsBarrier'
  BY <1>1, <1>2, <1>6 DEF Leave, OneThreadPerTask, JoinIsBarrier, HasThread, TypeOK
<1>8. QED
  BY <1>4, <1>5, <1>7

-----------------------------------------------------------------------------
LEMMA SetLockInv ==
  ASSUME IInv, NEW c \in Controllers, NEW t \in Tasks, NEW l \in Locks, SetLock(c, t, l)
  PROVE  IInv'
<1> USE TaskAssumption DEF IInv, ctlVars, workerVars
<1>1. Serving(t) = {}
  BY DEF SetLock, JoinIsBarrier, HasThread
<1>2. TypeOK' /\ PlacesOK' /\ ThreadIsWorker'
  BY DEF SetLock, TypeOK, PlacesOK, ThreadIsWorker
<1>3. OneThreadPerTask' /\ JoinIsBarrier'
  BY SameServing DEF SetLock
<1>4. FuncHoldsStreamLock'
  BY <1>1 DEF SetLock, TypeOK, FuncHoldsStreamLock, Serving
<1>5. QED
  BY <1>2, <1>3, <1>4

LEMMA SpuriousWakeupInv ==
  ASSUME IInv, NEW x \in Threads, NEW t \in Tasks, SpuriousWakeup(x, t)
  PROVE  IInv'
<1> USE DEF IInv, ctlVars, workerVars
<1>1. TypeOK'
  BY DEF SpuriousWakeup, TypeOK
<1>2. PlacesOK' /\ ThreadIsWorker' /\ FuncHoldsStreamLock'
  BY DEF SpuriousWakeup, PlacesOK, ThreadIsWorker, FuncHoldsStreamLock
<1>3. QED
  BY <1>1, <1>2, SameServing DEF SpuriousWakeup

LEMMA NextInv == IInv /\ [Next]_vars => IInv'
<1> SUFFICES ASSUME IInv, [Next]_vars PROVE IInv'
  OBVIOUS
<1>1. ASSUME NEW w \in Workers, WorkerStep(w) PROVE IInv'
  BY <1>1, PickUpInv, EntryInv, TakeStreamLockInv, TestStateInv, UnparkInv,
     DropStreamLockInv, ClearThreadInv, LeaveInv
  DEF WorkerStep
<1>2. ASSUME NEW w \in Workers, FuncStep(w) PROVE IInv'
  <2>1. PICK s \in FuncStates : FuncSetState(w, s)
    BY <1>2 DEF FuncStep
  <2>2. wtask[w] \in Tasks /\ s \in States
    BY <2>1, ServingStep, TaskAssumption DEF FuncSetState, States
  <2>3. QED
    BY <2>1, <2>2, SetStateInv DEF FuncSetState
<1>3. ASSUME NEW c \in Controllers, NEW t \in Tasks, NEW s \in States, SetState(c, t, s)
      PROVE IInv'
  BY <1>3, SetStateInv DEF SetState
<1>4. ASSUME NEW c \in Controllers, NEW t \in Tasks, Resume(c, t) PROVE IInv'
  BY <1>4, SetStateInv DEF Resume, States
<1>5. ASSUME NEW c \in Controllers, Calls(c) PROVE IInv'
  BY <1>3, <1>4, <1>5, SetLockInv, JoinInv DEF Calls
<1>6. ASSUME UNCHANGED vars PROVE IInv'
  BY <1>6
  DEF vars, taskVars, workerVars, ctlVars, IInv, TypeOK, PlacesOK, OneThreadPerTask,
      JoinIsBarrier, HasThread, Serving, FuncHoldsStreamLock, ThreadIsWorker
<1>7. QED
  BY <1>1, <1>2, <1>5, <1>6, JoinWokenInv, SpuriousWakeupInv DEF Next

-----------------------------------------------------------------------------
(* IInv is an inductive invariant of gsttask.c.                            *)
THEOREM Invariance == Spec => []IInv
BY InitInv, NextInv, PTL DEF Spec

(* The variables keep their types; in particular the pool never holds two  *)
(* pending calls for one task (gsttask.c:690-721).                         *)
THEOREM TypeCorrect == Spec => []TypeOK
BY Invariance, PTL DEF IInv

(* gsttask.c:743: never two threads in gst_task_func for one task.         *)
THEOREM OneThread == Spec => []OneThreadPerTask
BY Invariance, PTL DEF IInv

(* gsttask.c:925: a join that returned has no thread left behind it.       *)
THEOREM JoinBarrier == Spec => []JoinIsBarrier
BY Invariance, PTL DEF IInv

(* gsttask.c:359, 514: the function runs under the configured lock.        *)
THEOREM StreamLockHeld == Spec => []FuncHoldsStreamLock
BY Invariance, PTL DEF IInv

(* gsttask.c:914: a join from the task's own function is recognised.       *)
THEOREM SelfJoin == Spec => []SelfJoinDetected
<1>1. IInv => SelfJoinDetected
  BY DEF IInv, ThreadIsWorker, SelfJoinDetected, OwnsThread, HasLock, Holding
<1>2. QED
  BY <1>1, Invariance, PTL
=============================================================================
