--------------------------- MODULE GstPadTaskProofs ---------------------------
(***************************************************************************)
(* gst_pad_start_task, _pause_task and _stop_task for any number of tasks, *)
(* pool threads and callers: the pad is a correct user of GstTask, and     *)
(* implements PadTaskContract.                                             *)
(***************************************************************************)
EXTENDS GstPadTask, GstTaskProofs

(* Only the task of the pad leaves STOPPED, and one that is STOPPED has no *)
(* thread while it is the pad's, unless its own function stopped it.       *)
OnlyPadTaskRuns ==
  /\ \A t \in Tasks : taskState[t] # "STOPPED" => padTask = t
  /\ padTask # None /\ taskState[padTask] = "STOPPED" =>
       ~running[padTask] \/ padTask \in unjoined

(* c has taken t from the pad to stop it.                                  *)
Stops(c, t) == t # None /\ ptask[c] = t /\ ppc[c] \in Stopping

(* All tasks have the stream lock of the pad, once they have one.          *)
PadLock ==
  /\ \A t \in Tasks : lock[t] \in {None, StreamLock}
  /\ padTask # None => lock[padTask] = StreamLock
  /\ \A c \in Controllers, t \in Tasks : Stops(c, t) => lock[t] = StreamLock

(* A caller about to join a task has taken it from the pad, alone, and     *)
(* waits in gst_task_join for that task only.                              *)
StopsOwnTask ==
  \A c \in Controllers :
    /\ cpc[c] = "joining" => ppc[c] = "join" /\ ctask[c] = ptask[c]
    /\ \A t \in Tasks : Stops(c, t) => /\ t # padTask
                                     /\ \A d \in Controllers : Stops(d, t) => c = d

(* A task function that calls stop has not returned.                       *)
StopsInFunc == \A c \in Controllers : within[c] # None => wpc[within[c]] = "func"

(* A thread on its way out has seen a task that stays STOPPED, unless its  *)
(* own function stopped it.                                                *)
LeavesStopped ==
  \A w \in Workers :
    wpc[w] \in {"unlock", "clear", "leave"} =>
      taskState[wtask[w]] = "STOPPED" \/ wtask[w] \in unjoined

(* While a function runs for a former task of the pad, somebody else than  *)
(* the function itself is not in gst_task_join: it is a step of that       *)
(* caller, for GstTask, when the function sets the state of a task that is *)
(* not its own.                                                            *)
FormerFuncHasCaller ==
  \A w \in Workers :
    wpc[w] = "func" /\ wtask[w] # padTask =>
      \E c \in Controllers : ppc[c] = "join" => within[c] = w

PadInv ==
  /\ PadTypeOK
  /\ OnlyPadTaskRuns
  /\ PadLock
  /\ StopsOwnTask
  /\ StopsInFunc
  /\ LeavesStopped
  /\ FormerFuncHasCaller
  /\ NoStrayThread
  /\ PadStartNotLost

LEMMA PadInitInv == PadInit => IInv /\ PadInv
<1> SUFFICES ASSUME PadInit PROVE IInv /\ PadInv
  OBVIOUS
<1>1. IInv
  BY InitInv DEF PadInit
<1>2. PadInv
  BY TaskAssumption
  DEF PadInit, Init, PadInv, PadTypeOK, PadPCs, OnlyPadTaskRuns, PadLock, StopsOwnTask,
      Stops, Stopping, StopsInFunc, LeavesStopped, FormerFuncHasCaller, NoStrayThread,
      HasThread, Serving, PadStartNotLost
<1>3. QED
  BY <1>1, <1>2

-----------------------------------------------------------------------------
(* A step of the pad is a step of GstTask.                                 *)

(* Callers that are not in gst_task_join may call GstTask.                 *)
LEMMA FreeToCall ==
  ASSUME IInv, PadInv, NEW c \in Controllers, ppc[c] # "join"
  PROVE  cpc[c] = "idle"
BY DEF IInv, TypeOK, PadInv, StopsOwnTask

LEMMA CallIsStep ==
  ASSUME NEW c \in Controllers, cpc[c] = "idle", NEW t \in Tasks, NEW s \in States,
         CallSetState(t, s)
  PROVE  Next
<1>1. SetState(c, t, s)
  BY DEF CallSetState, SetState
<1>2. QED
  BY <1>1 DEF Calls, Next

LEMMA PadCallsIsStep ==
  ASSUME IInv, PadInv, NEW c \in Controllers, PadCalls(c)
  PROVE  [Next]_vars
<1>1. ppc[c] = "idle" /\ cpc[c] = "idle"
  BY FreeToCall DEF PadCalls, PadStartNew, PadStart, PadPause, PadStop
<1>2. padTask # None => padTask \in Tasks
  BY DEF PadInv, PadTypeOK
<1>3. CASE PadStartNew(c)
  <2>1. PICK t \in Tasks : Unreferenced(t) /\ lock' = [lock EXCEPT ![t] = StreamLock]
    BY <1>3 DEF PadStartNew
  <2>2. SetLock(c, t, StreamLock)
    BY <1>1, <1>3, <2>1 DEF SetLock, Unreferenced, PadStartNew
  <2>3. QED
    BY <2>2, PadAssumption DEF Calls, Next
<1>4. CASE PadStart(c)
  BY <1>1, <1>2, <1>4, CallIsStep DEF PadStart, States
<1>5. CASE PadPause(c)
  BY <1>1, <1>2, <1>5, CallIsStep DEF PadPause, States
<1>6. CASE PadStop(c)
  BY <1>1, <1>2, <1>6, CallIsStep DEF PadStop, States
<1>7. QED
  BY <1>3, <1>4, <1>5, <1>6 DEF PadCalls

LEMMA PadProgressIsStep ==
  ASSUME IInv, PadInv, NEW c \in Controllers, PadProgress(c)
  PROVE  [Next]_vars
<1>1. CASE PadStartChecked(c)
  <2>1. cpc[c] = "idle" /\ ptask[c] \in Tasks
    BY <1>1, FreeToCall DEF PadStartChecked, PadInv, PadTypeOK
  <2>2. QED
    BY <1>1, <2>1, CallIsStep DEF PadStartChecked, States
<1>2. CASE StreamLockBarrier(c)
  BY <1>2 DEF StreamLockBarrier
<1>3. CASE PadJoin(c)
  <2>1. ptask[c] \in Tasks
    BY <1>3 DEF PadJoin, PadInv, PadTypeOK
  <2>2. QED
    BY <1>3, <2>1 DEF PadJoin, Calls, Next
<1>4. CASE PadJoinWoken(c)
  BY <1>4 DEF PadJoinWoken, Next
<1>5. CASE PadJoinRefused(c) \/ PadPutBack(c)
  BY <1>5 DEF PadJoinRefused, PadPutBack
<1>6. QED
  BY <1>1, <1>2, <1>3, <1>4, <1>5 DEF PadProgress

(* The function may pause a task that is not its own: a caller that is not *)
(* in gst_task_join might as well have done it.                            *)
LEMMA FuncPadPauseIsStep ==
  ASSUME IInv, PadInv, NEW w \in Workers, FuncPadPause(w)
  PROVE  Next
<1>1. padTask \in Tasks /\ CallSetState(padTask, "PAUSED") /\ wpc[w] = "func"
  BY DEF FuncPadPause, PadInv, PadTypeOK
<1>2. CASE wtask[w] = padTask
  <2>1. FuncSetState(w, "PAUSED")
    BY <1>1, <1>2 DEF FuncSetState, CallSetState
  <2>2. QED
    BY <2>1, PadAssumption DEF FuncStep, Next
<1>3. CASE wtask[w] # padTask
  <2>1. PICK c \in Controllers : ppc[c] # "join"
    BY <1>1, <1>3 DEF PadInv, FormerFuncHasCaller, FuncPadPause, InStop
  <2>2. QED
    BY <1>1, <2>1, FreeToCall, CallIsStep DEF States
<1>4. QED
  BY <1>2, <1>3

LEMMA FuncPadStopIsStep ==
  ASSUME IInv, PadInv, NEW w \in Workers, NEW c \in Controllers, FuncPadStop(w, c)
  PROVE  Next
<1>1. padTask \in Tasks /\ CallSetState(padTask, "STOPPED") /\ ppc[c] = "idle"
  BY DEF FuncPadStop, PadInv, PadTypeOK
<1>2. QED
  BY <1>1, FreeToCall, CallIsStep DEF States

LEMMA PadStepIsStep ==
  ASSUME IInv, PadInv, [PadNext]_allVars
  PROVE  [Next]_vars
<1>1. ASSUME NEW w \in Workers, PadWorkerStep(w) PROVE Next
  BY <1>1 DEF PadWorkerStep, Next
<1>2. ASSUME NEW x \in Threads, NEW t \in Tasks, SpuriousWakeup(x, t) PROVE Next
  BY <1>2 DEF Next
<1>3. ASSUME UNCHANGED allVars PROVE UNCHANGED vars
  BY <1>3 DEF allVars
<1>4. QED
  BY <1>1, <1>2, <1>3, PadCallsIsStep, PadProgressIsStep, FuncPadPauseIsStep,
     FuncPadStopIsStep
  DEF PadNext

-----------------------------------------------------------------------------
(* Every step of the pad keeps the invariant.                              *)

(* A thread on its way out does not serve the task of the pad, unless the  *)
(* pad got that task back.                                                 *)
LEMMA LeavingIsFormer ==
  ASSUME IInv, PadInv, NEW w \in Workers, wpc[w] \in {"unlock", "clear", "leave"}
  PROVE  wtask[w] \in Tasks /\ (wtask[w] # padTask \/ wtask[w] \in unjoined)
<1>1. wtask[w] \in Tasks /\ (taskState[wtask[w]] = "STOPPED" \/ wtask[w] \in unjoined)
  BY DEF IInv, TypeOK, PlacesOK, PadInv, LeavesStopped
<1>2. running[wtask[w]]
  BY <1>1 DEF IInv, JoinIsBarrier, HasThread, Serving
<1>3. padTask # None => padTask \in Tasks
  BY DEF PadInv, PadTypeOK
<1>4. QED
  BY <1>1, <1>2, <1>3, TaskAssumption DEF PadInv, OnlyPadTaskRuns

(* A call on the task of the pad is never refused for want of a lock, and  *)
(* concerns no other task.                                                 *)
LEMMA SetPadTask ==
  ASSUME IInv, PadInv, padTask # None, NEW s \in States, CallSetState(padTask, s)
  PROVE  /\ padTask \in Tasks
         /\ taskState' = [taskState EXCEPT ![padTask] = s]
         /\ s # "STOPPED" => running'[padTask] \/ padTask \in unjoined
         /\ \A t \in Tasks \ {padTask} : running'[t] = running[t] /\ jobs'[t] = jobs[t]
         /\ UNCHANGED <<lock, owner, wpc, wtask, wlock, cpc, ctask>>
<1> USE DEF IInv, PadInv
<1>1. padTask \in Tasks /\ lock[padTask] # None
  BY PadAssumption, TaskAssumption DEF PadTypeOK, PadLock
<1>2. UNCHANGED <<lock, owner, wpc, wtask, wlock, cpc, ctask>>
  BY DEF CallSetState, workerVars, ctlVars
<1>3. CASE Refused(padTask, s)
  <2>1. taskState[padTask] = s /\ UNCHANGED <<taskState, running, jobs>>
    BY <1>1, <1>3 DEF CallSetState, SetStateUnlocked, Refused
  <2>2. taskState' = [taskState EXCEPT ![padTask] = s]
    BY <2>1 DEF TypeOK
  <2>3. s # "STOPPED" => running'[padTask] \/ padTask \in unjoined
    BY <1>1, <2>1 DEF PadStartNotLost
  <2>4. QED
    BY <1>1, <1>2, <2>1, <2>2, <2>3
<1>4. CASE ~Refused(padTask, s)
  <2>1. /\ taskState' = [taskState EXCEPT ![padTask] = s]
        /\ IF taskState[padTask] = "STOPPED" /\ ~running[padTask]
             THEN StartTask(padTask) ELSE UNCHANGED <<running, poolId, jobs>>
    BY <1>4 DEF CallSetState, SetStateUnlocked
  <2>2. s # "STOPPED" => running'[padTask] \/ padTask \in unjoined
    BY <1>1, <2>1 DEF StartTask, TypeOK, PadStartNotLost, OnlyPadTaskRuns
  <2>3. \A t \in Tasks \ {padTask} : running'[t] = running[t] /\ jobs'[t] = jobs[t]
    BY <1>1, <2>1 DEF StartTask, TypeOK
  <2>4. QED
    BY <1>1, <1>2, <2>1, <2>2, <2>3
<1>5. QED
  BY <1>3, <1>4

(* start and pause, of a caller or of the task function.                   *)
LEMMA SetPadInv ==
  ASSUME IInv, PadInv, padTask # None, NEW s \in {"STARTED", "PAUSED"}, NEW c,
         CallSetState(padTask, s), UNCHANGED <<padTask, unjoined>>,
         \/ UNCHANGED callVars
         \/ c \in Controllers /\ ppc[c] = "idle" /\ PadGoto(c, "pause", None)
         \/ c \in Controllers /\ ppc[c] = "check" /\ PadReturn(c)
  PROVE  PadInv'
<1> USE DEF PadInv
<1>1. /\ padTask \in Tasks
      /\ taskState' = [taskState EXCEPT ![padTask] = s]
      /\ running'[padTask] \/ padTask \in unjoined
      /\ \A t \in Tasks \ {padTask} : running'[t] = running[t] /\ jobs'[t] = jobs[t]
      /\ UNCHANGED <<lock, owner, wpc, wtask, wlock, cpc, ctask>>
  BY SetPadTask DEF States
<1>2. taskState \in [Tasks -> States] /\ wtask \in [Workers -> Tasks \cup {None}]
  BY DEF IInv, TypeOK
<1>3. PadTypeOK' /\ UNCHANGED within
  BY DEF PadTypeOK, PadPCs, Stopping, PadGoto, PadReturn, callVars
<1>4. \A d \in Controllers :
        /\ ppc[d] \in Stopping <=> ppc'[d] \in Stopping
        /\ ppc[d] \in Stopping => ppc'[d] = ppc[d] /\ ptask'[d] = ptask[d]
  BY DEF PadTypeOK, PadGoto, PadReturn, Stopping, callVars
<1>5. OnlyPadTaskRuns' /\ PadStartNotLost'
  BY <1>1, <1>2 DEF OnlyPadTaskRuns, PadStartNotLost
<1>6. PadLock' /\ StopsOwnTask' /\ StopsInFunc'
  BY <1>1, <1>3, <1>4 DEF PadLock, StopsOwnTask, Stops, StopsInFunc, Stopping
<1>7. LeavesStopped' /\ FormerFuncHasCaller'
  BY <1>1, <1>2, <1>3, <1>4, LeavingIsFormer
  DEF LeavesStopped, FormerFuncHasCaller, Stopping
<1>8. NoStrayThread'
  BY <1>1, <1>4 DEF NoStrayThread, HasThread, Serving
<1>9. QED
  BY <1>3, <1>5, <1>6, <1>7, <1>8

(* A new task, perhaps at the address of an old one, has no thread.        *)
LEMMA PadStartNewInv ==
  ASSUME IInv, PadInv, NEW c \in Controllers, PadStartNew(c)
  PROVE  PadInv'
<1> USE TaskAssumption, PadAssumption DEF PadInv
<1>1. PICK t \in Tasks :
        /\ Unreferenced(t)
        /\ lock' = [lock EXCEPT ![t] = StreamLock]
        /\ padTask' = t
        /\ PadGoto(c, "check", t)
  BY DEF PadStartNew
<1>2. /\ ppc[c] = "idle" /\ padTask = None
      /\ UNCHANGED <<taskState, running, jobs, wpc, wtask, cpc, ctask, within, unjoined>>
  BY <1>1 DEF PadStartNew, PadGoto, workerVars, ctlVars
<1>3. lock \in [Tasks -> Locks \cup {None}] /\ wtask \in [Workers -> Tasks \cup {None}]
  BY DEF IInv, TypeOK
<1>4. PadTypeOK'
  BY <1>1, <1>2 DEF PadTypeOK, PadPCs, Stopping, PadGoto
<1>5. \A d \in Controllers :
        /\ ppc'[d] \in Stopping <=> ppc[d] \in Stopping
        /\ ppc[d] \in Stopping => ppc'[d] = ppc[d] /\ ptask'[d] = ptask[d]
  BY <1>1, <1>2 DEF PadTypeOK, PadGoto, Stopping
<1>6. OnlyPadTaskRuns' /\ PadStartNotLost'
  BY <1>1, <1>2, <1>3 DEF OnlyPadTaskRuns, PadStartNotLost, Unreferenced
<1>7. PadLock' /\ StopsOwnTask'
  <2>1. \A d \in Controllers, u \in Tasks : Stops(d, u)' <=> Stops(d, u)
    BY <1>5 DEF Stops
  <2>2. \A d \in Controllers : ~Stops(d, t)
    BY <1>1 DEF Stops, Stopping, Unreferenced
  <2>3. \A d \in Controllers : cpc[d] = "joining" => ppc'[d] = "join" /\ ptask'[d] = ptask[d]
    BY <1>5 DEF StopsOwnTask, Stopping
  <2>4. QED
    BY <1>1, <1>2, <1>3, <2>1, <2>2, <2>3 DEF PadLock, StopsOwnTask
<1>8. StopsInFunc' /\ LeavesStopped'
  BY <1>2 DEF StopsInFunc, LeavesStopped
<1>9. FormerFuncHasCaller'
  <2>1. \A w \in Workers : wpc[w] = "func" => wtask[w] # None
    BY DEF IInv, PlacesOK
  <2>2. QED
    BY <1>2, <1>5, <2>1 DEF FormerFuncHasCaller, Stopping
<1>10. NoStrayThread'
  BY <1>2, <1>5 DEF NoStrayThread, HasThread, Serving
<1>11. QED
  BY <1>4, <1>6, <1>7, <1>8, <1>9, <1>10

(* stop takes the task from the pad; its caller answers for the thread.    *)
LEMMA TakeAwayInv ==
  ASSUME IInv, PadInv, NEW c \in Controllers, ppc[c] = "idle", padTask' = None,
         NEW x \in Workers \cup {None},
         x # None => padTask # None /\ wpc[x] = "func",
         ppc' = [ppc EXCEPT ![c] = "stop"],
         ptask' = [ptask EXCEPT ![c] = padTask],
         within' = [within EXCEPT ![c] = x],
         UNCHANGED unjoined,
         \/ padTask # None /\ CallSetState(padTask, "STOPPED")
         \/ padTask = None /\ UNCHANGED vars
  PROVE  PadInv'
<1> USE TaskAssumption DEF PadInv
<1>1. /\ UNCHANGED <<lock, wpc, wtask, cpc, ctask>>
      /\ \A t \in Tasks : t # padTask => running'[t] = running[t] /\ jobs'[t] = jobs[t]
      /\ \A t \in Tasks : taskState'[t] = "STOPPED"
  <2>1. CASE padTask = None
    BY <2>1 DEF vars, taskVars, workerVars, ctlVars, OnlyPadTaskRuns
  <2>2. CASE padTask # None
    <3>1. CallSetState(padTask, "STOPPED")
      BY <2>2
    <3>2. taskState \in [Tasks -> States]
      BY DEF IInv, TypeOK
    <3>3. QED
      BY <2>2, <3>1, <3>2, SetPadTask DEF States, OnlyPadTaskRuns
  <2>3. QED
    BY <2>1, <2>2
<1>2. wtask \in [Workers -> Tasks \cup {None}]
  BY DEF IInv, TypeOK
<1>3. PadTypeOK'
  BY DEF PadTypeOK, PadPCs, Stopping
<1>4. /\ ppc'[c] = "stop" /\ ptask'[c] = padTask /\ within'[c] = x
      /\ \A d \in Controllers \ {c} :
           ppc'[d] = ppc[d] /\ ptask'[d] = ptask[d] /\ within'[d] = within[d]
  BY DEF PadTypeOK
<1>5. OnlyPadTaskRuns' /\ PadStartNotLost'
  BY <1>1 DEF OnlyPadTaskRuns, PadStartNotLost
<1>6. PadLock' /\ StopsOwnTask'
  <2>1. \A d \in Controllers, t \in Tasks :
          Stops(d, t)' <=> (IF d = c THEN t = padTask ELSE Stops(d, t))
    BY <1>4 DEF Stops, Stopping
  <2>2. \A d \in Controllers : cpc[d] = "joining" => d # c
    BY DEF StopsOwnTask
  <2>3. QED
    BY <1>1, <1>4, <2>1, <2>2 DEF PadLock, StopsOwnTask
<1>7. StopsInFunc'
  BY <1>1, <1>4 DEF StopsInFunc
<1>8. LeavesStopped'
  <2>1. \A w \in Workers : wpc[w] \in {"unlock", "clear", "leave"} => wtask[w] \in Tasks
    BY LeavingIsFormer
  <2>2. QED
    BY <1>1, <2>1 DEF LeavesStopped
<1>9. FormerFuncHasCaller'
  BY <1>4 DEF FormerFuncHasCaller
<1>10. NoStrayThread'
  BY <1>1, <1>4 DEF NoStrayThread, HasThread, Serving, Stopping
<1>11. QED
  BY <1>3, <1>5, <1>6, <1>7, <1>8, <1>9, <1>10

LEMMA PadStopInv ==
  ASSUME IInv, PadInv, NEW c \in Controllers, PadStop(c)
  PROVE  PadInv'
<1>1. within \in [Controllers -> Workers \cup {None}] /\ within[c] = None
  BY DEF PadStop, PadInv, PadTypeOK, Stopping
<1>2. within' = [within EXCEPT ![c] = None]
  BY <1>1 DEF PadStop, PadGoto
<1>3. QED
  BY <1>2, TakeAwayInv DEF PadStop, PadGoto

LEMMA FuncPadStopInv ==
  ASSUME IInv, PadInv, NEW w \in Workers, NEW c \in Controllers, FuncPadStop(w, c)
  PROVE  PadInv'
BY TakeAwayInv DEF FuncPadStop

(* While the stream lock is free the function of no task of the pad runs.  *)
LEMMA FuncOwnsStreamLock ==
  ASSUME IInv, PadInv, NEW w \in Workers, wpc[w] = "func"
  PROVE  owner[StreamLock] = w
<1>1. wtask[w] \in Tasks
  BY DEF IInv, TypeOK, PlacesOK
<1>2. /\ wlock[w] # None /\ wlock[w] = lock[wtask[w]]
      /\ owner[wlock[w]] = w
  BY DEF IInv, FuncHoldsStreamLock, HasLock, Holding
<1>3. QED
  BY <1>1, <1>2 DEF PadInv, PadLock

LEMMA BarrierInv ==
  ASSUME IInv, PadInv, NEW c \in Controllers, StreamLockBarrier(c)
  PROVE  PadInv'
<1> USE TaskAssumption DEF PadInv
<1>1. /\ ppc[c] \in {"pause", "stop"} /\ UNCHANGED <<vars, padTask, unjoined>>
      /\ owner[StreamLock] \in {None, within[c]}
      /\ IF ptask[c] = None THEN PadReturn(c) ELSE PadGoto(c, "join", ptask[c])
  BY DEF StreamLockBarrier
<1>2. UNCHANGED <<taskState, running, lock, jobs, owner, wpc, wtask, cpc, ctask>>
  BY <1>1 DEF vars, taskVars, workerVars, ctlVars
<1>3. PadTypeOK' /\ ptask' = ptask /\ within' = within
  BY <1>1 DEF PadTypeOK, PadPCs, Stopping, PadGoto, PadReturn
<1>4. /\ ptask[c] # None => ppc[c] = "stop" /\ ppc'[c] = "join"
      /\ ptask[c] = None => ppc'[c] = "idle"
      /\ \A d \in Controllers \ {c} : ppc'[d] = ppc[d]
  BY <1>1 DEF PadTypeOK, PadGoto, PadReturn
<1>5. OnlyPadTaskRuns' /\ PadStartNotLost'
  BY <1>1, <1>2 DEF OnlyPadTaskRuns, PadStartNotLost
<1>6. PadLock' /\ StopsOwnTask'
  <2>1. \A d \in Controllers, t \in Tasks : Stops(d, t)' <=> Stops(d, t)
    BY <1>3, <1>4 DEF Stops, Stopping
  <2>2. \A d \in Controllers : cpc[d] = "joining" => d # c
    BY <1>1 DEF StopsOwnTask
  <2>3. QED
    BY <1>1, <1>2, <1>3, <1>4, <2>1, <2>2 DEF PadLock, StopsOwnTask
<1>7. StopsInFunc' /\ LeavesStopped'
  BY <1>1, <1>2, <1>3 DEF StopsInFunc, LeavesStopped
<1>8. FormerFuncHasCaller'
  <2>1. \A w \in Workers : wpc[w] = "func" => w = within[c]
    BY <1>1, FuncOwnsStreamLock
  <2>2. QED
    BY <1>2, <1>3, <2>1 DEF FormerFuncHasCaller
<1>9. NoStrayThread'
  BY <1>1, <1>2, <1>3, <1>4 DEF NoStrayThread, HasThread, Serving, Stopping
<1>10. QED
  BY <1>3, <1>5, <1>6, <1>7, <1>8, <1>9

(* The task that a stop joins is STOPPED already; when the join returns it *)
(* has no thread.                                                          *)
LEMMA JoiningInv ==
  ASSUME IInv, PadInv, NEW c \in Controllers, ppc[c] = "join",
         PadJoining(c), UNCHANGED padTask,
         UNCHANGED <<taskState, running, lock, jobs, workerVars>>,
         IF running[ptask[c]]
           THEN \/ cpc' = [cpc EXCEPT ![c] = "joining"] /\ ctask' = [ctask EXCEPT ![c] = ptask[c]]
                \/ UNCHANGED <<cpc, ctask>>
           ELSE cpc' = [cpc EXCEPT ![c] = "idle"] /\ ctask' = [ctask EXCEPT ![c] = None]
  PROVE  PadInv'
<1> USE TaskAssumption DEF PadInv
<1>1. /\ ptask[c] \in Tasks /\ UNCHANGED <<wpc, wtask>>
      /\ cpc \in [Controllers -> {"idle", "joining"}]
      /\ ctask \in [Controllers -> Tasks \cup {None}]
  BY DEF PadTypeOK, workerVars, IInv, TypeOK
<1>2. PadTypeOK'
  BY DEF PadTypeOK, PadPCs, Stopping, PadReturn, PadJoining, callVars
<1>3. /\ \A d \in Controllers \ {c} :
           /\ ppc'[d] = ppc[d] /\ ptask'[d] = ptask[d] /\ within'[d] = within[d]
           /\ cpc'[d] = cpc[d] /\ ctask'[d] = ctask[d]
      /\ IF running[ptask[c]]
           THEN ppc'[c] = "join" /\ ptask'[c] = ptask[c] /\ within'[c] = within[c]
           ELSE ppc'[c] = "idle" /\ within'[c] = None
  BY <1>1 DEF PadTypeOK, PadReturn, PadJoining, callVars
<1>4. Stops(c, ptask[c])
  BY <1>1 DEF Stops, Stopping
<1>5. /\ ~running[ptask[c]] => ~HasThread(ptask[c])
      /\ \A t \in Tasks : HasThread(t)' = HasThread(t)
  BY <1>1 DEF IInv, JoinIsBarrier, HasThread, Serving
<1>6. unjoined' = (IF running[ptask[c]] THEN unjoined ELSE unjoined \ {ptask[c]})
  BY DEF PadJoining
<1>7. taskState[ptask[c]] = "STOPPED" /\ ptask[c] # padTask
  BY <1>1, <1>4 DEF OnlyPadTaskRuns, StopsOwnTask
<1>8. OnlyPadTaskRuns' /\ PadStartNotLost'
  BY <1>6, <1>7 DEF OnlyPadTaskRuns, PadStartNotLost
<1>9. PadLock' /\ StopsOwnTask'
  <2>1. \A d \in Controllers, t \in Tasks : Stops(d, t)' => Stops(d, t)
    BY <1>3 DEF Stops, Stopping
  <2>2. CASE running[ptask[c]]
    BY <1>1, <1>3, <2>1, <2>2 DEF PadLock, StopsOwnTask
  <2>3. CASE ~running[ptask[c]]
    BY <1>1, <1>3, <2>1, <2>3 DEF PadLock, StopsOwnTask
  <2>4. QED
    BY <2>2, <2>3
<1>10. StopsInFunc'
  BY <1>1, <1>3 DEF StopsInFunc
<1>11. LeavesStopped'
  <2>1. \A w \in Workers : wpc[w] \in {"unlock", "clear", "leave"} => wtask[w] \in Tasks
    BY LeavingIsFormer
  <2>2. QED
    BY <1>1, <1>6, <1>7, <2>1 DEF LeavesStopped
<1>12. FormerFuncHasCaller'
  BY <1>1, <1>3 DEF FormerFuncHasCaller
<1>13. NoStrayThread'
  BY <1>1, <1>3, <1>5, <1>6 DEF NoStrayThread, Stopping
<1>14. QED
  BY <1>2, <1>8, <1>9, <1>10, <1>11, <1>12, <1>13

LEMMA PadJoinInv ==
  ASSUME IInv, PadInv, NEW c \in Controllers, PadJoin(c)
  PROVE  PadInv'
<1>1. ppc[c] = "join" /\ Join(c, ptask[c]) /\ PadJoining(c) /\ UNCHANGED padTask
  BY DEF PadJoin
<1>2. ptask[c] \in Tasks /\ ptask[c] # padTask
  BY <1>1, TaskAssumption DEF PadInv, PadTypeOK, StopsOwnTask, Stops, Stopping
<1>3. UNCHANGED taskState
  <2>1. taskState[ptask[c]] = "STOPPED" /\ taskState' = [taskState EXCEPT ![ptask[c]] = "STOPPED"]
    BY <1>1, <1>2 DEF Join, PadInv, OnlyPadTaskRuns
  <2>2. QED
    BY <2>1 DEF IInv, TypeOK
<1>4. /\ UNCHANGED <<running, lock, jobs, workerVars>>
      /\ IF running[ptask[c]]
           THEN cpc' = [cpc EXCEPT ![c] = "joining"] /\ ctask' = [ctask EXCEPT ![c] = ptask[c]]
           ELSE cpc' = [cpc EXCEPT ![c] = "idle"] /\ ctask' = [ctask EXCEPT ![c] = None]
  BY <1>1 DEF Join, JoinDone
<1>5. QED
  BY <1>1, <1>3, <1>4, JoiningInv

LEMMA PadJoinWokenInv ==
  ASSUME IInv, PadInv, NEW c \in Controllers, PadJoinWoken(c)
  PROVE  PadInv'
<1>1. ppc[c] = "join" /\ ctask[c] = ptask[c]
  BY DEF PadJoinWoken, JoinWoken, PadInv, StopsOwnTask
<1>2. /\ UNCHANGED <<taskState, running, lock, jobs, workerVars, padTask>>
      /\ PadJoining(c)
      /\ IF running[ptask[c]]
           THEN UNCHANGED <<cpc, ctask>>
           ELSE cpc' = [cpc EXCEPT ![c] = "idle"] /\ ctask' = [ctask EXCEPT ![c] = None]
  BY <1>1 DEF PadJoinWoken, JoinWoken, JoinDone
<1>3. QED
  BY <1>1, <1>2, JoiningInv

(* A stop that the task function made fails.                               *)
LEMMA PadJoinRefusedInv ==
  ASSUME IInv, PadInv, NEW c \in Controllers, PadJoinRefused(c)
  PROVE  PadInv'
<1> USE DEF PadInv
<1>1. /\ ppc[c] = "join" /\ PadGoto(c, "failed", ptask[c])
      /\ cpc[c] = "idle"
      /\ UNCHANGED <<padTask, unjoined>>
      /\ UNCHANGED <<taskState, running, lock, jobs, wpc, wtask, cpc, ctask>>
  BY DEF PadJoinRefused, vars, taskVars, workerVars, ctlVars
<1>2. PadTypeOK' /\ ptask' = ptask /\ within' = within
  BY <1>1 DEF PadTypeOK, PadPCs, Stopping, PadGoto
<1>3. /\ ppc'[c] = "failed"
      /\ \A d \in Controllers \ {c} : ppc'[d] = ppc[d]
  BY <1>1 DEF PadTypeOK, PadGoto
<1>4. OnlyPadTaskRuns' /\ PadStartNotLost'
  BY <1>1 DEF OnlyPadTaskRuns, PadStartNotLost
<1>5. PadLock' /\ StopsOwnTask'
  <2>1. \A d \in Controllers, t \in Tasks : Stops(d, t)' <=> Stops(d, t)
    BY <1>1, <1>2, <1>3 DEF Stops, Stopping
  <2>2. QED
    BY <1>1, <1>2, <1>3, <2>1 DEF PadLock, StopsOwnTask
<1>6. StopsInFunc' /\ LeavesStopped' /\ FormerFuncHasCaller'
  BY <1>1, <1>2, <1>3 DEF StopsInFunc, LeavesStopped, FormerFuncHasCaller
<1>7. NoStrayThread'
  BY <1>1, <1>2, <1>3 DEF NoStrayThread, HasThread, Serving, Stopping
<1>8. QED
  BY <1>2, <1>4, <1>5, <1>6, <1>7

(* The pad gets back a task that is STOPPED and has a thread, or leaves it.*)
LEMMA PadPutBackInv ==
  ASSUME IInv, PadInv, NEW c \in Controllers, PadPutBack(c)
  PROVE  PadInv'
<1> USE TaskAssumption DEF PadInv
<1>1. /\ ppc[c] = "failed" /\ PadReturn(c)
      /\ padTask' = IF padTask = None THEN ptask[c] ELSE padTask
      /\ unjoined' = unjoined \cup {ptask[c]}
      /\ UNCHANGED <<taskState, running, lock, jobs, wpc, wtask, cpc, ctask>>
  BY DEF PadPutBack, vars, taskVars, workerVars, ctlVars
<1>2. ptask[c] \in Tasks
  BY <1>1 DEF PadTypeOK
<1>3. PadTypeOK'
  BY <1>1, <1>2 DEF PadTypeOK, PadPCs, Stopping, PadReturn
<1>4. /\ ppc'[c] = "idle" /\ within'[c] = None
      /\ \A d \in Controllers \ {c} :
           ppc'[d] = ppc[d] /\ ptask'[d] = ptask[d] /\ within'[d] = within[d]
  BY <1>1 DEF PadTypeOK, PadReturn
<1>5. Stops(c, ptask[c]) /\ \A d \in Controllers : Stops(d, ptask[c]) => d = c
  BY <1>1, <1>2 DEF Stops, Stopping, StopsOwnTask
<1>6. OnlyPadTaskRuns' /\ PadStartNotLost'
  BY <1>1, <1>2 DEF OnlyPadTaskRuns, PadStartNotLost
<1>12. \A d \in Controllers, t \in Tasks : Stops(d, t)' => Stops(d, t) /\ d # c
  BY <1>4 DEF Stops, Stopping
<1>7. PadLock'
  BY <1>1, <1>2, <1>4, <1>5, <1>12 DEF PadLock
<1>8. StopsOwnTask'
  <2>1. cpc[c] # "joining"
    BY <1>1 DEF StopsOwnTask
  <2>2. QED
    BY <1>1, <1>4, <1>5, <1>12, <2>1 DEF StopsOwnTask
<1>9. StopsInFunc' /\ LeavesStopped' /\ FormerFuncHasCaller'
  BY <1>1, <1>4 DEF StopsInFunc, LeavesStopped, FormerFuncHasCaller
<1>10. NoStrayThread'
  BY <1>1, <1>2, <1>4 DEF NoStrayThread, HasThread, Serving, Stopping
<1>11. QED
  BY <1>3, <1>6, <1>7, <1>8, <1>9, <1>10

-----------------------------------------------------------------------------
(* The pool threads.                                                       *)

(* A thread that finds its task out of STOPPED serves the task of the pad, *)
(* which has a lock.                                                       *)
LEMMA ServesPad ==
  ASSUME IInv, PadInv, NEW t \in Tasks, taskState[t] # "STOPPED"
  PROVE  t = padTask /\ lock[t] # None
BY TaskAssumption, PadAssumption DEF PadInv, OnlyPadTaskRuns, PadLock

(* A step of one thread that leaves the tasks alone, but for the end of a  *)
(* thread.                                                                 *)
LEMMA PadWorkerInv ==
  ASSUME IInv, PadInv, NEW w \in Workers, UNCHANGED padVars, ~InStop(w),
         UNCHANGED <<taskState, lock, cpc, ctask>>,
         \A t \in Tasks : running'[t] => running[t],
         \A t \in Tasks : taskState[t] # "STOPPED" => running'[t] \/ t \in unjoined,
         \A t \in Tasks : HasThread(t)' => HasThread(t),
         \A v \in Workers \ {w} : wpc'[v] = wpc[v] /\ wtask'[v] = wtask[v],
         wpc'[w] \in {"unlock", "clear", "leave"} =>
           taskState[wtask'[w]] = "STOPPED" \/ wtask'[w] \in unjoined,
         wpc'[w] = "func" => wtask'[w] = padTask
  PROVE  PadInv'
<1> USE DEF PadInv, padVars, callVars
<1>1. PadTypeOK'
  BY DEF PadTypeOK
<1>2. OnlyPadTaskRuns' /\ PadStartNotLost'
  BY DEF OnlyPadTaskRuns, PadStartNotLost, PadTypeOK
<1>3. PadLock' /\ StopsOwnTask'
  BY DEF PadLock, StopsOwnTask, Stops
<1>4. StopsInFunc'
  BY DEF StopsInFunc, InStop, PadTypeOK
<1>5. LeavesStopped' /\ FormerFuncHasCaller'
  BY DEF LeavesStopped, FormerFuncHasCaller
<1>6. NoStrayThread'
  BY DEF NoStrayThread
<1>7. QED
  BY <1>1, <1>2, <1>3, <1>4, <1>5, <1>6

LEMMA PadWorkerStepInv ==
  ASSUME IInv, PadInv, NEW w \in Workers, PadWorkerStep(w)
  PROVE  PadInv'
<1> DEFINE Former == wpc'[w] \in {"unlock", "clear", "leave"} =>
                     taskState[wtask'[w]] = "STOPPED" \/ wtask'[w] \in unjoined
           Runs   == wpc'[w] = "func" => wtask'[w] = padTask
<1>1. UNCHANGED padVars /\ WorkerStep(w) /\ ~InStop(w)
  BY DEF PadWorkerStep
<1>2. /\ wpc \in [Workers -> WorkerPCs] /\ wtask \in [Workers -> Tasks \cup {None}]
      /\ running \in [Tasks -> BOOLEAN] /\ jobs \in [Tasks -> 0 .. 1]
  BY DEF IInv, TypeOK
<1>3. wpc[w] # "idle" => wtask[w] \in Tasks
  BY DEF IInv, TypeOK, PlacesOK
<1>4. \A t \in Tasks : taskState[t] # "STOPPED" => running[t] \/ t \in unjoined
  BY DEF PadInv, PadStartNotLost
<1>5. UNCHANGED <<taskState, lock, cpc, ctask>>
  BY <1>1
  DEF WorkerStep, PickUp, Entry, TakeStreamLock, TestState, Unpark, FuncReturns,
      DropStreamLock, ClearThread, Leave, taskVars, ctlVars
<1>6. \A v \in Workers \ {w} : wpc'[v] = wpc[v] /\ wtask'[v] = wtask[v]
  BY <1>1, <1>2
  DEF WorkerStep, PickUp, Entry, TakeStreamLock, TestState, Unpark, FuncReturns,
      DropStreamLock, ClearThread, Leave, Goto
<1>7. CASE \E t \in Tasks : PickUp(w, t)
  <2>1. PICK t \in Tasks : PickUp(w, t)
    BY <1>7
  <2>2. \A u \in Tasks : HasThread(u)' => HasThread(u)
    BY <1>2, <2>1 DEF PickUp, HasThread, Serving
  <2>3. Former /\ Runs /\ UNCHANGED running
    BY <1>2, <2>1 DEF PickUp, Goto
  <2>4. QED
    BY <1>1, <1>4, <1>5, <1>6, <2>2, <2>3, PadWorkerInv
<1>8. CASE Leave(w)
  <2>1. wtask[w] \in Tasks /\ (taskState[wtask[w]] = "STOPPED" \/ wtask[w] \in unjoined)
    BY <1>3, <1>8 DEF Leave, PadInv, LeavesStopped
  <2>2. running' = [running EXCEPT ![wtask[w]] = FALSE]
    BY <1>8 DEF Leave
  <2>3. \A u \in Tasks : HasThread(u)' => HasThread(u)
    BY <1>2, <1>8, TaskAssumption DEF Leave, HasThread, Serving
  <2>4. Former /\ Runs
    BY <1>2, <1>8 DEF Leave, Goto
  <2>5. /\ \A t \in Tasks : running'[t] => running[t]
        /\ \A t \in Tasks : taskState[t] # "STOPPED" => running'[t] \/ t \in unjoined
    BY <1>2, <1>4, <2>1, <2>2
  <2>6. QED
    BY <1>1, <1>5, <1>6, <2>3, <2>4, <2>5, PadWorkerInv
<1>9. CASE Entry(w) \/ TakeStreamLock(w) \/ TestState(w) \/ Unpark(w) \/ FuncReturns(w)
             \/ DropStreamLock(w) \/ ClearThread(w)
  <2>1. UNCHANGED <<running, jobs, wtask>> /\ wtask[w] \in Tasks
    BY <1>3, <1>9
    DEF Entry, TakeStreamLock, TestState, Unpark, FuncReturns, DropStreamLock,
        ClearThread, taskVars
  <2>2. \A u \in Tasks : HasThread(u)' => HasThread(u)
    BY <2>1 DEF HasThread, Serving
  <2>3. taskState[wtask[w]] # "STOPPED" => wtask[w] = padTask /\ lock[wtask[w]] # None
    BY <2>1, ServesPad
  <2>4. Former /\ Runs
    BY <1>2, <1>9, <2>1, <2>3
    DEF Entry, TakeStreamLock, TestState, Unpark, FuncReturns, DropStreamLock,
        ClearThread, Goto, PadInv, LeavesStopped
  <2>5. QED
    BY <1>1, <1>4, <1>5, <1>6, <2>1, <2>2, <2>4, PadWorkerInv
<1>10. QED
  BY <1>1, <1>7, <1>8, <1>9 DEF WorkerStep

-----------------------------------------------------------------------------
LEMMA PadUnchangedInv ==
  ASSUME PadInv,
         UNCHANGED <<taskState, running, lock, jobs, workerVars, ctlVars, padVars>>
  PROVE  PadInv'
BY DEF PadInv, padVars, callVars, workerVars, ctlVars, PadTypeOK, OnlyPadTaskRuns, PadLock,
       Stops, StopsOwnTask, StopsInFunc, LeavesStopped, FormerFuncHasCaller, NoStrayThread,
       HasThread, Serving, PadStartNotLost

(* Another task took the place of the one this caller created.             *)
LEMMA PadStartCheckedInv ==
  ASSUME IInv, PadInv, NEW c \in Controllers, PadStartChecked(c)
  PROVE  PadInv'
<1> USE DEF PadInv
<1>1. ppc[c] = "check" /\ PadReturn(c) /\ UNCHANGED <<padTask, unjoined>> /\ ptask[c] # None
  BY DEF PadStartChecked, PadTypeOK
<1>2. CASE padTask = ptask[c] /\ CallSetState(padTask, "STARTED")
  BY <1>1, <1>2, SetPadInv
<1>3. CASE UNCHANGED vars
  <2>1. UNCHANGED <<taskState, running, lock, jobs, wpc, wtask, cpc, ctask>>
    BY <1>3 DEF vars, taskVars, workerVars, ctlVars
  <2>2. PadTypeOK' /\ within' = within
    BY <1>1 DEF PadTypeOK, PadPCs, Stopping, PadReturn
  <2>3. /\ ppc'[c] = "idle"
        /\ \A d \in Controllers \ {c} : ppc'[d] = ppc[d] /\ ptask'[d] = ptask[d]
    BY <1>1 DEF PadTypeOK, PadReturn
  <2>4. OnlyPadTaskRuns' /\ PadStartNotLost'
    BY <1>1, <2>1 DEF OnlyPadTaskRuns, PadStartNotLost
  <2>5. PadLock' /\ StopsOwnTask'
    <3>1. \A d \in Controllers, t \in Tasks : Stops(d, t)' <=> Stops(d, t)
      BY <1>1, <2>3 DEF Stops, Stopping
    <3>2. cpc[c] # "joining"
      BY <1>1 DEF StopsOwnTask
    <3>3. QED
      BY <1>1, <2>1, <2>3, <3>1, <3>2 DEF PadLock, StopsOwnTask
  <2>6. StopsInFunc' /\ LeavesStopped' /\ FormerFuncHasCaller' /\ NoStrayThread'
    BY <1>1, <2>1, <2>2, <2>3
    DEF StopsInFunc, LeavesStopped, FormerFuncHasCaller, NoStrayThread, HasThread, Serving,
        Stopping
  <2>7. QED
    BY <2>2, <2>4, <2>5, <2>6
<1>4. QED
  BY <1>2, <1>3 DEF PadStartChecked

LEMMA PadNextInv ==
  ASSUME IInv, PadInv, [PadNext]_allVars
  PROVE  PadInv'
<1>1. ASSUME NEW c \in Controllers, PadCalls(c) PROVE PadInv'
  <2>1. CASE PadStart(c)
    BY <2>1, SetPadInv DEF PadStart, padVars
  <2>2. CASE PadPause(c)
    BY <2>2, SetPadInv DEF PadPause
  <2>3. QED
    BY <1>1, <2>1, <2>2, PadStartNewInv, PadStopInv DEF PadCalls
<1>2. ASSUME NEW c \in Controllers, PadProgress(c) PROVE PadInv'
  BY <1>2, PadStartCheckedInv, BarrierInv, PadJoinInv, PadJoinWokenInv,
     PadJoinRefusedInv, PadPutBackInv
  DEF PadProgress
<1>3. ASSUME NEW w \in Workers, FuncPadPause(w) PROVE PadInv'
  BY <1>3, SetPadInv DEF FuncPadPause, padVars
<1>4. ASSUME NEW x \in Threads, NEW t \in Tasks, SpuriousWakeup(x, t), UNCHANGED padVars
      PROVE  PadInv'
  BY <1>4, PadUnchangedInv DEF SpuriousWakeup
<1>5. ASSUME UNCHANGED allVars PROVE PadInv'
  BY <1>5, PadUnchangedInv DEF allVars, vars, taskVars
<1>6. QED
  BY <1>1, <1>2, <1>3, <1>4, <1>5, PadWorkerStepInv, FuncPadStopInv DEF PadNext

-----------------------------------------------------------------------------
(* Each step of the pad is a step of PadTaskContract.                      *)

tstate  == IF padTask = None THEN "STOPPED" ELSE taskState[padTask]
busy    == \E w \in Workers : wpc[w] = "func"
waiting == {c \in Controllers : ppc[c] \in {"pause", "stop"} /\ within[c] = None}

contract == <<tstate, busy, waiting>>

(* The task of the pad is in one of the three states, and what a call of   *)
(* set_state leaves of it.                                                 *)
LEMMA StateIsSet ==
  ASSUME IInv, PadInv, padTask # None, NEW s \in States, CallSetState(padTask, s),
         UNCHANGED padTask
  PROVE  tstate' = s /\ UNCHANGED busy
<1>1. /\ padTask \in Tasks
      /\ taskState' = [taskState EXCEPT ![padTask] = s]
      /\ UNCHANGED wpc
  BY SetPadTask
<1>2. taskState \in [Tasks -> States]
  BY DEF IInv, TypeOK
<1>3. QED
  BY <1>1, <1>2 DEF tstate, busy

(* Callers enter and leave pause and stop one at a time.                   *)
LEMMA CallerMoves ==
  ASSUME PadInv, NEW c \in Controllers, NEW pc, NEW t, within[c] = None, PadGoto(c, pc, t)
  PROVE  waiting' = IF pc \in {"pause", "stop"} THEN waiting \cup {c} ELSE waiting \ {c}
BY DEF PadInv, PadTypeOK, PadGoto, waiting

LEMMA CallerLeaves ==
  ASSUME PadInv, NEW c \in Controllers,
         PadReturn(c) \/ (within[c] # None /\ \E pc, t : PadGoto(c, pc, t))
  PROVE  waiting' = waiting \ {c}
BY DEF PadInv, PadTypeOK, PadGoto, PadReturn, waiting

(* A call that is not in gst_pad_stop_task is not made by the function.    *)
LEMMA OutsideFunc ==
  ASSUME PadInv, NEW c \in Controllers, ppc[c] \notin Stopping
  PROVE  within[c] = None
BY DEF PadInv, PadTypeOK

LEMMA StartKeeps ==
  ASSUME IInv, PadInv, NEW c \in Controllers,
         PadStartNew(c) \/ PadStart(c) \/ PadStartChecked(c)
  PROVE  Contract!Start \/ UNCHANGED contract
<1>1. CASE PadStartNew(c)
  <2>1. padTask = None /\ UNCHANGED <<taskState, wpc>> /\ ppc[c] = "idle"
    BY <1>1 DEF PadStartNew, workerVars
  <2>2. PICK t \in Tasks : padTask' = t /\ PadGoto(c, "check", t)
    BY <1>1 DEF PadStartNew
  <2>3. tstate = "STOPPED" /\ tstate' = "STOPPED"
    BY <2>1, <2>2, TaskAssumption DEF tstate, PadInv, OnlyPadTaskRuns
  <2>4. UNCHANGED busy
    BY <2>1 DEF busy
  <2>5. UNCHANGED waiting
    BY <2>1, <2>2, CallerMoves, OutsideFunc DEF waiting, Stopping
  <2>6. QED
    BY <2>3, <2>4, <2>5 DEF contract
<1>2. CASE PadStart(c)
  <2>1. tstate' = "STARTED" /\ UNCHANGED busy
    BY <1>2, StateIsSet DEF PadStart, padVars, States
  <2>2. UNCHANGED waiting
    BY <1>2 DEF PadStart, padVars, callVars, waiting
  <2>3. QED
    BY <2>1, <2>2 DEF Contract!Start, tstate, busy, waiting
<1>3. CASE PadStartChecked(c)
  <2>1. ppc[c] = "check" /\ PadReturn(c) /\ UNCHANGED padTask /\ ptask[c] # None
    BY <1>3 DEF PadStartChecked, PadInv, PadTypeOK
  <2>2. UNCHANGED waiting
    BY <2>1, CallerLeaves DEF waiting
  <2>3. CASE padTask = ptask[c] /\ CallSetState(padTask, "STARTED")
    <3>1. tstate' = "STARTED" /\ UNCHANGED busy
      BY <2>1, <2>3, StateIsSet DEF States
    <3>2. QED
      BY <2>2, <3>1 DEF Contract!Start, tstate, busy, waiting
  <2>4. CASE UNCHANGED vars
    <3>1. UNCHANGED <<taskState, wpc>>
      BY <2>4 DEF vars, taskVars, workerVars
    <3>2. QED
      BY <2>1, <2>2, <3>1 DEF contract, tstate, busy
  <2>5. QED
    BY <1>3, <2>3, <2>4 DEF PadStartChecked
<1>4. QED
  BY <1>1, <1>2, <1>3

LEMMA HaltKeeps ==
  ASSUME IInv, PadInv, NEW c \in Controllers, PadPause(c) \/ PadStop(c)
  PROVE  Contract!Halt(c)
<1>1. CASE PadPause(c)
  <2>1. tstate' = "PAUSED" /\ UNCHANGED busy
    BY <1>1, StateIsSet DEF PadPause, States
  <2>2. waiting' = waiting \cup {c}
    BY <1>1, CallerMoves, OutsideFunc DEF PadPause, Stopping
  <2>3. QED
    BY <2>1, <2>2 DEF Contract!Halt, tstate, busy, waiting
<1>2. CASE PadStop(c)
  <2>1. tstate' = "STOPPED"
    BY <1>2 DEF PadStop, tstate
  <2>2. UNCHANGED wpc
    BY <1>2, SetPadTask DEF PadStop, vars, workerVars, States
  <2>3. waiting' = waiting \cup {c}
    BY <1>2, CallerMoves, OutsideFunc DEF PadStop, Stopping
  <2>4. QED
    BY <2>1, <2>2, <2>3 DEF Contract!Halt, tstate, busy, waiting
<1>3. QED
  BY <1>1, <1>2

(* The task function does not wait for itself.                             *)
LEMMA BarrierKeeps ==
  ASSUME IInv, PadInv, NEW c \in Controllers, StreamLockBarrier(c)
  PROVE  Contract!HaltReturns(c) \/ UNCHANGED contract
<1>1. /\ ppc[c] \in {"pause", "stop"}
      /\ owner[StreamLock] \in {None, within[c]}
      /\ UNCHANGED <<vars, padTask>>
  BY DEF StreamLockBarrier
<1>2. UNCHANGED <<tstate, busy>>
  BY <1>1 DEF vars, taskVars, workerVars, tstate, busy
<1>3. waiting' = waiting \ {c}
  BY CallerMoves, CallerLeaves DEF StreamLockBarrier
<1>4. CASE within[c] = None
  <2>1. ~busy
    BY <1>1, <1>4, FuncOwnsStreamLock, TaskAssumption DEF busy
  <2>2. c \in waiting
    BY <1>1, <1>4 DEF waiting
  <2>3. QED
    BY <1>2, <1>3, <2>1, <2>2 DEF Contract!HaltReturns, tstate, busy, waiting
<1>5. CASE within[c] # None
  BY <1>2, <1>3, <1>5 DEF contract, waiting
<1>6. QED
  BY <1>4, <1>5

LEMMA JoinKeeps ==
  ASSUME IInv, PadInv, NEW c \in Controllers, PadJoin(c) \/ PadJoinWoken(c)
  PROVE  UNCHANGED contract
<1>1. ppc[c] = "join"
  BY DEF PadJoin, PadJoinWoken, JoinWoken, PadInv, StopsOwnTask
<1>2. PadJoining(c) /\ UNCHANGED <<wpc, padTask>>
  BY DEF PadJoin, PadJoinWoken, Join, JoinWoken, workerVars
<1>3. padTask # None => taskState'[padTask] = taskState[padTask]
  <2>1. ptask[c] \in Tasks /\ ptask[c] # padTask
    BY <1>1, TaskAssumption DEF PadInv, PadTypeOK, StopsOwnTask, Stops, Stopping
  <2>2. QED
    BY <1>1, <2>1 DEF PadJoin, PadJoinWoken, Join, JoinWoken, PadInv, PadTypeOK, IInv, TypeOK
<1>4. UNCHANGED waiting
  BY <1>1, <1>2, CallerLeaves DEF PadJoining, callVars, waiting
<1>5. QED
  BY <1>2, <1>3, <1>4 DEF contract, tstate, busy

(* The task that comes back is STOPPED.                                    *)
LEMMA FailureKeeps ==
  ASSUME IInv, PadInv, NEW c \in Controllers, PadJoinRefused(c) \/ PadPutBack(c)
  PROVE  UNCHANGED contract
<1>1. UNCHANGED <<taskState, wpc>>
  BY DEF PadJoinRefused, PadPutBack, vars, taskVars, workerVars
<1>2. CASE PadJoinRefused(c)
  <2>1. waiting' = waiting \ {c} /\ c \notin waiting
    BY <1>2, CallerLeaves DEF PadJoinRefused, JoiningSelf, waiting
  <2>2. QED
    BY <1>1, <1>2, <2>1 DEF PadJoinRefused, contract, tstate, busy
<1>3. CASE PadPutBack(c)
  <2>1. waiting' = waiting \ {c} /\ c \notin waiting
    BY <1>3, CallerLeaves DEF PadPutBack, waiting
  <2>2. ptask[c] \in Tasks /\ ptask[c] # padTask
    BY <1>3, TaskAssumption
    DEF PadPutBack, PadInv, PadTypeOK, StopsOwnTask, Stops, Stopping
  <2>3. taskState[ptask[c]] = "STOPPED"
    BY <2>2 DEF PadInv, OnlyPadTaskRuns
  <2>4. tstate' = tstate
    BY <1>1, <1>3, <2>2, <2>3, TaskAssumption DEF PadPutBack, tstate
  <2>5. QED
    BY <1>1, <2>1, <2>4 DEF contract, busy
<1>4. QED
  BY <1>2, <1>3

(* A run of the function begins: the thread holds the stream lock, so no   *)
(* other thread runs it.                                                   *)
LEMMA WorkerKeeps ==
  ASSUME IInv, PadInv, NEW w \in Workers, PadWorkerStep(w)
  PROVE  Contract!Enter \/ Contract!Leave \/ UNCHANGED contract
<1>1. wpc \in [Workers -> WorkerPCs] /\ wtask \in [Workers -> Tasks \cup {None}]
  BY DEF IInv, TypeOK
<1>2. UNCHANGED <<tstate, waiting>>
  BY DEF PadWorkerStep, padVars, WorkerStep, PickUp, Entry, TakeStreamLock, TestState,
         Unpark, FuncReturns, DropStreamLock, ClearThread, Leave, taskVars, callVars,
         tstate, waiting
<1>3. WorkerStep(w)
  BY DEF PadWorkerStep
<1>4. CASE TestState(w)
  <2>1. wtask[w] \in Tasks
    BY <1>4 DEF TestState, IInv, TypeOK, PlacesOK
  <2>2. CASE taskState[wtask[w]] = "STARTED"
    <3>1. wpc' = [wpc EXCEPT ![w] = "func"]
      BY <1>4, <2>2 DEF TestState, Goto
    <3>2. tstate = "STARTED"
      BY <2>1, <2>2, ServesPad, TaskAssumption DEF tstate
    <3>3. owner[StreamLock] = w
      BY <1>4, <2>1
      DEF TestState, IInv, FuncHoldsStreamLock, HasLock, Holding, PadInv, PadLock
    <3>4. ~busy
      BY <1>4, <3>3, FuncOwnsStreamLock DEF busy, TestState
    <3>5. busy' = TRUE
      BY <1>1, <3>1 DEF busy
    <3>6. QED
      BY <1>2, <3>2, <3>4, <3>5 DEF Contract!Enter, tstate, busy, waiting
  <2>3. CASE taskState[wtask[w]] # "STARTED"
    <3>1. UNCHANGED busy
      BY <1>1, <1>4, <2>3 DEF TestState, Goto, busy
    <3>2. QED
      BY <1>2, <3>1 DEF contract
  <2>4. QED
    BY <2>2, <2>3
<1>5. CASE FuncReturns(w)
  <2>1. busy
    BY <1>5 DEF FuncReturns, busy
  <2>2. busy' \in {busy, FALSE}
    BY <2>1 DEF busy
  <2>3. QED
    BY <1>2, <2>1, <2>2 DEF Contract!Leave, tstate, busy, waiting
<1>6. CASE (\E t \in Tasks : PickUp(w, t)) \/ Entry(w) \/ TakeStreamLock(w) \/ Unpark(w)
             \/ DropStreamLock(w) \/ ClearThread(w) \/ Leave(w)
  <2>1. UNCHANGED busy
    BY <1>1, <1>6
    DEF PickUp, Entry, TakeStreamLock, Unpark, DropStreamLock, ClearThread, Leave, Goto, busy
  <2>2. QED
    BY <1>2, <2>1 DEF contract
<1>7. QED
  BY <1>3, <1>4, <1>5, <1>6 DEF WorkerStep

LEMMA FuncPauseKeeps ==
  ASSUME IInv, PadInv, NEW w \in Workers, FuncPadPause(w)
  PROVE  Contract!Leave
<1>1. tstate' = "PAUSED" /\ UNCHANGED busy
  BY StateIsSet DEF FuncPadPause, padVars, States
<1>2. busy /\ UNCHANGED waiting
  BY DEF FuncPadPause, padVars, callVars, busy, waiting
<1>3. QED
  BY <1>1, <1>2 DEF Contract!Leave, tstate, busy, waiting

LEMMA FuncStopKeeps ==
  ASSUME IInv, PadInv, NEW w \in Workers, NEW c \in Controllers, FuncPadStop(w, c)
  PROVE  Contract!Leave
<1>1. tstate' = "STOPPED"
  BY DEF FuncPadStop, tstate
<1>2. UNCHANGED wpc /\ wpc[w] = "func"
  BY SetPadTask DEF FuncPadStop, States
<1>3. UNCHANGED waiting
  BY TaskAssumption DEF FuncPadStop, PadInv, PadTypeOK, waiting
<1>4. QED
  BY <1>1, <1>2, <1>3 DEF Contract!Leave, tstate, busy, waiting

LEMMA PadStepKeeps ==
  ASSUME IInv, PadInv, [PadNext]_allVars
  PROVE  [Contract!ContractNext]_(Contract!contractVars)
<1>1. ASSUME UNCHANGED contract PROVE UNCHANGED Contract!contractVars
  BY <1>1 DEF contract, Contract!contractVars, tstate, busy, waiting
<1>2. ASSUME NEW c \in Controllers, PadCalls(c) \/ PadProgress(c)
      PROVE  [Contract!ContractNext]_(Contract!contractVars)
  BY <1>1, <1>2, StartKeeps, HaltKeeps, BarrierKeeps, JoinKeeps, FailureKeeps
  DEF PadCalls, PadProgress, Contract!ContractNext
<1>3. ASSUME NEW w \in Workers, PadWorkerStep(w) \/ FuncPadPause(w)
      PROVE  [Contract!ContractNext]_(Contract!contractVars)
  BY <1>1, <1>3, WorkerKeeps, FuncPauseKeeps DEF Contract!ContractNext
<1>4. ASSUME NEW x \in Threads, NEW t \in Tasks, SpuriousWakeup(x, t), UNCHANGED padVars
      PROVE  UNCHANGED contract
  BY <1>4 DEF SpuriousWakeup, padVars, callVars, workerVars, contract, tstate, busy, waiting
<1>5. ASSUME UNCHANGED allVars PROVE UNCHANGED contract
  BY <1>5
  DEF allVars, vars, taskVars, workerVars, padVars, callVars, contract, tstate, busy, waiting
<1>6. ASSUME NEW w \in Workers, NEW c \in Controllers, FuncPadStop(w, c)
      PROVE  [Contract!ContractNext]_(Contract!contractVars)
  BY <1>6, FuncStopKeeps DEF Contract!ContractNext
<1>7. QED
  BY <1>1, <1>2, <1>3, <1>4, <1>5, <1>6 DEF PadNext

LEMMA PadInitKeeps == PadInit => Contract!ContractInit
BY DEF PadInit, Init, Contract!ContractInit, Contract!TaskStates

-----------------------------------------------------------------------------
(* The pad never reaches a state outside the invariant.                    *)
THEOREM PadInvariance == PadSpec => [](IInv /\ PadInv)
<1>1. IInv /\ PadInv /\ [PadNext]_allVars => (IInv /\ PadInv)'
  BY PadStepIsStep, NextInv, PadNextInv
<1>2. QED
  BY <1>1, PadInitInv, PTL DEF PadSpec

(* gstpad.c:6272-6473 uses a task only as any user of GstTask may, so that *)
(* all theorems of GstTaskProofs hold for the task of a pad.               *)
THEOREM PadUsesTask == PadSpec => UsesTask
<1>1. PadInit => Init
  BY DEF PadInit
<1>2. QED
  BY <1>1, PadInvariance, PadStepIsStep, PTL DEF PadSpec, UsesTask, Spec

(* gstpad.c:6252-6473: one run of the function at a time, begun only while *)
(* the pad's task is STARTED, and none at the moment a pause or stop gets  *)
(* past the stream lock.                                                   *)
THEOREM PadKeepsContract == PadSpec => KeepsContract
BY PadInvariance, PadInitKeeps, PadStepKeeps, PTL
DEF PadSpec, KeepsContract, Contract!ContractSpec

(* gstpad.c:6401-6412: a thread left over by a stop is waited for by it,   *)
(* unless that stop was made by the task function and failed.              *)
THEOREM NoStray == PadSpec => []NoStrayThread
BY PadInvariance, PTL DEF PadInv

(* gstpad.c:6436, 6467: a start is lost to a thread that is on its way out *)
(* only on a task that its own function stopped and that was put back on   *)
(* the pad.                                                                *)
THEOREM PadStartKept == PadSpec => []PadStartNotLost
BY PadInvariance, PTL DEF PadInv
=============================================================================
