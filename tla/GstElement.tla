----------------------------- MODULE GstElement ------------------------------
(***************************************************************************)
(* gstreamer/gst/gstelement.c: the state of one element.  set_state walks  *)
(* it through NULL, READY, PAUSED and PLAYING under the STATE_LOCK; the    *)
(* four state fields are protected by the OBJECT_LOCK only, and streaming  *)
(* threads finish, abort or lose an asynchronous change from outside.      *)
(* A step is one critical section of the OBJECT_LOCK, a call of the class, *)
(* or one wait on the state condition.                                     *)
(*                                                                         *)
(* The class is external: change_state may return anything, and after      *)
(* ASYNC a streaming thread owes the element an end of the change (busy).  *)
(***************************************************************************)
EXTENDS Integers, FiniteSets

CONSTANTS
  Setters,         \* threads that call gst_element_set_state
  Streamers,       \* threads of the element's dataflow
  Getters,         \* threads that call gst_element_get_state
  None,            \* no thread
  Spurious         \* whether a wait on the condition may return unsignalled

ASSUME ElementAssumption ==
  /\ None \notin Setters \cup Streamers
  /\ Setters \cap Streamers = {}
  /\ Spurious \in BOOLEAN

Void == 0
Null == 1
Ready == 2
Paused == 3
Playing == 4
States == Null .. Playing

Threads == Setters \cup Streamers
Returns == {"FAILURE", "SUCCESS", "ASYNC", "NO_PREROLL"}

VARIABLES
  state, next, pending,   \* GST_STATE, GST_STATE_NEXT, GST_STATE_PENDING
  ret,                    \* GST_STATE_RETURN
  target,                 \* GST_STATE_TARGET
  stateLock,              \* holder of the STATE_LOCK
  pc, trans, res,         \* of a thread in change_state: transition, result
  gpc, gold, gret,        \* of a getter: where, its old_pending, its answer
  stale,                  \* getters whose cookie is not the element's any more
  level, sure,            \* history: the state of the class, if it is known
  busy,                   \* a streaming thread owes the end of a change
  sawError                \* history: getters told of, or waiting at, an error

elementState == <<state, next, pending, ret>>
callVars == <<pc, trans, res>>
getVars == <<gpc, gold, gret, stale, sawError>>
classVars == <<level, sure, busy>>
vars == <<elementState, target, stateLock, callVars, getVars, classVars>>

\* "class" 3083  "returned" 3089  "signal" 2820
PCs == {"idle", "class", "returned", "signal"}
GetPCs == {"idle", "asleep", "woken"}

Init ==
  /\ state = Null /\ next = Void /\ pending = Void
  /\ ret = "SUCCESS" /\ target = Null
  /\ stateLock = None
  /\ pc = [t \in Threads |-> "idle"]
  /\ trans = [t \in Threads |-> <<Null, Null>>]
  /\ res = [t \in Threads |-> "SUCCESS"]
  /\ gpc = [g \in Getters |-> "idle"]
  /\ gold = [g \in Getters |-> Void]
  /\ gret = [g \in Getters |-> "SUCCESS"]
  /\ stale = {} /\ sawError = {}
  /\ level = Null /\ sure = TRUE /\ busy = FALSE

-----------------------------------------------------------------------------

(* GST_STATE_GET_NEXT: one step towards the wanted state.                  *)
GetNext(cur, s) ==
  CASE s > cur -> cur + 1
    [] s < cur -> cur - 1
    [] OTHER -> cur

Asleep == {g \in Getters : gpc[g] = "asleep"}

(* GST_STATE_BROADCAST.                                                    *)
Broadcast == gpc' = [g \in Getters |-> IF g \in Asleep THEN "woken" ELSE gpc[g]]

Waiting == {g \in Getters : gpc[g] # "idle"}

(* A change goes on in the class, or its last call returned.               *)
CallClass(t, a, b) ==
  /\ pc' = [pc EXCEPT ![t] = "class"]
  /\ trans' = [trans EXCEPT ![t] = <<a, b>>]
  /\ res' = [res EXCEPT ![t] = "SUCCESS"]

(* The call is over: its transition and result are forgotten.              *)
Finish(t) ==
  /\ pc' = [pc EXCEPT ![t] = "idle"]
  /\ stateLock' = None
  /\ trans' = [trans EXCEPT ![t] = <<Null, Null>>]
  /\ res' = [res EXCEPT ![t] = "SUCCESS"]

-----------------------------------------------------------------------------
(* The previous change failed: nothing of it is pending any more.          *)
Failed == ret = "FAILURE"

(* 2966-2977: pending and return, as a new change finds them.              *)
OldPending == IF Failed THEN Void ELSE pending
OldRet == IF Failed THEN "SUCCESS" ELSE ret

(* 2981-2988: the new target makes the cookies of all waiters old.         *)
NewTarget(s) ==
  /\ target' = s
  /\ stale' = IF s # target THEN stale \cup Waiting ELSE stale

(* 2998-3006: the running change will get to s, or is going there.         *)
WasBusy(s) == OldPending # Void /\ (OldPending <= s \/ next = s)

(* 3046-3056: only the pending state is replaced.                          *)
SetStateBusy(t, s) ==
  /\ pc[t] = "idle" /\ stateLock = None
  /\ WasBusy(s)
  /\ NewTarget(s)
  /\ pending' = s
  /\ ret' = "ASYNC"
  /\ UNCHANGED <<state, next, stateLock, callVars, gpc, gold, gret, sawError,
                 classVars>>

(* Mutant: a change downwards starts from the last committed state.        *)
StartFromState(s) == state

(* 3007-3013: a change downwards starts where the upward one would end.    *)
StartFrom(s) ==
  IF OldPending # Void /\ next > s /\ OldRet = "ASYNC" THEN next ELSE state

(* 2962-3037: set_state up to the call of the class.                       *)
SetState(t, s) ==
  /\ pc[t] = "idle" /\ stateLock = None
  /\ ~WasBusy(s)
  /\ NewTarget(s)
  /\ pending' = s
  /\ LET cur == StartFrom(s)
         nxt == GetNext(cur, s)
     IN /\ next' = nxt
        /\ ret' = IF cur # nxt THEN "ASYNC" ELSE OldRet
        /\ CallClass(t, cur, nxt)
  /\ stateLock' = t
  /\ Broadcast
  /\ UNCHANGED <<state, gold, gret, sawError, classVars>>

(* What change_state of the class may answer; without a change it is the   *)
(* element's own return (gst_element_change_state_func, was_ok).  Any      *)
(* change may fail, one downwards when pads cannot be deactivated (3305).  *)
(* Only a change to PAUSED or PLAYING is asynchronous, as in gstbasesink.c *)
(* and gstipcpipelinesink.c.                                               *)
Answers(a, b) ==
  IF a = b THEN {ret}
  ELSE {"SUCCESS", "FAILURE"} \cup
       (IF b >= Paused THEN {"ASYNC"} ELSE {}) \cup
       (IF b = Paused THEN {"NO_PREROLL"} ELSE {})

(* 3080-3087: the class makes the transition.  After ASYNC its streaming   *)
(* threads owe the end of the change; a stale one is not cancelled by a    *)
(* change downwards.                                                       *)
ClassChange(t) ==
  /\ pc[t] = "class"
  /\ LET a == trans[t][1]
         b == trans[t][2]
     IN \E r \in Answers(a, b) :
          /\ res' = [res EXCEPT ![t] = r]
          /\ IF a = b THEN UNCHANGED classVars
             ELSE /\ level' = IF r = "FAILURE" THEN level ELSE b
                  /\ sure' = (r # "FAILURE" /\ ~Failed)
                  /\ busy' = \/ r = "ASYNC" /\ target > Ready
                             \/ busy /\ b <= Ready
  /\ pc' = [pc EXCEPT ![t] = "returned"]
  /\ UNCHANGED <<elementState, target, stateLock, trans, getVars>>

(* gst_element_abort_state, by whoever calls it.                           *)
Abort ==
  IF pending # Void /\ ~Failed
  THEN /\ ret' = "FAILURE"
       /\ Broadcast
       /\ sawError' = sawError \cup Waiting
  ELSE UNCHANGED <<ret, gpc, sawError>>

(* 3090-3095: the class failed.                                            *)
ClassFailed(t) ==
  /\ pc[t] = "returned" /\ res[t] = "FAILURE"
  /\ Abort
  /\ Finish(t)
  /\ UNCHANGED <<state, next, pending, target, gold, gret, stale, classVars>>

(* 3096-3106: the change goes on without this thread.                      *)
ClassAsync(t) ==
  /\ pc[t] = "returned" /\ res[t] = "ASYNC" /\ target > Ready
  /\ Finish(t)
  /\ UNCHANGED <<elementState, target, getVars, classVars>>

(* Mutant: the pending state is committed at once.                         *)
CommitsPending == pending

(* What gst_element_continue_state commits: the state gone to next.        *)
Commits == next

(* gst_element_continue_state with a result; UNCHANGED is left to callers. *)
ContinueWith(t, r) ==
  \/ /\ pending = Void
     /\ ret' = r
     /\ Finish(t)
     /\ UNCHANGED <<state, next, pending>>
  \/ /\ pending # Void /\ pending = Commits
     /\ state' = Commits
     /\ next' = Void /\ pending' = Void
     /\ ret' = r
     /\ pc' = [pc EXCEPT ![t] = "signal"]
     /\ stateLock' = t
     /\ UNCHANGED <<trans, res>>
  \/ /\ pending # Void /\ pending # Commits
     /\ state' = Commits
     /\ next' = GetNext(Commits, pending)
     /\ ret' = "ASYNC"
     /\ stateLock' = t
     /\ CallClass(t, Commits, GetNext(Commits, pending))
     /\ UNCHANGED pending

(* 3108-3130: the change is committed; a target of READY or NULL does not  *)
(* wait for an asynchronous class.                                         *)
ContinueState(t) ==
  /\ pc[t] = "returned"
  /\ \/ res[t] \in {"SUCCESS", "NO_PREROLL"} /\ ContinueWith(t, res[t])
     \/ res[t] = "ASYNC" /\ target <= Ready /\ ContinueWith(t, "SUCCESS")
  /\ UNCHANGED <<target, getVars, classVars>>

(* Mutant: the last state is committed without waking the waiters.         *)
SignalNobody(t) ==
  /\ pc[t] = "signal"
  /\ Finish(t)
  /\ UNCHANGED <<elementState, target, getVars, classVars>>

(* 2820: the waiters of get_state are woken, outside the OBJECT_LOCK.      *)
Signal(t) ==
  /\ pc[t] = "signal"
  /\ Broadcast
  /\ Finish(t)
  /\ UNCHANGED <<elementState, target, gold, gret, stale, sawError, classVars>>

-----------------------------------------------------------------------------
(* The end of an asynchronous change: the thread that owes it takes the    *)
(* STATE_LOCK and continues (do_async_done of gstipcpipelinesink.c).       *)
AsyncDone(t) ==
  /\ busy /\ stateLock = None /\ pc[t] = "idle"
  /\ busy' = FALSE
  /\ ContinueWith(t, "SUCCESS")
  /\ UNCHANGED <<target, getVars, level, sure>>

(* The streaming thread gives up, without the STATE_LOCK                   *)
(* (gst_base_sink_do_preroll of gstbasesink.c).                            *)
AbortState(t) ==
  /\ busy /\ level >= Paused /\ pc[t] = "idle"
  /\ Abort
  /\ busy' = FALSE /\ sure' = FALSE
  /\ UNCHANGED <<state, next, pending, target, stateLock, callVars,
                 gold, gret, stale, level>>

(* gst_element_lost_state: a flush takes the preroll away, without the     *)
(* STATE_LOCK.                                                             *)
LostState(t) ==
  /\ level >= Paused /\ pc[t] = "idle"
  /\ busy' = TRUE
  /\ IF Failed \/ pending # Void
     THEN UNCHANGED <<elementState, level>>
     ELSE LET lost == IF state > Paused THEN Paused ELSE state IN
            /\ state' = lost /\ next' = lost /\ pending' = lost
            /\ ret' = "ASYNC"
            /\ level' = lost
  /\ UNCHANGED <<target, stateLock, callVars, getVars, sure>>

-----------------------------------------------------------------------------
(* get_state: answer at once, or wait for the pending change.              *)
GetState(g) ==
  /\ gpc[g] = "idle"
  /\ IF ret # "ASYNC" \/ pending = Void
     THEN /\ gret' = [gret EXCEPT ![g] = ret]
          /\ sawError' = IF Failed THEN sawError \cup {g}
                                   ELSE sawError \ {g}
          /\ UNCHANGED <<gpc, gold>>
     ELSE /\ gpc' = [gpc EXCEPT ![g] = "asleep"]
          /\ gold' = [gold EXCEPT ![g] = pending]
          /\ sawError' = sawError \ {g}
          /\ gret' = [gret EXCEPT ![g] = "SUCCESS"]
  /\ UNCHANGED <<elementState, target, stateLock, callVars, stale, classVars>>

(* 2541-2557: what a waiter makes of the element when it is woken.         *)
WokenAnswer(g) ==
  CASE g \in stale -> "INTERRUPTED"
    [] g \notin stale /\ (pending = Void \/ gold[g] = state) -> "SUCCESS"
    [] OTHER -> "FAILURE"

GetWoken(g) ==
  /\ gpc[g] = "woken"
  /\ gret' = [gret EXCEPT ![g] = WokenAnswer(g)]
  /\ gpc' = [gpc EXCEPT ![g] = "idle"]
  /\ gold' = [gold EXCEPT ![g] = Void]
  /\ stale' = stale \ {g}
  /\ UNCHANGED <<elementState, target, stateLock, callVars, sawError,
                 classVars>>

(* 2526-2539, 2554-2557: the wait times out.                               *)
GetTimeout(g) ==
  /\ gpc[g] = "asleep"
  /\ gret' = [gret EXCEPT ![g] = IF pending = Void THEN "SUCCESS" ELSE "ASYNC"]
  /\ gpc' = [gpc EXCEPT ![g] = "idle"]
  /\ gold' = [gold EXCEPT ![g] = Void]
  /\ stale' = stale \ {g}
  /\ UNCHANGED <<elementState, target, stateLock, callVars, sawError,
                 classVars>>

(* A wait on a condition variable may return without a signal.             *)
SpuriousWakeup(g) ==
  /\ Spurious
  /\ gpc[g] = "asleep"
  /\ gpc' = [gpc EXCEPT ![g] = "woken"]
  /\ UNCHANGED <<elementState, target, stateLock, callVars, gold, gret, stale,
                 sawError, classVars>>

-----------------------------------------------------------------------------
SetterStep(t) == ClassChange(t) \/ ClassFailed(t) \/ ClassAsync(t)
                 \/ ContinueState(t) \/ Signal(t)

Next ==
  \/ \E t \in Setters, s \in States : SetState(t, s) \/ SetStateBusy(t, s)
  \/ \E t \in Threads : SetterStep(t)
  \/ \E t \in Streamers : AsyncDone(t) \/ AbortState(t) \/ LostState(t)
  \/ \E g \in Getters : GetState(g) \/ GetWoken(g) \/ GetTimeout(g)
                        \/ SpuriousWakeup(g)

Spec == Init /\ [][Next]_vars

(* A call that was entered goes on; a class that answered ASYNC ends its   *)
(* change or aborts it; a waiter that was woken gets the OBJECT_LOCK.      *)
Fairness ==
  /\ \A t \in Threads : WF_vars(SetterStep(t))
  /\ WF_vars(\E t \in Streamers : AsyncDone(t))
  /\ \A g \in Getters : WF_vars(GetWoken(g))

FairSpec == Spec /\ Fairness

-----------------------------------------------------------------------------
(* The type of every variable; the STATE_LOCK belongs to the one thread    *)
(* that is in change_state, and a transition is never longer than a step.  *)
TypeOK ==
  /\ state \in States /\ next \in States \cup {Void}
  /\ pending \in States \cup {Void}
  /\ ret \in Returns /\ target \in States
  /\ stateLock \in Threads \cup {None}
  /\ pc \in [Threads -> PCs] /\ res \in [Threads -> Returns]
  /\ trans \in [Threads -> States \X States]
  /\ gpc \in [Getters -> GetPCs]
  /\ gold \in [Getters -> States \cup {Void}]
  /\ gret \in [Getters -> Returns \cup {"INTERRUPTED"}]
  /\ stale \subseteq Getters /\ sawError \subseteq Getters
  /\ level \in States /\ sure \in BOOLEAN /\ busy \in BOOLEAN
  /\ \A t \in Threads :
       /\ (pc[t] # "idle") <=> (stateLock = t)
       /\ trans[t][2] - trans[t][1] \in -1 .. 1

AtRest == stateLock = None

(* The class sees an unbroken walk: every transition starts where the last *)
(* one ended, whichever calls overtook one another, unless a change failed *)
(* or was aborted since.                                                   *)
Contiguous ==
  \A t \in Threads :
    pc[t] = "class" /\ sure /\ trans[t][1] # trans[t][2] =>
      trans[t][1] = level

(* Between two calls the fields say where the class is: it has reached the *)
(* state, or the next state of a change it has not ended.                  *)
RestsWhereClassIs ==
  AtRest /\ sure =>
    /\ pending = Void => state = level
    /\ ret = "ASYNC" => next = level

(* A thread that waits in get_state without a timeout returns.             *)
GetStateReturns ==
  \A g \in Getters : gpc[g] # "idle" ~> gpc[g] = "idle"

=============================================================================
