--------------------------- MODULE PadTaskContract ---------------------------
(***************************************************************************)
(* What gst_pad_start_task, _pause_task and _stop_task promise the element *)
(* that drives a pad's task (gstreamer/gst/gstpad.c:6252-6473): the task   *)
(* function runs in one thread at a time, a run of it only begins while    *)
(* the task is STARTED, and a pause or stop made by another thread returns *)
(* at a moment when the function does not run.  GstPadTask implements      *)
(* this, and GstQueue relies on it.                                        *)
(***************************************************************************)
CONSTANT Callers    \* threads that pause and stop the pad's task

VARIABLES
  tstate,    \* state of the pad's task, STOPPED when there is none
  busy,      \* the task function runs
  waiting    \* callers that wait, in pause or stop, for it to finish

contractVars == <<tstate, busy, waiting>>

TaskStates == {"STOPPED", "STARTED", "PAUSED"}

ContractInit == tstate \in TaskStates /\ busy = FALSE /\ waiting = {}

Start ==
  /\ tstate' = "STARTED"
  /\ UNCHANGED <<busy, waiting>>

(* A call of pause or stop waits for the function, also when the task is   *)
(* no longer the pad's.                                                    *)
Halt(c) ==
  /\ tstate' \in {tstate, "PAUSED", "STOPPED"}
  /\ waiting' = waiting \cup {c}
  /\ UNCHANGED busy

HaltReturns(c) ==
  /\ c \in waiting /\ ~busy
  /\ waiting' = waiting \ {c}
  /\ UNCHANGED <<tstate, busy>>

(* A run of the function begins; it ends, perhaps after a pause or stop of *)
(* its own, which does not wait for the function.                          *)
Enter ==
  /\ tstate = "STARTED" /\ ~busy
  /\ busy' = TRUE
  /\ UNCHANGED <<tstate, waiting>>

Leave ==
  /\ busy \/ tstate = "STARTED"
  /\ busy' \in {busy, FALSE}
  /\ tstate' \in {tstate, "PAUSED", "STOPPED"}
  /\ UNCHANGED waiting

ContractNext ==
  \/ Start \/ Enter \/ Leave
  \/ \E c \in Callers : Halt(c) \/ HaltReturns(c)

ContractSpec == ContractInit /\ [][ContractNext]_contractVars
=============================================================================
