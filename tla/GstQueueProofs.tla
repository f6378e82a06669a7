---------------------------- MODULE GstQueueProofs ----------------------------
(***************************************************************************)
(* The queue element for any properties, limits, kinds of items and        *)
(* answers from downstream: it uses its task as gstpad.c allows, a flush   *)
(* is quiet when it says so, the level is what is in the queue, nobody     *)
(* misses a wakeup, a query in the queue has a thread that waits for its   *)
(* answer, and the task runs as long as nothing has gone wrong.            *)
(*                                                                         *)
(* UseInv, StillInv and QuietInv follow the threads, QuietInv when nothing *)
(* makes the queue accept data in the middle of a flush; ItemInv adds what *)
(* they hold and what is in the queue; WakeInv adds why they sleep,        *)
(* QueryInv what is known of a query.                                      *)
(***************************************************************************)
EXTENDS GstQueue, FiniteSetTheorems, SequenceTheorems, TLAPS

(* The types of what the proofs look at; the items and their number are    *)
(* not among it.                                                           *)
QTypes ==
  /\ conf \in Configs
  /\ srcresult \in AllResults \cup {"FLUSHING"}
  /\ eos \in BOOLEAN /\ unexpected \in BOOLEAN
  /\ task \in {"STOPPED", "STARTED", "PAUSED"}
  /\ lpc \in LoopPCs /\ upc \in UpPCs /\ fpc \in FlushPCs /\ apc \in StatePCs
  /\ sink \in [active : BOOLEAN, flushing : BOOLEAN, eos : BOOLEAN]
  /\ src \in [active : BOOLEAN, flushing : BOOLEAN]

(* A loop that has met an error waits for RECONFIGURE, a flush or new pads.*)
Rests == srcresult \in {"NOT_LINKED", "ERROR"} => task # "STARTED"

UseInv == QTypes /\ Rests

-----------------------------------------------------------------------------
(* What the threads do to the waits of others.                             *)
LEMMA SignalAdds ==
  ASSUME QTypes, SignalAdd
  PROVE  lpc' \in LoopPCs /\ (lpc' = "idle" <=> lpc = "idle")
         /\ (lpc' = lpc \/ (lpc = "waitAdd" /\ lpc' = "wokenAdd"))
<1>1. lpc' = lpc \/ (lpc = "waitAdd" /\ lpc' = "wokenAdd")
  BY DEF SignalAdd
<1>2. QED
  BY <1>1 DEF QTypes, LoopPCs

LEMMA SignalDels ==
  ASSUME QTypes, NEW waits, Signal(waits)
  PROVE  upc' \in UpPCs
BY DEF QTypes, Signal, UpPCs

LEMMA Flushes ==
  ASSUME QTypes, LockedFlush
  PROVE  upc' \in UpPCs
BY SignalDels DEF LockedFlush

LEMMA Pauses ==
  ASSUME QTypes, PauseTask
  PROVE  task' # "STARTED" /\ task' \in {task, "PAUSED"} /\ task' \in {"STOPPED", "PAUSED"}
BY DEF QTypes, PauseTask

LEMMA LeaveTypes ==
  ASSUME QTypes, NEW r \in AllResults \cup {"FLUSHING"}, LoopLeaves(r)
  PROVE  /\ srcresult' = r /\ upc' \in UpPCs /\ lpc' \in {"idle", "giveUp"}
         /\ lpc' = "giveUp" => r \in {"NOT_LINKED", "ERROR"}
         /\ task' # "STARTED" /\ task' \in {task, "PAUSED"} /\ task' \in {"STOPPED", "PAUSED"}
         /\ UNCHANGED <<eos, unexpected>>
BY Flushes, SignalDels, Pauses DEF LoopLeaves, resVars

-----------------------------------------------------------------------------
(* The loop of the task.                                                   *)
LEMMA LoopUses ==
  ASSUME UseInv, Loop
  PROVE  /\ UseInv'
         /\ \/ lpc = "idle" /\ task = "STARTED" /\ UNCHANGED task
            \/ lpc = "idle" /\ task = "STARTED" /\ lpc' = "idle" /\ task' \in {task, "PAUSED"}
            \/ lpc # "idle" /\ task' \in {task, "PAUSED"}
<1> USE DEF UseInv
<1>1. \/ lpc = "idle" /\ task = "STARTED"
      \/ lpc \in {"underrun", "running", "wokenAdd"}
  BY DEF Loop
<1>2. UNCHANGED <<conf, fpc, apc, sink, src>>
  BY DEF Loop, conVars, envVars
<1>3. CASE srcresult # "OK" /\ LoopLeaves(srcresult)
  <2>1. /\ srcresult' = srcresult /\ upc' \in UpPCs /\ lpc' \in {"idle", "giveUp"}
        /\ lpc' = "giveUp" => srcresult \in {"NOT_LINKED", "ERROR"}
        /\ task' # "STARTED" /\ task' \in {task, "PAUSED"} /\ task' \in {"STOPPED", "PAUSED"}
        /\ UNCHANGED <<eos, unexpected>>
    BY <1>3, LeaveTypes DEF QTypes
  <2>2. UseInv'
    BY <1>2, <2>1 DEF QTypes, Rests, LoopPCs
  <2>3. QED
    BY <1>1, <2>1, <2>2 DEF Rests
<1>4. ASSUME NEW pc \in {"waitAdd", "underrun", "running"}, LoopGoto(pc)
      PROVE  UseInv' /\ UNCHANGED task
  BY <1>2, <1>4 DEF LoopGoto, QTypes, Rests, LoopPCs, resVars
<1>5. ASSUME Take
      PROVE  UseInv' /\ UNCHANGED task
  <2>1. upc' \in UpPCs /\ lpc' \in {"refused", "push"} /\ UNCHANGED <<srcresult, eos, unexpected, task>>
    BY <1>5, SignalDels DEF Take, resVars
  <2>2. QED
    BY <1>2, <2>1 DEF QTypes, Rests, LoopPCs
<1>6. \/ srcresult # "OK" /\ LoopLeaves(srcresult)
      \/ \E pc \in {"waitAdd", "underrun", "running"} : LoopGoto(pc)
      \/ Take
  BY DEF Loop
<1>7. QED
  BY <1>1, <1>3, <1>4, <1>5, <1>6

LEMMA PushedUses ==
  ASSUME UseInv, Pushed
  PROVE  /\ UseInv'
         /\ lpc # "idle" /\ task' \in {task, "PAUSED"}
         /\ UNCHANGED eos
         /\ srcresult' = srcresult \/ srcresult = "OK"
<1> USE DEF UseInv
<1>1. UNCHANGED <<conf, fpc, apc, sink, src>> /\ lpc # "idle"
  BY DEF Pushed, conVars, envVars
<1>2. ASSUME NEW r \in AllResults \cup {"FLUSHING"}, LoopLeaves(r)
      PROVE  UseInv' /\ task' \in {task, "PAUSED"} /\ UNCHANGED eos /\ srcresult' = r
  <2>1. /\ srcresult' = r /\ upc' \in UpPCs /\ lpc' \in {"idle", "giveUp"}
        /\ task' # "STARTED" /\ task' \in {task, "PAUSED"} /\ task' \in {"STOPPED", "PAUSED"}
        /\ UNCHANGED <<eos, unexpected>>
    BY <1>2, LeaveTypes
  <2>2. QED
    BY <1>1, <2>1 DEF QTypes, Rests, LoopPCs
<1>3. ASSUME LoopReturns, upc' \in UpPCs, unexpected' \in BOOLEAN
      PROVE  UseInv' /\ task' \in {task, "PAUSED"} /\ UNCHANGED eos
  BY <1>1, <1>3 DEF LoopReturns, QTypes, Rests, LoopPCs, AllResults
<1>4. CASE srcresult # "OK" /\ LoopLeaves(srcresult)
  BY <1>1, <1>2, <1>4 DEF QTypes
<1>5. CASE srcresult = "OK" /\ BufferPushed
  <2>1. PICK r \in PushResults :
          \/ r = "OK" /\ LoopReturns /\ UNCHANGED <<q, level, unexpected, handled, upc>>
          \/ r = "EOS" /\ DropUnwanted
          \/ r \notin {"OK", "EOS"} /\ LoopLeaves(r)
    BY <1>5 DEF BufferPushed
  <2>2. r \in AllResults \cup {"FLUSHING"}
    BY QueueAssumption DEF PushResults, AllResults
  <2>3. CASE DropUnwanted
    <3>1. upc' \in UpPCs
      BY <2>3, SignalDels DEF DropUnwanted, QTypes
    <3>2. CASE LoopReturns /\ unexpected' = TRUE
      BY <1>1, <1>3, <1>5, <3>1, <3>2
    <3>3. CASE lpc' \in {"refused", "push"} /\ UNCHANGED <<resVars, task>>
      BY <1>1, <1>5, <3>1, <3>3 DEF QTypes, Rests, LoopPCs, resVars
    <3>4. QED
      BY <2>3, <3>2, <3>3 DEF DropUnwanted
  <2>4. QED
    BY <1>1, <1>2, <1>3, <1>5, <2>1, <2>2, <2>3 DEF QTypes
<1>6. CASE srcresult = "OK" /\ EventPushed
  BY <1>1, <1>2, <1>3, <1>6 DEF EventPushed, AllResults, QTypes
<1>7. CASE srcresult = "OK" /\ QueryPushed
  BY <1>1, <1>3, <1>7, SignalDels DEF QueryPushed, QTypes
<1>8. QED
  BY <1>4, <1>5, <1>6, <1>7 DEF Pushed

-----------------------------------------------------------------------------
(* The other threads.                                                      *)
(* The loop is where it was, except that it may be woken.                  *)
LoopStays ==
  /\ lpc' \in LoopPCs
  /\ lpc' = lpc \/ (lpc = "waitAdd" /\ lpc' = "wokenAdd")

LEMMA LoopAlone ==
  ASSUME QTypes, UNCHANGED lpc \/ SignalAdd
  PROVE  LoopStays
BY SignalAdds DEF LoopStays, QTypes

LEMMA ChainUses ==
  ASSUME UseInv, Chain
  PROVE  UseInv' /\ LoopStays /\ UNCHANGED <<task, fpc, apc, srcresult, eos, sink, src>> /\ item' \in {item, "none"}
<1> USE DEF UseInv
<1>1. ASSUME NEW pc \in {"idle", "running", "overrun", "waitDel"}, UpGoto(pc)
      PROVE  UseInv' /\ LoopStays /\ UNCHANGED <<task, fpc, apc, srcresult, eos, sink, src>> /\ item' \in {item, "none"}
  <2>1. upc' \in UpPCs
    BY <1>1 DEF UpGoto, UpPCs
  <2>2. UNCHANGED <<conf, resVars, loopVars, envVars>> /\ item' \in {item, "none"}
    BY <1>1 DEF UpGoto, conVars
  <2>3. LoopStays
    BY <2>2, LoopAlone DEF loopVars
  <2>4. QED
    BY <2>1, <2>2, <2>3 DEF resVars, loopVars, envVars, QTypes, Rests
<1>2. ASSUME NEW s, NEW l, EnqueueBehind(s, l), UNCHANGED <<conVars, resVars, task, envVars>>
      PROVE  UseInv' /\ LoopStays /\ UNCHANGED <<task, fpc, apc, srcresult, eos, sink, src>> /\ item' \in {item, "none"}
  <2>1. upc' \in UpPCs /\ LoopStays /\ item' \in {item, "none"}
    BY <1>2, LoopAlone DEF EnqueueBehind, UpPCs
  <2>2. QED
    BY <1>2, <2>1 DEF conVars, resVars, envVars, QTypes, Rests, LoopStays
<1>3. \/ \E pc \in {"idle", "running", "overrun", "waitDel"} : UpGoto(pc)
      \/ Enqueue
      \/ LeakDownstream
  <2>1. conf.leaky \in {"no", "upstream", "downstream"}
    BY QueueAssumption DEF QTypes
  <2>2. QED
    BY <2>1 DEF Chain
<1>4. QED
  BY <1>1, <1>2, <1>3 DEF Enqueue, LeakDownstream

LEMMA EventUses ==
  ASSUME UseInv, Event
  PROVE  /\ UseInv' /\ LoopStays /\ UNCHANGED <<fpc, apc, src>>
         /\ sink' \in [active : {sink.active}, flushing : {sink.flushing}, eos : BOOLEAN]
         /\ item' = "none"
         /\ \/ UNCHANGED task
            \/ task' = "STARTED" /\ eos /\ item \in {"start", "segment"}
         /\ \/ srcresult' = srcresult
            \/ srcresult = "EOS"
            \/ eos /\ item \in {"start", "segment"}
         /\ eos' => eos \/ item = "eos"
<1> USE DEF UseInv
<1> DEFINE r == IF srcresult = "EOS" /\ item \in {"start", "segment"} THEN "OK" ELSE srcresult
           restart == eos /\ item \in {"start", "segment"}
           refused == \/ r # "OK" /\ item \notin {"start", "segment"}
                      \/ eos /\ ~restart
<1>1. UNCHANGED <<conf, fpc, apc, src>>
  BY DEF Event, conVars
<1>2. CASE refused
  <2>1. /\ upc' = "idle" /\ item' = "none"
        /\ UNCHANGED <<lvVars, resVars, loopVars, sink>>
    BY <1>2 DEF Event
  <2>2. LoopStays
    BY <2>1, LoopAlone DEF loopVars
  <2>3. UseInv'
    BY <1>1, <2>1 DEF resVars, loopVars, QTypes, Rests, UpPCs
  <2>4. sink' \in [active : {sink.active}, flushing : {sink.flushing}, eos : BOOLEAN]
    BY <2>1 DEF QTypes
  <2>5. QED
    BY <1>1, <2>1, <2>2, <2>3, <2>4 DEF resVars, loopVars
<1>3. CASE ~refused
  <2>1. /\ srcresult' = IF restart /\ src.active THEN "OK" ELSE r
        /\ IF restart /\ src.active THEN StartTask ELSE UNCHANGED task
        /\ eos' = (item = "eos" \/ (eos /\ ~restart))
        /\ unexpected' = (unexpected /\ ~restart /\ item # "segment")
        /\ sink' = [sink EXCEPT !.eos = @ \/ item = "eos"]
        /\ upc' = "idle" /\ item' = "none" /\ SignalAdd
    BY <1>3 DEF Event, EnqueueBehind
  <2>2. LoopStays
    BY <2>1, LoopAlone
  <2>3. sink' \in [active : {sink.active}, flushing : {sink.flushing}, eos : BOOLEAN]
        /\ sink' \in [active : BOOLEAN, flushing : BOOLEAN, eos : BOOLEAN]
    <3>1. (sink.eos \/ item = "eos") \in BOOLEAN
      OBVIOUS
    <3>2. QED
      BY <2>1, <3>1 DEF QTypes
  <2>4. /\ UNCHANGED task \/ (task' = "STARTED" /\ restart /\ srcresult' = "OK")
        /\ srcresult' = srcresult \/ srcresult = "EOS" \/ restart
        /\ srcresult' \in {srcresult, "OK"}
    BY <2>1 DEF StartTask
  <2>5. eos' \in BOOLEAN /\ unexpected' \in BOOLEAN /\ (eos' => eos \/ item = "eos")
    BY <2>1 DEF QTypes
  <2>6. QTypes'
    BY <1>1, <2>1, <2>2, <2>3, <2>4, <2>5 DEF QTypes, UpPCs, AllResults, LoopStays
  <2>7. Rests'
    BY <2>4 DEF Rests
  <2>8. QED
    BY <1>1, <2>1, <2>2, <2>3, <2>4, <2>5, <2>6, <2>7
<1>4. QED
  BY <1>2, <1>3

LEMMA QueryUses ==
  ASSUME UseInv, Query \/ QueryWoken
  PROVE  UseInv' /\ LoopStays /\ UNCHANGED <<task, fpc, apc, srcresult, eos, sink, src>> /\ item' \in {item, "none"}
<1> USE DEF UseInv
<1>1. UNCHANGED <<conf, resVars, task, envVars>> /\ upc' \in UpPCs /\ item' \in {item, "none"}
  BY DEF Query, QueryWoken, UpGoto, conVars, loopVars, UpPCs
<1>2. UNCHANGED lpc \/ SignalAdd
  BY DEF Query, QueryWoken, UpGoto, loopVars
<1>3. LoopStays
  BY <1>2, LoopAlone
<1>4. QED
  BY <1>1, <1>3 DEF resVars, envVars, QTypes, Rests, LoopStays

LEMMA SendUses ==
  ASSUME UseInv, NEW k \in Kinds, Send(k)
  PROVE  /\ UseInv' /\ LoopStays /\ UNCHANGED <<task, fpc, apc, srcresult, eos, src>> /\ item' = k
         /\ sink' \in [active : {sink.active}, flushing : {sink.flushing}, eos : BOOLEAN]
<1> USE DEF UseInv
<1>1. UNCHANGED <<conf, resVars, loopVars, fpc, apc, src>> /\ upc' \in UpPCs /\ item' = k
  BY DEF Send, conVars, UpPCs
<1>2. sink' = [sink EXCEPT !.eos = @ /\ k # "start"]
  BY DEF Send
<1>3. (sink.eos /\ k # "start") \in BOOLEAN
  OBVIOUS
<1>4. sink' \in [active : {sink.active}, flushing : {sink.flushing}, eos : BOOLEAN]
      /\ sink' \in [active : BOOLEAN, flushing : BOOLEAN, eos : BOOLEAN]
  BY <1>2, <1>3 DEF QTypes
<1>5. LoopStays
  BY <1>1, LoopAlone DEF loopVars
<1>6. QED
  BY <1>1, <1>4, <1>5 DEF resVars, loopVars, QTypes, Rests, LoopStays

(* A flush.                                                                *)
LEMMA FlushUses ==
  ASSUME UseInv, FlushStart \/ FlushStop \/ FlushStep
  PROVE  UseInv' /\ LoopStays
<1> USE DEF UseInv
<1>1. UNCHANGED lpc \/ SignalAdd
  BY DEF FlushStart, FlushStop, FlushStep, FlushUnblock, FlushPause, FlushNotify, FlushForward,
         FlushRestart
<1>2. LoopStays
  BY <1>1, LoopAlone
<1>3. upc' \in UpPCs
  BY SignalDels, Flushes
  DEF FlushStart, FlushStop, FlushStep, FlushUnblock, FlushPause, FlushNotify, FlushForward,
      FlushRestart, QTypes
<1>4. UNCHANGED <<conf, apc>> /\ fpc' \in FlushPCs
  BY DEF FlushStart, FlushStop, FlushStep, FlushUnblock, FlushPause, FlushNotify, FlushForward,
         FlushRestart, FlushGoto, conVars, FlushPCs
<1>5. sink' \in [active : BOOLEAN, flushing : BOOLEAN, eos : BOOLEAN]
      /\ src' \in [active : BOOLEAN, flushing : BOOLEAN]
  <2>1. CASE FlushForward
    <3>1. CASE UNCHANGED src
      BY <2>1, <3>1 DEF FlushForward, QTypes
    <3>2. CASE src' = [src EXCEPT !.flushing = @ /\ ~src.active]
      <4>1. (src.flushing /\ ~src.active) \in BOOLEAN
        OBVIOUS
      <4>2. QED
        BY <2>1, <3>2, <4>1 DEF FlushForward, QTypes
    <3>3. QED
      BY <2>1, <3>1, <3>2 DEF FlushForward
  <2>2. CASE FlushStart \/ FlushStop \/ FlushUnblock \/ FlushPause \/ FlushNotify \/ FlushRestart
    BY <2>2 DEF FlushStart, FlushStop, FlushUnblock, FlushPause, FlushNotify, FlushRestart, QTypes
  <2>3. QED
    BY <2>1, <2>2 DEF FlushStep
<1>6. /\ srcresult' \in AllResults \cup {"FLUSHING"}
      /\ eos' \in BOOLEAN /\ unexpected' \in BOOLEAN
      /\ task' \in {"STOPPED", "STARTED", "PAUSED"} /\ Rests'
  BY Pauses
  DEF FlushStart, FlushStop, FlushStep, FlushUnblock, FlushPause, FlushNotify, FlushForward,
      FlushRestart, StartTask, QTypes, Rests, resVars, AllResults
<1>7. QED
  BY <1>2, <1>3, <1>4, <1>5, <1>6 DEF QTypes, LoopStays

LEMMA SrcIsSet ==
  ASSUME QTypes, NEW a \in BOOLEAN, NEW f \in BOOLEAN,
         UNCHANGED src \/ src' = [active |-> a, flushing |-> f]
  PROVE  src' \in [active : BOOLEAN, flushing : BOOLEAN]
<1>1. [active |-> a, flushing |-> f] \in [active : BOOLEAN, flushing : BOOLEAN]
  OBVIOUS
<1>2. QED
  BY <1>1 DEF QTypes

(* The pads are switched off and on.                                       *)
LEMMA StateUses ==
  ASSUME UseInv, StateStep
  PROVE  UseInv' /\ LoopStays
<1> USE DEF UseInv
<1>1. UNCHANGED lpc \/ SignalAdd
  BY DEF StateStep, SrcDeactivate, SinkDeactivate, Activate
<1>2. LoopStays
  BY <1>1, LoopAlone
<1>3. upc' \in UpPCs
  BY SignalDels, Flushes DEF StateStep, SrcDeactivate, SinkDeactivate, Activate, QTypes
<1>4. UNCHANGED <<conf, fpc>> /\ apc' \in StatePCs
  BY DEF StateStep, SrcDeactivate, SinkDeactivate, Activate, StateGoto, conVars, StatePCs
<1>5. sink' \in [active : BOOLEAN, flushing : BOOLEAN, eos : BOOLEAN]
      /\ src' \in [active : BOOLEAN, flushing : BOOLEAN]
  <2>1. CASE SrcDeactivate
    <3>1. UNCHANGED src \/ src' = [active |-> FALSE, flushing |-> TRUE]
      BY <2>1 DEF SrcDeactivate
    <3>2. src' \in [active : BOOLEAN, flushing : BOOLEAN]
      BY <3>1, SrcIsSet
    <3>3. UNCHANGED sink
      BY <2>1 DEF SrcDeactivate
    <3>4. QED
      BY <3>2, <3>3 DEF QTypes
  <2>2. CASE SinkDeactivate
    <3>1. \/ UNCHANGED sink \/ sink' = [sink EXCEPT !.active = FALSE, !.flushing = TRUE]
          \/ sink' = [sink EXCEPT !.eos = FALSE]
      BY <2>2 DEF SinkDeactivate
    <3>2. CASE UNCHANGED sink
      BY <2>2, <3>2 DEF SinkDeactivate, QTypes
    <3>3. CASE sink' = [sink EXCEPT !.active = FALSE, !.flushing = TRUE]
      BY <2>2, <3>3 DEF SinkDeactivate, QTypes
    <3>4. CASE sink' = [sink EXCEPT !.eos = FALSE]
      BY <2>2, <3>4 DEF SinkDeactivate, QTypes
    <3>5. QED
      BY <3>1, <3>2, <3>3, <3>4
  <2>3. CASE Activate
    <3>1. UNCHANGED src \/ src' = [active |-> TRUE, flushing |-> FALSE]
      BY <2>3 DEF Activate
    <3>2. src' \in [active : BOOLEAN, flushing : BOOLEAN]
      BY <3>1, SrcIsSet
    <3>3. UNCHANGED sink \/ sink' = [sink EXCEPT !.active = TRUE, !.flushing = FALSE]
      BY <2>3 DEF Activate
    <3>4. sink' \in [active : BOOLEAN, flushing : BOOLEAN, eos : BOOLEAN]
      BY <3>3 DEF QTypes
    <3>5. QED
      BY <3>2, <3>4
  <2>4. QED
    BY <2>1, <2>2, <2>3 DEF StateStep
<1>6. /\ srcresult' \in AllResults \cup {"FLUSHING"}
      /\ eos' \in BOOLEAN /\ unexpected' \in BOOLEAN
      /\ task' \in {"STOPPED", "STARTED", "PAUSED"} /\ Rests'
  BY DEF StateStep, SrcDeactivate, SinkDeactivate, Activate, StartTask, QTypes, Rests, AllResults
<1>7. QED
  BY <1>2, <1>3, <1>4, <1>5, <1>6 DEF QTypes, LoopStays

(* RECONFIGURE and the properties.                                         *)
LEMMA OthersUse ==
  ASSUME UseInv,
         Reconfigure \/ (\E n \in MaxSizes : SetMaxSize(n)) \/ (\E n \in MinSizes : SetMinThreshold(n))
  PROVE  /\ UseInv' /\ LoopStays /\ UNCHANGED <<fpc, apc, eos, item, sink, src>>
         /\ \/ UNCHANGED <<task, srcresult>>
            \/ /\ ~src.flushing /\ srcresult = "NOT_LINKED"
               /\ srcresult' = "OK" /\ task' = "STARTED"
<1> USE DEF UseInv
<1>1. UNCHANGED lpc \/ SignalAdd
  BY DEF Reconfigure, SetMaxSize, SetMinThreshold, loopVars
<1>2. LoopStays
  BY <1>1, LoopAlone
<1>3. upc' \in UpPCs /\ UNCHANGED <<conf, fpc, apc, eos, unexpected, item, sink, src>>
  BY SignalDels
  DEF Reconfigure, SetMaxSize, SetMinThreshold, upVars, envVars, resVars, conVars, QTypes
<1>4. \/ UNCHANGED <<task, srcresult>>
      \/ /\ ~src.flushing /\ srcresult = "NOT_LINKED"
         /\ srcresult' = "OK" /\ task' = "STARTED"
  BY DEF Reconfigure, SetMaxSize, SetMinThreshold, StartTask, resVars, loopVars
<1>5. QED
  BY <1>2, <1>3, <1>4 DEF QTypes, Rests, LoopStays, AllResults

LEMMA UseNext ==
  ASSUME UseInv, [Next]_vars
  PROVE  UseInv'
<1>1. CASE LoopStep
  <2>1. CASE GiveUp
    BY <2>1 DEF GiveUp, LoopGoto, UseInv, QTypes, Rests, LoopPCs, resVars, envVars, conVars
  <2>2. QED
    BY <1>1, <2>1, LoopUses, PushedUses DEF LoopStep
<1>2. CASE UpStep
  BY <1>2, ChainUses, EventUses, QueryUses DEF UpStep
<1>3. CASE UNCHANGED vars
  BY <1>3 DEF vars, conVars, resVars, loopVars, upVars, envVars, UseInv, QTypes, Rests
<1>4. QED
  BY <1>1, <1>2, <1>3, SendUses, FlushUses, StateUses, OthersUse DEF Next

LEMMA UseInit == Init => UseInv
<1> SUFFICES ASSUME Init PROVE UseInv
  OBVIOUS
<1>1. sink \in [active : BOOLEAN, flushing : BOOLEAN, eos : BOOLEAN]
      /\ src \in [active : BOOLEAN, flushing : BOOLEAN]
  BY DEF Init
<1>2. QED
  BY <1>1 DEF Init, UseInv, QTypes, Rests, AllResults, LoopPCs, UpPCs, FlushPCs, StatePCs

-----------------------------------------------------------------------------
(* The queue as a user of its task.                                        *)
LEMMA ContractStays ==
  ASSUME LoopStays, UNCHANGED <<task, fpc, apc>>
  PROVE  UNCHANGED Contract!contractVars
BY DEF LoopStays, Contract!contractVars

LEMMA LoopKeeps ==
  ASSUME UseInv, LoopStep
  PROVE  Contract!Enter \/ Contract!Leave
<1>1. UNCHANGED <<fpc, apc>>
  BY DEF LoopStep, Loop, Pushed, GiveUp, envVars
<1>2. CASE Loop
  <2>1. CASE lpc = "idle" /\ task = "STARTED" /\ UNCHANGED task
    BY <1>1, <2>1 DEF Contract!Enter, Contract!Leave
  <2>2. CASE lpc = "idle" /\ task = "STARTED" /\ lpc' = "idle" /\ task' \in {task, "PAUSED"}
    BY <1>1, <2>2 DEF Contract!Leave
  <2>3. CASE lpc # "idle" /\ task' \in {task, "PAUSED"}
    BY <1>1, <2>3 DEF Contract!Leave
  <2>4. QED
    BY <1>2, <2>1, <2>2, <2>3, LoopUses
<1>3. CASE Pushed
  BY <1>1, <1>3, PushedUses DEF Contract!Leave
<1>4. CASE GiveUp
  BY <1>1, <1>4 DEF GiveUp, LoopGoto, Contract!Leave
<1>5. QED
  BY <1>2, <1>3, <1>4 DEF LoopStep

LEMMA FlushKeeps ==
  ASSUME UseInv, FlushStart \/ FlushStop \/ FlushStep
  PROVE  [Contract!ContractNext]_(Contract!contractVars)
<1>1. LoopStays /\ UNCHANGED apc
  BY FlushUses
  DEF FlushStart, FlushStop, FlushStep, FlushUnblock, FlushPause, FlushNotify, FlushForward,
      FlushRestart, FlushGoto
<1>2. CASE fpc = "pause" /\ PauseTask /\ FlushGoto("wait")
  <2>1. Contract!Halt("seek")
    BY <1>1, <1>2, Pauses DEF UseInv, FlushGoto, LoopStays, Contract!Halt
  <2>2. QED
    BY <2>1 DEF Contract!ContractNext
<1>3. CASE fpc = "wait" /\ lpc = "idle" /\ FlushGoto("notify") /\ UNCHANGED task
  <2>1. Contract!HaltReturns("seek")
    BY <1>1, <1>3 DEF FlushGoto, LoopStays, Contract!HaltReturns
  <2>2. QED
    BY <2>1 DEF Contract!ContractNext
<1>4. CASE FlushRestart
  <2>1. task' = "STARTED" \/ UNCHANGED task
    BY <1>4 DEF FlushRestart, StartTask
  <2>2. fpc # "wait" /\ fpc' # "wait"
    BY <1>4 DEF FlushRestart, FlushGoto
  <2>3. Contract!Start \/ UNCHANGED Contract!contractVars
    BY <1>1, <2>1, <2>2 DEF LoopStays, Contract!Start, Contract!contractVars
  <2>4. QED
    BY <2>3 DEF Contract!ContractNext
<1>5. CASE FlushStart \/ FlushStop \/ FlushUnblock \/ FlushNotify \/ FlushForward
  <2>1. UNCHANGED task /\ fpc # "wait" /\ fpc' # "wait"
    BY <1>5 DEF FlushStart, FlushStop, FlushUnblock, FlushNotify, FlushForward, FlushGoto
  <2>2. UNCHANGED Contract!contractVars
    BY <1>1, <2>1 DEF LoopStays, Contract!contractVars
  <2>3. QED
    BY <2>2
<1>6. QED
  BY <1>2, <1>3, <1>4, <1>5 DEF FlushStep, FlushPause

LEMMA StateKeeps ==
  ASSUME UseInv, StateStep
  PROVE  [Contract!ContractNext]_(Contract!contractVars)
<1>1. LoopStays /\ UNCHANGED fpc
  BY StateUses DEF StateStep, SrcDeactivate, SinkDeactivate, Activate, StateGoto
<1>2. CASE apc = "stop" /\ task' = "STOPPED" /\ StateGoto("join")
  <2>1. Contract!Halt("state change")
    BY <1>1, <1>2 DEF StateGoto, LoopStays, Contract!Halt
  <2>2. QED
    BY <2>1 DEF Contract!ContractNext
<1>3. CASE apc = "join" /\ lpc = "idle" /\ StateGoto("sinkOff") /\ UNCHANGED task
  <2>1. Contract!HaltReturns("state change")
    BY <1>1, <1>3 DEF StateGoto, LoopStays, Contract!HaltReturns
  <2>2. QED
    BY <2>1 DEF Contract!ContractNext
<1>4. CASE apc # "join" /\ apc' # "join" /\ (task' = "STARTED" \/ UNCHANGED task)
  <2>1. Contract!Start \/ UNCHANGED Contract!contractVars
    BY <1>1, <1>4 DEF LoopStays, Contract!Start, Contract!contractVars
  <2>2. QED
    BY <2>1 DEF Contract!ContractNext
<1>5. QED
  BY <1>2, <1>3, <1>4
  DEF StateStep, SrcDeactivate, SinkDeactivate, Activate, StateGoto, StartTask

LEMMA StepKeeps ==
  ASSUME UseInv, [Next]_vars
  PROVE  [Contract!ContractNext]_(Contract!contractVars)
<1>1. ASSUME LoopStays, UNCHANGED <<fpc, apc>>, UNCHANGED task \/ task' = "STARTED"
      PROVE  [Contract!ContractNext]_(Contract!contractVars)
  <2>1. Contract!Start \/ UNCHANGED Contract!contractVars
    BY <1>1 DEF LoopStays, Contract!Start, Contract!contractVars
  <2>2. QED
    BY <2>1 DEF Contract!ContractNext
<1>2. CASE LoopStep
  BY <1>2, LoopKeeps DEF Contract!ContractNext
<1>3. CASE UpStep
  BY <1>1, <1>3, ChainUses, EventUses, QueryUses DEF UpStep
<1>4. ASSUME NEW k \in Kinds, Send(k)
      PROVE  [Contract!ContractNext]_(Contract!contractVars)
  BY <1>1, <1>4, SendUses
<1>5. CASE Reconfigure \/ (\E n \in MaxSizes : SetMaxSize(n)) \/ (\E n \in MinSizes : SetMinThreshold(n))
  BY <1>1, <1>5, OthersUse
<1>6. CASE UNCHANGED vars
  BY <1>6 DEF vars, loopVars, envVars, Contract!contractVars
<1>7. QED
  BY <1>2, <1>3, <1>4, <1>5, <1>6, FlushKeeps, StateKeeps DEF Next

LEMMA InitKeeps == Init => Contract!ContractInit
BY DEF Init, Contract!ContractInit, Contract!TaskStates

(* gstqueue.c:936, 953, 1005, 1563, 1594, 1757, 1768: whatever flushes,    *)
(* events, errors and state changes meet, the queue starts, pauses, stops  *)
(* and waits for its task as gstpad.c lets it, so what GstPadTask promises *)
(* of a pad's task holds for it.                                           *)
THEOREM QueueUsesPadTask == Spec => UsesPadTask
<1>1. UseInv /\ [Next]_vars => UseInv'
  BY UseNext
<1>2. UseInv /\ [Next]_vars => [Contract!ContractNext]_(Contract!contractVars)
  BY StepKeeps
<1>3. QED
  BY <1>1, <1>2, UseInit, InitKeeps, PTL DEF Spec, UsesPadTask, Contract!ContractSpec

-----------------------------------------------------------------------------
(* A flush, whatever comes in the middle of it: from the moment the loop   *)
(* was waited for it is out of its function until somebody makes the queue *)
(* accept data; and pads that are deactivated keep it out altogether.      *)
Paused == {"notify", "flushing", "lock", "stop"}
Off == {"sinkOff", "sink", "drain", "off"}

StillInv ==
  /\ UseInv
  /\ fpc \in Paused /\ srcresult = "FLUSHING" /\ apc \notin {"stop", "join"} =>
       lpc \notin {"push", "refused", "giveUp"}
  /\ apc \in Off => lpc = "idle"
  /\ apc \in {"join"} \cup Off => task = "STOPPED"
  /\ apc \in {"src", "stop", "join"} \cup Off => ~src.active /\ src.flushing

LEMMA LoopIsStill ==
  ASSUME StillInv, LoopStep
  PROVE  StillInv'
<1> USE DEF StillInv
<1>1. UNCHANGED <<fpc, apc, src>> /\ UseInv'
  BY UseNext DEF Next, LoopStep, Loop, Pushed, GiveUp, envVars
<1>2. apc \notin Off
  BY DEF LoopStep, Loop, Pushed, GiveUp
<1>3. /\ srcresult' = "FLUSHING" => lpc' \notin {"push", "refused", "giveUp"}
      /\ task = "STOPPED" => task' = "STOPPED"
  <2>1. ASSUME NEW r \in AllResults \cup {"FLUSHING"}, LoopLeaves(r)
        PROVE  /\ srcresult' = r /\ (lpc' = "idle" \/ r # "FLUSHING")
               /\ task = "STOPPED" => task' = "STOPPED"
    BY <2>1, LeaveTypes DEF UseInv, LoopLeaves, PauseTask
  <2>2. CASE Loop
    <3>1. CASE srcresult # "OK" /\ LoopLeaves(srcresult)
      BY <2>1, <3>1 DEF UseInv, QTypes
    <3>2. ASSUME NEW pc \in {"waitAdd", "underrun", "running"}, LoopGoto(pc)
          PROVE  lpc' = pc /\ UNCHANGED task
      BY <3>2 DEF LoopGoto
    <3>3. CASE srcresult = "OK" /\ Take
      BY <3>3 DEF Take, resVars
    <3>4. QED
      BY <2>2, <3>1, <3>2, <3>3 DEF Loop
  <2>3. CASE Pushed
    <3>1. CASE srcresult # "OK" /\ LoopLeaves(srcresult)
      BY <2>1, <3>1 DEF UseInv, QTypes
    <3>2. ASSUME NEW r \in PushResults, r \notin {"OK", "EOS"}, LoopLeaves(r)
          PROVE  /\ srcresult' = r /\ (lpc' = "idle" \/ r # "FLUSHING")
                 /\ task = "STOPPED" => task' = "STOPPED"
      BY <2>1, <3>2, QueueAssumption DEF PushResults
    <3>3. LoopLeaves("EOS") => srcresult' = "EOS" /\ (task = "STOPPED" => task' = "STOPPED")
      BY <2>1 DEF AllResults
    <3>4. LoopReturns => srcresult' = "OK" /\ UNCHANGED task
      BY DEF LoopReturns
    <3>5. DropUnwanted => srcresult' \in {"OK", srcresult} /\ UNCHANGED task
      BY <3>4 DEF DropUnwanted, resVars
    <3>6. CASE srcresult = "OK" /\ BufferPushed
      BY <3>2, <3>4, <3>5, <3>6 DEF BufferPushed
    <3>7. CASE srcresult = "OK" /\ (EventPushed \/ QueryPushed)
      BY <3>3, <3>4, <3>7 DEF EventPushed, QueryPushed
    <3>8. QED
      BY <2>3, <3>1, <3>6, <3>7 DEF Pushed
  <2>4. CASE GiveUp
    BY <2>4 DEF GiveUp, LoopGoto
  <2>5. QED
    BY <2>2, <2>3, <2>4 DEF LoopStep
<1>4. QED
  BY <1>1, <1>2, <1>3

LEMMA UpIsStill ==
  ASSUME StillInv, UpStep \/ \E k \in Kinds : Send(k)
  PROVE  StillInv'
<1> USE DEF StillInv
<1>1. CASE Event
  <2>1. UseInv' /\ LoopStays /\ UNCHANGED <<fpc, apc, src>>
    BY <1>1, EventUses
  <2>2. /\ srcresult' = "FLUSHING" => srcresult = "FLUSHING"
        /\ task' # task => src.active
    BY <1>1 DEF Event, resVars, loopVars, StartTask
  <2>3. QED
    BY <2>1, <2>2 DEF LoopStays
<1>2. CASE Chain \/ Query \/ QueryWoken \/ \E k \in Kinds : Send(k)
  <2>1. UseInv' /\ LoopStays /\ UNCHANGED <<task, fpc, apc, srcresult, src>>
    BY <1>2, ChainUses, QueryUses, SendUses
  <2>2. QED
    BY <2>1 DEF LoopStays
<1>3. QED
  BY <1>1, <1>2 DEF UpStep

LEMMA FlushIsStill ==
  ASSUME StillInv, FlushStart \/ FlushStop \/ FlushStep
  PROVE  StillInv'
<1> USE DEF StillInv
<1>1. UseInv' /\ LoopStays /\ UNCHANGED apc
  BY FlushUses
  DEF FlushStart, FlushStop, FlushStep, FlushUnblock, FlushPause, FlushNotify, FlushForward,
      FlushRestart, FlushGoto
<1>2. /\ task = "STOPPED" /\ ~src.active => task' = "STOPPED"
      /\ ~src.active /\ src.flushing => ~src'.active /\ src'.flushing
  <2>1. UseInv
    OBVIOUS
  <2>2. QED
    BY <2>1
    DEF FlushStart, FlushStop, FlushStep, FlushUnblock, FlushPause, FlushNotify, FlushForward,
        FlushRestart, PauseTask, UseInv, QTypes
<1>3. fpc' \in Paused /\ srcresult' = "FLUSHING" =>
        (fpc \in Paused /\ srcresult = "FLUSHING") \/ lpc' = "idle"
  BY DEF FlushStart, FlushStop, FlushStep, FlushUnblock, FlushPause, FlushNotify, FlushForward,
         FlushRestart, FlushGoto, Paused, resVars
<1>4. QED
  BY <1>1, <1>2, <1>3 DEF LoopStays

LEMMA StateIsStill ==
  ASSUME StillInv, StateStep
  PROVE  StillInv'
<1> USE DEF StillInv
<1>1. UseInv' /\ LoopStays /\ UNCHANGED fpc
  BY StateUses DEF StateStep, SrcDeactivate, SinkDeactivate, Activate, StateGoto
<1>2. CASE SrcDeactivate
  <2>1. CASE apc = "on"
    BY <1>1, <1>2, <2>1 DEF SrcDeactivate, StateGoto, LoopStays, Off
  <2>2. CASE apc \in {"src", "stop"}
    BY <1>1, <1>2, <2>2 DEF SrcDeactivate, StateGoto, Off
  <2>3. CASE apc = "join"
    BY <1>1, <1>2, <2>3 DEF SrcDeactivate, StateGoto, Off
  <2>4. QED
    BY <1>2, <2>1, <2>2, <2>3 DEF SrcDeactivate
<1>3. CASE SinkDeactivate
  <2>1. apc \in Off /\ apc' \in Off /\ UNCHANGED <<task, src>>
    BY <1>3 DEF SinkDeactivate, StateGoto, Off
  <2>2. QED
    BY <1>1, <2>1 DEF LoopStays
<1>4. CASE Activate
  <2>1. srcresult' = "OK" /\ apc' \in {"sinkOn", "on"}
    BY <1>4 DEF Activate, StateGoto
  <2>2. QED
    BY <1>1, <2>1 DEF Off
<1>5. QED
  BY <1>2, <1>3, <1>4 DEF StateStep

LEMMA StillNext ==
  ASSUME StillInv, [Next]_vars
  PROVE  StillInv'
<1>1. CASE Reconfigure \/ (\E n \in MaxSizes : SetMaxSize(n)) \/ (\E n \in MinSizes : SetMinThreshold(n))
  <2>1. /\ UseInv' /\ LoopStays /\ UNCHANGED <<fpc, apc, src>>
        /\ UNCHANGED <<task, srcresult>> \/ (~src.flushing /\ srcresult' = "OK")
    BY <1>1, OthersUse DEF StillInv
  <2>2. QED
    BY <2>1 DEF StillInv, LoopStays
<1>2. CASE UNCHANGED vars
  <2>1. UNCHANGED <<fpc, apc, src, task, srcresult, lpc>> /\ UseInv'
    BY <1>2, UseNext DEF vars, resVars, loopVars, upVars, envVars, StillInv
  <2>2. QED
    BY <2>1 DEF StillInv
<1>3. QED
  BY <1>1, <1>2, LoopIsStill, UpIsStill, FlushIsStill, StateIsStill DEF Next

(* gstqueue.c:936, 949: when FLUSH_STOP has been sent downstream, nothing  *)
(* from before the flush is on its way there, unless the queue was made to *)
(* accept data in the middle of the flush; whatever upstream, the          *)
(* application and the state change do.                                    *)
THEOREM FlushStopQuiet == Spec => []FlushStopIsQuiet
<1>1. Init => StillInv
  BY UseInit DEF Init, StillInv, Off
<1>2. StillInv => FlushStopIsQuiet
  BY DEF StillInv, FlushStopIsQuiet, Paused
<1>3. QED
  BY <1>1, <1>2, StillNext, PTL DEF Spec

-----------------------------------------------------------------------------
(* A flush, when no STREAM_START or SEGMENT makes the queue accept data    *)
(* again in the middle of it: then the task stays paused, and the loop out *)
(* of its function, from the moment it was waited for.                     *)
Restarting == {"start", "segment"}

QuietInv ==
  /\ UseInv
  /\ fpc \notin {"idle", "start"} => srcresult = "FLUSHING"
  /\ fpc # "idle" => ~(eos /\ item \in Restarting)
  /\ fpc \in {"wait", "notify", "flushing", "lock", "stop"} => task # "STARTED"
  /\ fpc \in {"notify", "flushing", "lock", "stop"} => lpc = "idle"
  /\ apc \in {"sink", "drain", "off", "sinkOn"} => sink.flushing /\ ~sink.active
  /\ apc = "sinkOn" => fpc = "idle"

LEMMA LoopIsQuiet ==
  ASSUME QuietInv, LoopStep
  PROVE  QuietInv'
<1> USE DEF QuietInv
<1>1. UNCHANGED <<fpc, apc, sink, item>>
  BY DEF LoopStep, Loop, Pushed, GiveUp, envVars
<1>2. UseInv'
  BY UseNext DEF Next
<1>3. UNCHANGED eos /\ (srcresult' = srcresult \/ srcresult = "OK") /\ task' \in {task, "PAUSED"}
  <2>1. CASE Loop
    <3>1. ASSUME LoopLeaves(srcresult) PROVE UNCHANGED <<eos, srcresult>>
      BY <3>1 DEF LoopLeaves
    <3>2. ASSUME Take \/ \E pc \in LoopPCs : LoopGoto(pc) PROVE UNCHANGED <<eos, srcresult>>
      BY <3>2 DEF Take, LoopGoto, resVars
    <3>3. Take \/ (\E pc \in LoopPCs : LoopGoto(pc)) \/ LoopLeaves(srcresult)
      BY <2>1 DEF Loop, LoopPCs
    <3>4. QED
      BY <2>1, <3>1, <3>2, <3>3, LoopUses
  <2>2. CASE Pushed
    BY <2>2, PushedUses
  <2>3. CASE GiveUp
    BY <2>3 DEF GiveUp, LoopGoto, resVars
  <2>4. QED
    BY <2>1, <2>2, <2>3 DEF LoopStep
<1>4. fpc \notin {"notify", "flushing", "lock", "stop"}
  <2>1. lpc # "idle" \/ task = "STARTED"
    BY DEF LoopStep, Loop, Pushed, GiveUp
  <2>2. QED
    BY <2>1
<1>5. QED
  BY <1>1, <1>2, <1>3, <1>4

LEMMA UpIsQuiet ==
  ASSUME QuietInv, UpStep
  PROVE  QuietInv'
<1> USE DEF QuietInv
<1>1. CASE Event
  <2>1. LoopStays /\ UNCHANGED <<fpc, apc>> /\ item' = "none" /\ UseInv'
    BY <1>1, EventUses
  <2>2. sink'.active = sink.active /\ sink'.flushing = sink.flushing
    BY <1>1, EventUses
  <2>3. CASE fpc = "idle"
    BY <2>1, <2>2, <2>3 DEF LoopStays, Restarting
  <2>4. CASE fpc # "idle"
    <3>1. UNCHANGED task /\ (srcresult' = srcresult \/ srcresult = "EOS")
      BY <1>1, <2>4, EventUses DEF Restarting
    <3>2. QED
      BY <2>1, <2>2, <2>4, <3>1 DEF LoopStays, Restarting
  <2>5. QED
    BY <2>3, <2>4
<1>2. CASE Chain \/ Query \/ QueryWoken
  <2>1. /\ UseInv' /\ LoopStays /\ UNCHANGED <<task, fpc, apc, srcresult, eos, sink, src>>
        /\ item' \in {item, "none"}
    BY <1>2, ChainUses, QueryUses
  <2>2. QED
    BY <2>1 DEF LoopStays, Restarting
<1>3. QED
  BY <1>1, <1>2 DEF UpStep

LEMMA SendIsQuiet ==
  ASSUME ~EarlyStart, QuietInv, NEW k \in Kinds, Send(k)
  PROVE  QuietInv'
<1> USE DEF QuietInv
<1>1. /\ UseInv' /\ LoopStays /\ UNCHANGED <<task, fpc, apc, srcresult>> /\ item' = k
      /\ sink'.active = sink.active /\ sink'.flushing = sink.flushing
  BY SendUses
<1>2. UNCHANGED eos /\ (k \in Restarting => fpc = "idle")
  BY DEF Send, resVars, Restarting
<1>3. QED
  BY <1>1, <1>2 DEF LoopStays

LEMMA FlushIsQuiet ==
  ASSUME ~EarlyStart, QuietInv, FlushStart \/ FlushStop \/ FlushStep
  PROVE  QuietInv'
<1> USE DEF QuietInv
<1>1. UseInv' /\ LoopStays
  BY FlushUses
<1>2. CASE FlushStart
  <2>1. /\ fpc = "idle" /\ ~sink.flushing /\ fpc' = "start"
        /\ UNCHANGED <<apc, item, eos, task>>
        /\ ~eos \/ item \notin Restarting
    BY <1>2 DEF FlushStart, FlushGoto, resVars, Restarting
  <2>2. apc \notin {"sink", "drain", "off", "sinkOn"}
    BY <2>1
  <2>3. QED
    BY <1>1, <2>1, <2>2
<1>3. CASE FlushUnblock
  <2>1. /\ fpc = "start" /\ fpc' = "pause" /\ srcresult' = "FLUSHING"
        /\ UNCHANGED <<apc, item, eos, task, sink>>
    BY <1>3 DEF FlushUnblock, FlushGoto
  <2>2. QED
    BY <1>1, <2>1
<1>4. CASE FlushPause
  <2>1. UNCHANGED <<apc, item, eos, srcresult, lpc, sink>>
    BY <1>4 DEF FlushPause, FlushGoto, resVars
  <2>2. CASE fpc = "pause" /\ PauseTask /\ FlushGoto("wait")
    BY <1>1, <2>1, <2>2, Pauses DEF UseInv, FlushGoto
  <2>3. CASE fpc = "wait" /\ lpc = "idle" /\ FlushGoto("notify") /\ UNCHANGED task
    BY <1>1, <2>1, <2>3 DEF FlushGoto
  <2>4. QED
    BY <1>4, <2>2, <2>3 DEF FlushPause
<1>5. CASE FlushNotify
  <2>1. fpc = "notify" /\ fpc' = "flushing" /\ UNCHANGED <<apc, item, eos, srcresult, lpc, sink, task>>
    BY <1>5 DEF FlushNotify, FlushGoto, resVars
  <2>2. QED
    BY <1>1, <2>1
<1>6. CASE FlushStop
  <2>1. /\ fpc = "flushing" /\ fpc' \in {"lock", "idle"}
        /\ UNCHANGED <<apc, item, eos, srcresult, lpc, task>>
    BY <1>6 DEF FlushStop, FlushGoto, resVars
  <2>2. UNCHANGED sink \/ sink.active
    BY <1>6 DEF FlushStop
  <2>3. QED
    BY <1>1, <2>1, <2>2
<1>7. CASE FlushForward
  <2>1. /\ fpc = "lock" /\ fpc' \in {"stop", "idle"}
        /\ UNCHANGED <<apc, item, eos, srcresult, lpc, sink, task>>
    BY <1>7 DEF FlushForward, FlushGoto, resVars
  <2>2. QED
    BY <1>1, <2>1
<1>8. CASE FlushRestart
  <2>1. fpc' = "idle" /\ UNCHANGED <<apc, sink>>
    BY <1>8 DEF FlushRestart, FlushGoto
  <2>2. QED
    BY <1>1, <2>1
<1>9. QED
  BY <1>2, <1>3, <1>4, <1>5, <1>6, <1>7, <1>8 DEF FlushStep

LEMMA StateIsQuiet ==
  ASSUME QuietInv, StateStep
  PROVE  QuietInv'
<1> USE DEF QuietInv
<1>1. UseInv' /\ LoopStays /\ UNCHANGED <<fpc, item>>
  BY StateUses DEF StateStep, SrcDeactivate, SinkDeactivate, Activate, StateGoto
<1>2. CASE SrcDeactivate
  <2>1. /\ UNCHANGED <<eos, sink>> /\ srcresult' \in {srcresult, "FLUSHING"}
        /\ task' \in {task, "STOPPED"}
        /\ apc' \in {"src", "stop", "join", "sinkOff"}
    BY <1>2 DEF SrcDeactivate, StateGoto
  <2>2. QED
    BY <1>1, <2>1 DEF LoopStays
<1>3. CASE SinkDeactivate
  <2>1. UNCHANGED <<eos, task>> /\ srcresult' \in {srcresult, "FLUSHING"}
    BY <1>3 DEF SinkDeactivate
  <2>2. sink'.flushing /\ ~sink'.active /\ apc' \in {"sink", "drain", "off"}
    BY <1>3 DEF SinkDeactivate, StateGoto, UseInv, QTypes
  <2>3. QED
    BY <1>1, <2>1, <2>2 DEF LoopStays
<1>4. CASE Activate
  <2>1. fpc = "idle" /\ eos' = FALSE
    BY <1>4 DEF Activate
  <2>2. \/ apc = "off" /\ apc' = "sinkOn" /\ UNCHANGED sink
        \/ apc' = "on"
    BY <1>4 DEF Activate, StateGoto
  <2>3. QED
    BY <1>1, <2>1, <2>2
<1>5. QED
  BY <1>2, <1>3, <1>4 DEF StateStep

LEMMA QuietNext ==
  ASSUME ~EarlyStart, QuietInv, [Next]_vars
  PROVE  QuietInv'
<1>1. CASE Reconfigure \/ (\E n \in MaxSizes : SetMaxSize(n)) \/ (\E n \in MinSizes : SetMinThreshold(n))
  <2>1. /\ UseInv' /\ LoopStays /\ UNCHANGED <<fpc, apc, eos, item, sink, src>>
        /\ UNCHANGED <<task, srcresult>> \/ srcresult = "NOT_LINKED"
    BY <1>1, OthersUse DEF QuietInv
  <2>2. QED
    BY <2>1 DEF QuietInv, LoopStays
<1>2. CASE UNCHANGED vars
  <2>1. UNCHANGED <<fpc, apc, eos, item, sink, src, task, srcresult, lpc>> /\ UseInv'
    BY <1>2, UseNext DEF vars, resVars, loopVars, upVars, envVars, QuietInv
  <2>2. QED
    BY <2>1 DEF QuietInv
<1>3. QED
  BY <1>1, <1>2, LoopIsQuiet, UpIsQuiet, SendIsQuiet, FlushIsQuiet, StateIsQuiet DEF Next

LEMMA QuietInit == Init => QuietInv
BY UseInit DEF Init, QuietInv

-----------------------------------------------------------------------------
(* What is left of a sequence of items when its first n are gone, and what *)
(* it weighs: the code subtracts the weights one by one, modulo 2^32.      *)

(* Every nonempty set of numbers has a least element.                      *)
LEMMA Least ==
  ASSUME NEW S, S \subseteq Nat, S # {}
  PROVE  \E n \in S : \A m \in S : n <= m
<1> DEFINE R == OpToRel(<, Nat)
<1>1. IsWellFoundedOn(R, Nat)
  BY NatLessThanWellFounded
<1>2. ASSUME NEW m \in Nat, NEW n \in Nat, m < n
      PROVE  <<m, n>> \in R
  BY <1>2 DEF OpToRel
<1> HIDE DEF R
<1>3. PICK n \in S : \A m \in S : ~(<<m, n>> \in R)
  BY <1>1, WFMin
<1>4. ASSUME NEW m \in S
      PROVE  n <= m
  <2>1. ~(m < n)
    BY <1>2, <1>3
  <2> QED
    BY <2>1
<1> QED
  BY <1>4

(* The positions behind the first n that hold an item of ks.               *)
Behind(s, n, ks) == {i \in (n + 1)..Len(s) : s[i] \in ks}

LEMMA BehindFinite ==
  ASSUME NEW s \in Seq(AllKinds), NEW n \in 0..Len(s), NEW ks
  PROVE  IsFiniteSet(Behind(s, n, ks)) /\ Cardinality(Behind(s, n, ks)) \in Nat
         /\ Cardinality(Behind(s, n, ks)) <= Len(s) - n
<1>1. Len(s) \in Nat /\ n \in Nat /\ n <= Len(s)
  BY LenProperties
<1>2. IsFiniteSet((n + 1)..Len(s)) /\ Cardinality((n + 1)..Len(s)) = Len(s) - n
  <2>1. ASSUME NEW a \in Int, NEW b \in Int
        PROVE  IsFiniteSet(a..b) /\ Cardinality(a..b) = IF a > b THEN 0 ELSE b - a + 1
    BY FS_Interval, Zenon
  <2>2. n + 1 \in Int /\ Len(s) \in Int
    BY <1>1
  <2>3. Cardinality((n + 1)..Len(s)) = IF n + 1 > Len(s) THEN 0 ELSE Len(s) - (n + 1) + 1
    BY <2>1, <2>2, Zenon
  <2>4. IsFiniteSet((n + 1)..Len(s))
    BY <2>1, <2>2, Zenon
  <2> QED
    BY <1>1, <2>3, <2>4
<1>3. Behind(s, n, ks) \in SUBSET ((n + 1)..Len(s))
  BY DEF Behind
<1> QED
  BY <1>2, <1>3, FS_Subset, FS_CardinalityType

LEMMA BehindStep ==
  ASSUME NEW s \in Seq(AllKinds), NEW n \in 1..Len(s), NEW ks
  PROVE  Cardinality(Behind(s, n - 1, ks)) =
           Cardinality(Behind(s, n, ks)) + (IF s[n] \in ks THEN 1 ELSE 0)
<1>1. Len(s) \in Nat /\ n \in Nat /\ n - 1 \in 0..Len(s) /\ n \in 0..Len(s)
  BY LenProperties
<1>2. IsFiniteSet(Behind(s, n, ks)) /\ Cardinality(Behind(s, n, ks)) \in Nat
  BY <1>1, BehindFinite
<1>3. n \notin Behind(s, n, ks)
  BY <1>1 DEF Behind
<1>4. CASE s[n] \in ks
  <2>1. Behind(s, n - 1, ks) = Behind(s, n, ks) \cup {n}
    BY <1>1, <1>4 DEF Behind
  <2> QED
    BY <1>2, <1>3, <1>4, <2>1, FS_AddElement
<1>5. CASE s[n] \notin ks
  <2>1. Behind(s, n - 1, ks) = Behind(s, n, ks)
    BY <1>1, <1>5 DEF Behind
  <2> QED
    BY <1>2, <1>5, <2>1
<1> QED
  BY <1>4, <1>5

LEMMA BehindAmount ==
  ASSUME NEW s \in Seq(AllKinds), NEW n \in 0..Len(s), NEW ks
  PROVE  Amount(SubSeq(s, n + 1, Len(s)), ks) = Cardinality(Behind(s, n, ks))
<1> DEFINE t == SubSeq(s, n + 1, Len(s))
           B == Behind(s, n, ks)
           A == {i \in DOMAIN t : t[i] \in ks}
           f == [i \in B |-> i - n]
<1>1. Len(s) \in Nat /\ n \in Nat /\ n <= Len(s)
  BY LenProperties
<1>2. DOMAIN t = 1..(Len(s) - n) /\ \A i \in 1..(Len(s) - n) : t[i] = s[i + n]
  BY <1>1, SubSeqProperties
<1> HIDE DEF t
<1>3. \A i \in B : i \in Nat /\ n + 1 <= i /\ i <= Len(s) /\ s[i] \in ks
  BY <1>1 DEF Behind
<1>4. f \in [B -> A]
  <2>1. ASSUME NEW i \in B PROVE i - n \in A
    BY <1>1, <1>2, <1>3
  <2> QED
    BY <2>1
<1>5. \A a, b \in B : f[a] = f[b] => a = b
  BY <1>1, <1>3
<1>6. ASSUME NEW j \in A PROVE \E i \in B : f[i] = j
  <2>1. j + n \in B /\ (j + n) - n = j
    BY <1>1, <1>2 DEF Behind
  <2> QED
    BY <2>1
<1> HIDE DEF f
<1>7. f \in Bijection(B, A)
  BY <1>4, <1>5, <1>6 DEF Bijection, Injection, Surjection, IsInjective
<1>8. Cardinality(A) = Cardinality(B)
  BY <1>7, BehindFinite, FS_Bijection DEF ExistsBijection
<1> QED
  BY <1>8 DEF Amount, t

-----------------------------------------------------------------------------
(* What the queue weighs behind its first n items.                         *)
Rest(s, n) == TotalWeight(SubSeq(s, n + 1, Len(s)))

LEMMA RestBehind ==
  ASSUME NEW s \in Seq(AllKinds), NEW n \in 0..Len(s)
  PROVE  /\ Rest(s, n) = Cardinality(Behind(s, n, Data)) + Cardinality(Behind(s, n, {"list"}))
         /\ Rest(s, n) \in Nat /\ Rest(s, n) <= 2 * (Len(s) - n)
<1>1. Rest(s, n) = Cardinality(Behind(s, n, Data)) + Cardinality(Behind(s, n, {"list"}))
  BY BehindAmount DEF Rest, TotalWeight
<1>2. /\ Cardinality(Behind(s, n, Data)) \in Nat /\ Cardinality(Behind(s, n, {"list"})) \in Nat
      /\ Cardinality(Behind(s, n, Data)) <= Len(s) - n
      /\ Cardinality(Behind(s, n, {"list"})) <= Len(s) - n
  BY BehindFinite
<1>3. Len(s) \in Nat /\ n \in Nat
  BY LenProperties
<1> QED
  BY <1>1, <1>2, <1>3

LEMMA RestStep ==
  ASSUME NEW s \in Seq(AllKinds), NEW n \in 1..Len(s)
  PROVE  Rest(s, n - 1) = Rest(s, n) + Weight(s[n])
<1>1. n - 1 \in 0..Len(s) /\ n \in 0..Len(s) /\ s[n] \in AllKinds
  BY LenProperties
<1>2. Weight(s[n]) = (IF s[n] \in Data THEN 1 ELSE 0) + (IF s[n] \in {"list"} THEN 1 ELSE 0)
  BY <1>1 DEF Weight, Data, AllKinds
<1>3. /\ Cardinality(Behind(s, n, Data)) \in Nat /\ Cardinality(Behind(s, n, {"list"})) \in Nat
  BY <1>1, BehindFinite
<1>4. /\ Cardinality(Behind(s, n - 1, Data)) =
           Cardinality(Behind(s, n, Data)) + (IF s[n] \in Data THEN 1 ELSE 0)
      /\ Cardinality(Behind(s, n - 1, {"list"})) =
           Cardinality(Behind(s, n, {"list"})) + (IF s[n] \in {"list"} THEN 1 ELSE 0)
  BY BehindStep
<1>5. /\ Rest(s, n - 1) = Cardinality(Behind(s, n - 1, Data)) + Cardinality(Behind(s, n - 1, {"list"}))
      /\ Rest(s, n) = Cardinality(Behind(s, n, Data)) + Cardinality(Behind(s, n, {"list"}))
  BY <1>1, RestBehind
<1> QED
  BY <1>2, <1>3, <1>4, <1>5

LEMMA RestEnds ==
  ASSUME NEW s \in Seq(AllKinds)
  PROVE  Rest(s, 0) = TotalWeight(s) /\ Rest(s, Len(s)) = 0
<1>1. Len(s) \in Nat
  BY LenProperties
<1>2. SubSeq(s, 0 + 1, Len(s)) = s
  BY <1>1, SubSeqFull
<1>3. Rest(s, Len(s)) \in Nat /\ Rest(s, Len(s)) <= 2 * (Len(s) - Len(s))
  BY <1>1, RestBehind
<1>4. Rest(s, 0) = TotalWeight(s)
  BY <1>2 DEF Rest
<1> QED
  BY <1>1, <1>3, <1>4

LEMMA TotalOfAppend ==
  ASSUME NEW s \in Seq(AllKinds), NEW k \in AllKinds
  PROVE  TotalWeight(Append(s, k)) = TotalWeight(s) + Weight(k)
<1> DEFINE t == Append(s, k)
<1>1. /\ t \in Seq(AllKinds) /\ Len(t) = Len(s) + 1 /\ Len(s) \in Nat
      /\ \A i \in 1..Len(s) : t[i] = s[i]
      /\ t[Len(s) + 1] = k
  BY AppendProperties, LenProperties
<1> HIDE DEF t
<1>2. ASSUME NEW ks
      PROVE  /\ Amount(t, ks) = Amount(s, ks) + (IF k \in ks THEN 1 ELSE 0)
             /\ Amount(s, ks) \in Nat
  <2> DEFINE A == {i \in 1..Len(s) : s[i] \in ks}
             B == {i \in 1..(Len(s) + 1) : t[i] \in ks}
  <2>1. A = Behind(s, 0, ks)
    BY <1>1 DEF Behind
  <2>2. IsFiniteSet(A) /\ Cardinality(A) \in Nat
    <3>1. 0 \in 0..Len(s)
      BY <1>1
    <3> HIDE DEF A
    <3> QED
      BY <2>1, <3>1, BehindFinite
  <2>3. Amount(s, ks) = Cardinality(A) /\ Amount(t, ks) = Cardinality(B)
    BY <1>1, LenProperties DEF Amount
  <2>4. CASE k \in ks
    <3>1. B = A \cup {Len(s) + 1} /\ Len(s) + 1 \notin A
      BY <1>1, <2>4
    <3> HIDE DEF A, B
    <3>2. Cardinality(B) = Cardinality(A) + 1
      BY <2>2, <3>1, FS_AddElement
    <3> QED
      BY <2>2, <2>3, <2>4, <3>2
  <2>5. CASE k \notin ks
    <3>1. B = A
      BY <1>1, <2>5
    <3> HIDE DEF A, B
    <3> QED
      BY <2>2, <2>3, <2>5, <3>1
  <2> HIDE DEF A, B
  <2> QED
    BY <2>4, <2>5
<1>3. Weight(k) = (IF k \in Data THEN 1 ELSE 0) + (IF k \in {"list"} THEN 1 ELSE 0)
  BY DEF Weight, Data, AllKinds
<1>4. TotalWeight(t) = TotalWeight(s) + Weight(k)
  BY <1>2, <1>3 DEF TotalWeight
<1> QED
  BY <1>4 DEF t

(* The level after n items, whatever their number.                         *)
LEMMA LevelAfter ==
  ASSUME q \in Seq(AllKinds), level = TotalWeight(q), 2 * Len(q) < Word,
         \A i \in 1..Len(q) : q[i] = "eos" => i = Len(q)
  PROVE  \A n \in 0..Len(q) : LevelWithout[n] = Rest(q, n)
<1> DEFINE F(g) == [n \in 0..Len(q) |->
                      IF n = 0 THEN level
                      ELSE IF q[n] = "eos" THEN 0
                      ELSE (g[n - 1] + Word - Weight(q[n])) % Word]
           f == [n \in 0..Len(q) |-> Rest(q, n)]
<1>1. Len(q) \in Nat /\ Word \in Nat
  BY LenProperties, QueueAssumption
<1>2. ASSUME NEW n \in 1..Len(q)
      PROVE  Rest(q, n) = IF q[n] = "eos" THEN 0
                          ELSE (Rest(q, n - 1) + Word - Weight(q[n])) % Word
  <2>1. CASE q[n] = "eos"
    BY <2>1, RestEnds
  <2>2. CASE q[n] # "eos"
    <3>1. Rest(q, n - 1) = Rest(q, n) + Weight(q[n])
      BY RestStep
    <3>2. Rest(q, n) \in Nat /\ Rest(q, n) <= 2 * (Len(q) - n)
      BY <1>1, RestBehind
    <3>3. Weight(q[n]) \in Nat
      BY DEF Weight
    <3>4. Rest(q, n - 1) + Word - Weight(q[n]) = Rest(q, n) + Word
      BY <1>1, <3>1, <3>2, <3>3
    <3>5. Rest(q, n) < Word
      BY <1>1, <3>2
    <3>6. ASSUME NEW a \in Nat, a < Word
          PROVE  (a + Word) % Word = a
      BY <1>1, <3>6
    <3> QED
      BY <2>2, <3>2, <3>4, <3>5, <3>6
  <2> QED
    BY <2>1, <2>2
<1>3. f = F(f)
  <2>1. ASSUME NEW n \in 0..Len(q) PROVE f[n] = F(f)[n]
    <3>1. CASE n = 0
      BY <1>1, <3>1, RestEnds
    <3>2. CASE n # 0
      <4>1. n \in 1..Len(q) /\ n - 1 \in 0..Len(q)
        BY <1>1, <3>2
      <4> QED
        BY <1>2, <3>2, <4>1
    <3> QED
      BY <3>1, <3>2
  <2> QED
    BY <2>1
<1>4. LevelWithout = F(LevelWithout)
  BY <1>3 DEF LevelWithout
<1> DEFINE T == {n \in 0..Len(q) : LevelWithout[n] # Rest(q, n)}
<1>5. T = {}
  <2> SUFFICES ASSUME T # {} PROVE FALSE
    OBVIOUS
  <2>1. T \subseteq Nat
    BY <1>1
  <2>2. PICK n \in T : \A m \in T : n <= m
    BY <2>1, Least
  <2>3. n # 0
    BY <1>1, <1>4, RestEnds
  <2>4. n \in 1..Len(q) /\ n - 1 \in 0..Len(q) /\ n - 1 \notin T
    BY <1>1, <2>2, <2>3
  <2>5. LevelWithout[n - 1] = Rest(q, n - 1)
    BY <2>4
  <2>6. LevelWithout[n] = F(LevelWithout)[n]
    BY <1>4
  <2> QED
    BY <1>2, <2>3, <2>4, <2>5, <2>6
<1> QED
  BY <1>5

-----------------------------------------------------------------------------
(* What the queue holds, for the level: ItemInv is inductive as long as    *)
(* the environment keeps to what EarlyStart excludes, and the weight of a  *)
(* full queue fits into the counter.                                       *)
Waiting == {"waitQuery", "wokenQuery"}
Chaining == {"overrun", "running", "waitDel", "wokenDel"}

Queued(k) == \E i \in 1..Len(q) : q[i] = k

ItemTypes ==
  /\ q \in Seq(AllKinds)
  /\ hand \in AllKinds \cup {"none"} /\ item \in AllKinds \cup {"none"}
  /\ max \in MaxSizes /\ orig \in MinSizes /\ min \in MinSizes \cup {0}

(* What a thread holds tells where it is.                                  *)
Refs ==
  /\ lpc \in {"push", "refused"} <=> hand # "none"
  /\ upc = "idle" <=> item = "none"
  /\ upc \in Chaining => item \in Data
  /\ upc \in Waiting => item = "query"

(* How far a state change has come: the source pad is switched off before  *)
(* the sink pad, the task has stopped and the loop is out by then, and     *)
(* what is left in the queue is thrown away last.  A flush that ends late  *)
(* sets the result back to OK, and then only queries get into the queue.   *)
Pads ==
  /\ apc \in {"src", "stop", "join", "sinkOff", "sink", "drain", "off"} =>
       ~src.active /\ src.flushing
  /\ apc \in {"join", "sinkOff", "sink", "drain", "off"} => task = "STOPPED"
  /\ apc \in {"sinkOff", "sink", "drain", "off"} => lpc = "idle"
  /\ fpc = "stop" => apc \notin {"off", "sinkOn"} /\ upc = "idle"
  /\ fpc = "lock" /\ sink.flushing => apc \in {"sink", "drain", "off"}
  /\ apc \in {"off", "sinkOn"} => item \in {"none", "query"}
  /\ apc \in {"drain", "off"} =>
       \/ srcresult = "FLUSHING" /\ (apc = "off" => Len(q) = 0)
       \/ /\ srcresult = "OK" /\ ~eos /\ fpc = "idle" /\ item \in {"none", "query"}
          /\ \A i \in 1..Len(q) : q[i] = "query"
  /\ apc = "sinkOn" => /\ srcresult = "OK" /\ hand \in {"none", "query"}
                       /\ \A i \in 1..Len(q) : q[i] = "query"

(* Why upstream sends no data behind an EOS that the queue has taken.      *)
EosSeen ==
  \/ sink.eos \/ fpc \in {"lock", "stop"} \/ item = "start"
  \/ srcresult = "FLUSHING" /\ apc \in {"sink", "drain", "off"}

(* EOS is the last item, so a dequeued EOS leaves nothing to be counted;   *)
(* nothing comes behind it until a flush, a STREAM_START or new pads.      *)
EosInv ==
  /\ \A i \in 1..Len(q) : q[i] = "eos" => i = Len(q) /\ eos
  /\ hand = "eos" => Len(q) = 0 /\ eos /\ upc = "idle"
  /\ item \in Restarting => ~Queued("eos") /\ hand # "eos"
  /\ eos => EosSeen
  /\ upc = "call" /\ item # "start" => ~eos \/ srcresult = "FLUSHING"
  /\ upc \in Chaining \cup Waiting => ~eos

(* The bound of the model on the items in the queue.                       *)
Bounded ==
  /\ Len(q) <= Room
  /\ upc \in {"call"} \cup Chaining => Len(q) < Room

ItemInv == QuietInv /\ ItemTypes /\ Refs /\ Pads /\ EosInv /\ Bounded /\ LevelExact

(* What the level needs of the environment.                                *)
Protocol == ~EarlyStart /\ 2 * Room < Word

(* The queue has lost its first items, and their weight.                   *)
Fewer ==
  /\ q' \in Seq(AllKinds) /\ Len(q') <= Len(q)
  /\ \A i \in 1..Len(q') : q'[i] = q[i + (Len(q) - Len(q'))]
  /\ level' = TotalWeight(q')

(* The queue has lost first items, perhaps none, and has got item.         *)
Added ==
  /\ q' \in Seq(AllKinds) /\ Len(q') \in 1..(Len(q) + 1)
  /\ \A i \in 1..(Len(q') - 1) : q'[i] = q[i + (Len(q) + 1 - Len(q'))]
  /\ q'[Len(q')] = item
  /\ level' = TotalWeight(q')

(* The streaming thread sleeps as before, or is woken.                     *)
Woken ==
  \/ upc' = upc
  \/ upc = "waitDel" /\ upc' = "wokenDel"
  \/ upc = "waitQuery" /\ upc' = "wokenQuery"

LEMMA SignalWakes ==
  ASSUME NEW waits, Signal(waits)
  PROVE  Woken /\ \A w \in waits : w \in Both => upc' # w
BY DEF Signal, Woken, Both

LEMMA Lengths ==
  ASSUME ItemTypes
  PROVE  Len(q) \in Nat /\ \A i \in 1..Len(q) : q[i] \in AllKinds
BY LenProperties, ElementOfSeq DEF ItemTypes

LEMMA Levels ==
  ASSUME Protocol, ItemInv
  PROVE  \A n \in 0..Len(q) : LevelWithout[n] = Rest(q, n)
<1>1. q \in Seq(AllKinds) /\ level = TotalWeight(q) /\ Len(q) <= Room
  BY DEF ItemInv, ItemTypes, LevelExact, Bounded
<1>2. \A i \in 1..Len(q) : q[i] = "eos" => i = Len(q)
  BY DEF ItemInv, EosInv
<1>3. 2 * Len(q) < Word
  BY <1>1, QueueAssumption, LenProperties DEF Protocol
<1> QED
  BY <1>1, <1>2, <1>3, LevelAfter

(* The items behind the first n, as the proofs look at them.               *)
LEMMA Suffix ==
  ASSUME NEW s \in Seq(AllKinds), NEW n \in 0..Len(s)
  PROVE  LET t == SubSeq(s, n + 1, Len(s))
         IN  /\ t \in Seq(AllKinds) /\ Len(t) = Len(s) - n
             /\ \A i \in 1..Len(t) : t[i] = s[i + (Len(s) - Len(t))]
<1>1. Len(s) \in Nat /\ n \in Nat /\ n <= Len(s)
  BY LenProperties
<1>2. n + 1 \in 1..(Len(s) + 1) /\ Len(s) \in (n + 1 - 1)..Len(s)
  BY <1>1
<1> DEFINE t == SubSeq(s, n + 1, Len(s))
<1>3. t \in Seq(AllKinds) /\ Len(t) = Len(s) - (n + 1) + 1
      /\ \A i \in 1..(Len(s) - (n + 1) + 1) : t[i] = s[n + 1 + i - 1]
  BY <1>2, SubSeqProperties
<1> HIDE DEF t
<1>4. Len(t) = Len(s) - n
  BY <1>1, <1>3
<1>5. ASSUME NEW i \in 1..Len(t)
      PROVE  t[i] = s[i + (Len(s) - Len(t))]
  <2>1. i \in 1..(Len(s) - (n + 1) + 1) /\ n + 1 + i - 1 = i + (Len(s) - Len(t))
    BY <1>1, <1>4
  <2> QED
    BY <1>3, <2>1
<1>6. /\ t \in Seq(AllKinds) /\ Len(t) = Len(s) - n
      /\ \A i \in 1..Len(t) : t[i] = s[i + (Len(s) - Len(t))]
  BY <1>3, <1>4, <1>5
<1> QED
  BY <1>6 DEF t

LEMMA DequeueFewer ==
  ASSUME Protocol, ItemInv, NEW n \in 0..Len(q), Dequeue(n)
  PROVE  Fewer /\ Len(q') = Len(q) - n
<1>1. q \in Seq(AllKinds) /\ Len(q) \in Nat
  BY LenProperties DEF ItemInv, ItemTypes
<1>2. q' = SubSeq(q, n + 1, Len(q)) /\ level' = TotalWeight(q')
  BY Levels DEF Dequeue, Rest
<1>3. /\ q' \in Seq(AllKinds) /\ Len(q') = Len(q) - n
      /\ \A i \in 1..Len(q') : q'[i] = q[i + (Len(q) - Len(q'))]
  BY <1>1, <1>2, Suffix
<1>4. Len(q') <= Len(q)
  BY <1>1, <1>3
<1> QED
  BY <1>2, <1>3, <1>4 DEF Fewer

LEMMA EmptyWeighsNothing == TotalWeight(<<>>) = 0
<1>1. <<>> \in Seq(AllKinds) /\ Len(<<>>) = 0
  OBVIOUS
<1>2. Rest(<<>>, 0) = TotalWeight(<<>>) /\ Rest(<<>>, Len(<<>>)) = 0
  BY <1>1, RestEnds
<1> QED
  BY <1>1, <1>2

LEMMA FlushFewer ==
  ASSUME ItemInv, LockedFlush
  PROVE  Fewer /\ Woken /\ Len(q') = 0 /\ q' = <<>> /\ min' = orig /\ upc' \notin Both
<1>1. q' = <<>> /\ level' = 0 /\ min' = orig /\ Signal(Both)
  BY DEF LockedFlush
<1>2. q' \in Seq(AllKinds) /\ Len(q') = 0 /\ Len(q) \in Nat
  BY <1>1, Lengths DEF ItemInv
<1> QED
  BY <1>1, <1>2, SignalWakes, EmptyWeighsNothing DEF Fewer

LEMMA SameFewer ==
  ASSUME ItemInv, UNCHANGED <<q, level>>
  PROVE  Fewer /\ Len(q') = Len(q)
<1>1. q \in Seq(AllKinds) /\ Len(q) \in Nat /\ level = TotalWeight(q)
  BY LenProperties DEF ItemInv, ItemTypes, LevelExact
<1>2. q' = q /\ level' = level
  OBVIOUS
<1> QED
  BY <1>1, <1>2 DEF Fewer

LEMMA LeaksIn ==
  ASSUME Protocol, ItemInv, NEW m \in Nat
  PROVE  /\ Leaks(m) \in 0..Len(q)
         /\ m = 0 \/ level < m => Leaks(m) = 0
         /\ Len(q) # 0 /\ q[Len(q)] = "eos" => Leaks(m) # Len(q)
<1> DEFINE S == {n \in 0..Len(q) : ~(m > 0 /\ LevelWithout[n] >= m)}
<1>1. q \in Seq(AllKinds) /\ Len(q) \in Nat /\ level = TotalWeight(q)
  BY LenProperties DEF ItemInv, ItemTypes, LevelExact
<1>2. \A n \in 0..Len(q) : LevelWithout[n] = Rest(q, n) /\ Rest(q, n) \in Nat
  BY <1>1, Levels, RestBehind
<1>3. Rest(q, 0) = level /\ Rest(q, Len(q)) = 0
  BY <1>1, RestEnds
<1>4. Len(q) \in S
  BY <1>1, <1>2, <1>3
<1>5. S \subseteq Nat
  BY <1>1
<1>6. PICK n \in S : \A k \in S : n <= k
  BY <1>4, <1>5, Least
<1>7. Leaks(m) \in S /\ \A k \in S : Leaks(m) <= k
  BY <1>6 DEF Leaks, Min
<1>8. m = 0 \/ level < m => 0 \in S
  BY <1>1, <1>2, <1>3
<1>9. Len(q) # 0 /\ q[Len(q)] = "eos" => Len(q) - 1 \in S
  <2> SUFFICES ASSUME Len(q) # 0, q[Len(q)] = "eos" PROVE Len(q) - 1 \in S
    OBVIOUS
  <2>1. Len(q) \in 1..Len(q) /\ Len(q) - 1 \in 0..Len(q)
    BY <1>1
  <2>2. Rest(q, Len(q) - 1) = Rest(q, Len(q)) + Weight(q[Len(q)])
    BY <1>1, <2>1, RestStep
  <2>3. Weight("eos") = 0
    BY DEF Weight
  <2>4. Rest(q, Len(q) - 1) = 0
    BY <1>3, <2>2, <2>3
  <2> QED
    BY <1>2, <2>1, <2>4
<1> HIDE DEF S
<1>10. S \subseteq 0..Len(q)
  BY DEF S
<1>11. Leaks(m) \in Nat /\ Leaks(m) \in 0..Len(q)
  BY <1>5, <1>7, <1>10
<1>12. m = 0 \/ level < m => Leaks(m) = 0
  BY <1>7, <1>8, <1>11
<1>13. Len(q) # 0 /\ q[Len(q)] = "eos" => Leaks(m) # Len(q)
  BY <1>1, <1>7, <1>9, <1>11
<1> QED
  BY <1>11, <1>12, <1>13

LEMMA AppendSuffix ==
  ASSUME NEW s \in Seq(AllKinds), NEW n \in 0..Len(s), NEW k \in AllKinds
  PROVE  LET u == Append(SubSeq(s, n + 1, Len(s)), k)
         IN  /\ u \in Seq(AllKinds) /\ Len(u) = Len(s) + 1 - n
             /\ \A i \in 1..(Len(u) - 1) : u[i] = s[i + (Len(s) + 1 - Len(u))]
             /\ u[Len(u)] = k
             /\ TotalWeight(u) = Rest(s, n) + Weight(k)
             /\ TotalWeight(u) \in Nat /\ TotalWeight(u) <= 2 * Len(u)
<1> DEFINE t == SubSeq(s, n + 1, Len(s))
           u == Append(t, k)
<1>1. Len(s) \in Nat /\ n \in Nat /\ n <= Len(s)
  BY LenProperties
<1>2. t \in Seq(AllKinds) /\ Len(t) = Len(s) - n /\ \A i \in 1..Len(t) : t[i] = s[i + (Len(s) - Len(t))]
  BY Suffix
<1>3. Rest(s, n) = TotalWeight(t)
  BY DEF Rest
<1> HIDE DEF t
<1>4. u \in Seq(AllKinds) /\ Len(u) = Len(t) + 1 /\ u[Len(t) + 1] = k
      /\ \A i \in 1..Len(t) : u[i] = t[i]
  BY <1>2, AppendProperties
<1>5. TotalWeight(u) = Rest(s, n) + Weight(k)
  BY <1>2, <1>3, TotalOfAppend
<1> HIDE DEF u
<1>6. TotalWeight(u) \in Nat /\ TotalWeight(u) <= 2 * Len(u)
  <2>1. 0 \in 0..Len(u) /\ Rest(u, 0) = TotalWeight(u) /\ Len(u) \in Nat
    BY <1>1, <1>2, <1>4, RestEnds
  <2> QED
    BY <1>4, <2>1, RestBehind
<1>7. Len(u) = Len(s) + 1 - n /\ u[Len(u)] = k
  BY <1>1, <1>2, <1>4
<1>8. ASSUME NEW i \in 1..(Len(u) - 1)
      PROVE  u[i] = s[i + (Len(s) + 1 - Len(u))]
  <2>1. i \in 1..Len(t) /\ i + (Len(s) + 1 - Len(u)) = i + (Len(s) - Len(t))
    BY <1>1, <1>2, <1>4
  <2> QED
    BY <1>2, <1>4, <2>1
<1>9. /\ u \in Seq(AllKinds) /\ Len(u) = Len(s) + 1 - n
      /\ \A i \in 1..(Len(u) - 1) : u[i] = s[i + (Len(s) + 1 - Len(u))]
      /\ u[Len(u)] = k
      /\ TotalWeight(u) = Rest(s, n) + Weight(k)
      /\ TotalWeight(u) \in Nat /\ TotalWeight(u) <= 2 * Len(u)
  BY <1>4, <1>5, <1>6, <1>7, <1>8
<1> QED
  BY <1>9 DEF u, t

LEMMA AppendAdds ==
  ASSUME Protocol, ItemInv, NEW n \in 0..Len(q), item \in AllKinds, Len(q) < Room,
         q' = Append(SubSeq(q, n + 1, Len(q)), item),
         level' = (Rest(q, n) + Weight(item)) % Word
  PROVE  Added /\ Len(q') = Len(q) + 1 - n
<1>1. q \in Seq(AllKinds) /\ Len(q) \in Nat
  BY LenProperties DEF ItemInv, ItemTypes
<1>2. /\ q' \in Seq(AllKinds) /\ Len(q') = Len(q) + 1 - n
      /\ \A i \in 1..(Len(q') - 1) : q'[i] = q[i + (Len(q) + 1 - Len(q'))]
      /\ q'[Len(q')] = item
      /\ TotalWeight(q') = Rest(q, n) + Weight(item)
      /\ TotalWeight(q') \in Nat /\ TotalWeight(q') <= 2 * Len(q')
  BY <1>1, AppendSuffix
<1>3. TotalWeight(q') < Word /\ Word \in Nat
  BY <1>1, <1>2, QueueAssumption DEF Protocol
<1>4. level' = TotalWeight(q')
  <2>1. ASSUME NEW a \in Nat, a < Word
        PROVE  a % Word = a
    BY <1>3, <2>1
  <2> QED
    BY <1>2, <1>3, <2>1
<1>5. Len(q') \in 1..(Len(q) + 1)
  BY <1>1, <1>2
<1> QED
  BY <1>2, <1>4, <1>5 DEF Added

LEMMA WholeRest ==
  ASSUME ItemInv
  PROVE  /\ SubSeq(q, 0 + 1, Len(q)) = q /\ Rest(q, 0) = level
         /\ SubSeq(q, Len(q) + 1, Len(q)) = <<>> /\ Rest(q, Len(q)) = 0
         /\ 0 \in 0..Len(q) /\ Len(q) \in 0..Len(q)
<1>1. q \in Seq(AllKinds) /\ Len(q) \in Nat /\ level = TotalWeight(q)
  BY LenProperties DEF ItemInv, ItemTypes, LevelExact
<1>2. SubSeq(q, 0 + 1, Len(q)) = q
  BY <1>1, SubSeqFull
<1>3. SubSeq(q, Len(q) + 1, Len(q)) = <<>>
  BY <1>1, SubSeqEmpty
<1> QED
  BY <1>1, <1>2, <1>3, RestEnds

-----------------------------------------------------------------------------
LEMMA Items ==
  ASSUME ItemTypes
  PROVE  /\ Len(q) \in Nat /\ DOMAIN q = 1..Len(q)
         /\ q = <<>> <=> Len(q) = 0
         /\ \A k : k \in ToSet(q) <=> Queued(k)
         /\ Len(q) # 0 => Head(q) = q[1] /\ Last(q) = q[Len(q)]
         /\ \A i \in 1..Len(q) : q[i] \in AllKinds
<1>1. q \in Seq(AllKinds)
  BY DEF ItemTypes
<1>2. Len(q) \in Nat /\ DOMAIN q = 1..Len(q)
  BY <1>1, LenProperties
<1>3. q = <<>> <=> Len(q) = 0
  BY <1>1, EmptySeq
<1>4. Len(q) # 0 => Head(q) = q[1] /\ Last(q) = q[Len(q)]
  BY <1>1, <1>3, HeadTailProperties DEF Last
<1>5. \A k : k \in ToSet(q) <=> Queued(k)
  BY <1>2 DEF ToSet, Queued
<1> QED
  BY <1>2, <1>3, <1>4, <1>5, Lengths

(* What a step of the loop may do to the items.                            *)
Pushes == \E n \in 1..Len(q) : hand' = q[n] /\ Len(q') = Len(q) - n

LoopEffect ==
  /\ Fewer /\ Woken
  /\ lpc' \in {"push", "refused"} <=> hand' # "none"
  /\ hand' \in {hand, "none"} \/ (srcresult = "OK" /\ Pushes)
  /\ min' \in {min, orig}
  /\ task = "STOPPED" => task' = "STOPPED"
  /\ srcresult' = srcresult \/ srcresult = "OK"
  /\ srcresult = "OK" /\ hand \in {"none", "query"} => srcresult' = "OK"
  /\ UNCHANGED eos

LEMMA LeaveEffect ==
  ASSUME ItemInv, NEW r, LoopLeaves(r)
  PROVE  /\ Fewer /\ Woken
         /\ Len(q') = 0 \/ UNCHANGED <<q, level, min>>
         /\ hand' = "none" /\ lpc' \in {"idle", "giveUp"} /\ min' \in {min, orig}
         /\ srcresult' = r
         /\ UNCHANGED <<eos, handled>> /\ drained' = FALSE
         /\ task' # "STARTED" /\ (task = "STOPPED" => task' = "STOPPED")
         /\ upc' \notin Both
<1>1. /\ hand' = "none" /\ lpc' \in {"idle", "giveUp"} /\ srcresult' = r
      /\ UNCHANGED <<eos, handled>> /\ drained' = FALSE
  BY DEF LoopLeaves
<1>2. task' # "STARTED" /\ (task = "STOPPED" => task' = "STOPPED")
  BY Pauses DEF LoopLeaves, PauseTask, ItemInv, QuietInv, UseInv
<1>3. CASE LockedFlush
  BY <1>1, <1>2, <1>3, FlushFewer
<1>4. CASE Signal(Both) /\ UNCHANGED lvVars
  BY <1>1, <1>2, <1>4, SignalWakes, SameFewer DEF lvVars
<1> QED
  BY <1>3, <1>4 DEF LoopLeaves

LEMMA LoopItems ==
  ASSUME Protocol, ItemInv, Loop
  PROVE  LoopEffect
<1>1. hand = "none"
  BY DEF Loop, ItemInv, Refs
<1>2. CASE srcresult # "OK" /\ LoopLeaves(srcresult)
  BY <1>2, LeaveEffect DEF LoopEffect
<1>3. ASSUME NEW pc \in {"waitAdd", "underrun", "running"}, LoopGoto(pc)
      PROVE  LoopEffect
  <2>1. UNCHANGED <<q, level, min, srcresult, eos, task, hand, upc>> /\ lpc' = pc
    BY <1>3 DEF LoopGoto, lvVars, resVars
  <2> QED
    BY <1>1, <2>1, SameFewer DEF LoopEffect, Woken
<1>4. CASE srcresult = "OK" /\ ~IsEmpty /\ Take
  <2>1. /\ Dequeue(1) /\ hand' = Head(q) /\ Signal({"waitDel"})
        /\ lpc' \in {"refused", "push"}
        /\ UNCHANGED <<min, srcresult, eos, task>>
    BY <1>4 DEF Take, resVars
  <2>2. Len(q) \in Nat /\ Len(q) # 0 /\ Head(q) = q[1] /\ q[1] \in AllKinds
    BY <1>4, Items DEF IsEmpty, ItemInv
  <2>3. 1 \in 0..Len(q) /\ 1 \in 1..Len(q)
    BY <2>2
  <2>4. Fewer /\ Len(q') = Len(q) - 1
    BY <2>1, <2>3, DequeueFewer
  <2>5. Pushes /\ hand' # "none"
    BY <2>1, <2>2, <2>3, <2>4 DEF Pushes, AllKinds
  <2> QED
    BY <1>4, <2>1, <2>4, <2>5, SignalWakes DEF LoopEffect
<1>5. \/ srcresult # "OK" /\ LoopLeaves(srcresult)
      \/ \E pc \in {"waitAdd", "underrun", "running"} : LoopGoto(pc)
      \/ srcresult = "OK" /\ ~IsEmpty /\ Take
  BY DEF Loop
<1> QED
  BY <1>2, <1>3, <1>4, <1>5

(* An EOS from downstream: the first item that is still wanted is pushed.  *)
LEMMA DropEffect ==
  ASSUME Protocol, ItemInv, DropUnwanted
  PROVE  /\ Fewer /\ Woken
         /\ \/ /\ LoopReturns /\ Len(q') = 0
               /\ \A i \in 1..Len(q) : q[i] \notin Pushable
            \/ /\ Pushes /\ hand' \in Pushable /\ lpc' \in {"push", "refused"}
               /\ drained' = TRUE
               /\ UNCHANGED <<min, srcresult, eos, task>>
         /\ upc' = "waitDel" => q = <<>>
         /\ upc = "waitQuery" /\ ~Queued("query") => upc' = "waitQuery"
         /\ UNCHANGED handled
<1> DEFINE wanted == {i \in DOMAIN q : q[i] \in Pushable}
           dropped == IF wanted = {} THEN ToSet(q)
                      ELSE {q[i] : i \in 1..(Min(wanted) - 1)}
<1>0. UNCHANGED handled
  BY DEF DropUnwanted
<1>1. Len(q) \in Nat /\ DOMAIN q = 1..Len(q) /\ \A k : k \in ToSet(q) <=> Queued(k)
  BY Items DEF ItemInv
<1>2. wanted \subseteq Nat /\ wanted \subseteq 1..Len(q)
  BY <1>1
<1>3. wanted # {} => Min(wanted) \in wanted
  <2> HIDE DEF wanted
  <2> SUFFICES ASSUME wanted # {} PROVE Min(wanted) \in wanted
    OBVIOUS
  <2>1. \E n \in wanted : \A m \in wanted : n <= m
    BY <1>2, Least
  <2> QED
    BY <2>1 DEF Min
<1>4. IF q = <<>> THEN UNCHANGED upc
      ELSE Signal({"waitDel"} \cup (IF "query" \in dropped THEN {"waitQuery"} ELSE {}))
  BY DEF DropUnwanted
<1>5. Woken
  BY <1>4, SignalWakes DEF Woken
<1>6. /\ upc' = "waitDel" => q = <<>>
      /\ upc = "waitQuery" /\ ~Queued("query") => upc' = "waitQuery"
  <2>1. "query" \in dropped => Queued("query")
    <3>1. CASE wanted = {}
      BY <1>1, <3>1
    <3>2. CASE wanted # {}
      <4>1. Min(wanted) \in 1..Len(q)
        BY <1>2, <1>3, <3>2
      <4> HIDE DEF wanted
      <4>2. ASSUME NEW i \in 1..(Min(wanted) - 1) PROVE i \in 1..Len(q)
        BY <1>1, <4>1
      <4> QED
        BY <3>2, <4>2 DEF Queued
    <3> QED
      BY <3>1, <3>2
  <2> HIDE DEF dropped
  <2> QED
    BY <1>4, <2>1 DEF Signal
<1>7. CASE wanted = {}
  <2>1. Dequeue(Len(q)) /\ LoopReturns
    BY <1>7 DEF DropUnwanted
  <2>2. Len(q) \in 0..Len(q) /\ Len(q) - Len(q) = 0
    BY <1>1
  <2>3. Fewer /\ Len(q') = 0
    BY <2>1, <2>2, DequeueFewer
  <2>4. \A i \in 1..Len(q) : q[i] \notin Pushable
    BY <1>1, <1>7
  <2> QED
    BY <1>0, <1>5, <1>6, <2>1, <2>3, <2>4
<1>8. CASE wanted # {}
  <2>1. /\ Dequeue(Min(wanted)) /\ hand' = q[Min(wanted)] /\ drained' = TRUE
        /\ lpc' \in {"push", "refused"}
        /\ UNCHANGED <<min, srcresult, eos, task>>
    BY <1>8 DEF DropUnwanted, resVars
  <2>2. Min(wanted) \in 1..Len(q) /\ q[Min(wanted)] \in Pushable
    BY <1>2, <1>3, <1>8
  <2>3. Min(wanted) \in 0..Len(q)
    BY <1>1, <2>2
  <2>4. Fewer /\ Len(q') = Len(q) - Min(wanted)
    BY <2>1, <2>3, DequeueFewer
  <2>5. Pushes
    BY <2>1, <2>2, <2>4 DEF Pushes
  <2> QED
    BY <1>0, <1>5, <1>6, <2>1, <2>2, <2>4, <2>5
<1> QED
  BY <1>7, <1>8

LEMMA PushedItems ==
  ASSUME Protocol, ItemInv, Pushed
  PROVE  LoopEffect
<1>1. CASE srcresult # "OK" /\ LoopLeaves(srcresult)
  BY <1>1, LeaveEffect DEF LoopEffect
<1>2. ASSUME srcresult = "OK", LoopReturns, UNCHANGED <<q, level, upc>>
      PROVE  LoopEffect
  BY <1>2, SameFewer DEF LoopReturns, LoopEffect, Woken
<1>3. CASE srcresult = "OK" /\ BufferPushed
  <2>1. hand \in Data
    BY <1>3 DEF BufferPushed
  <2>2. PICK r \in PushResults :
          \/ r = "OK" /\ LoopReturns /\ UNCHANGED <<q, level, unexpected, handled, upc>>
          \/ r = "EOS" /\ DropUnwanted
          \/ r \notin {"OK", "EOS"} /\ LoopLeaves(r)
    BY <1>3 DEF BufferPushed
  <2>3. CASE LoopLeaves(r)
    BY <1>3, <2>1, <2>3, LeaveEffect DEF LoopEffect, Data
  <2>4. CASE DropUnwanted
    <3>1. CASE LoopReturns
      BY <1>3, <2>1, <2>4, <3>1, DropEffect DEF LoopReturns, LoopEffect
    <3>2. CASE Pushes /\ hand' \in Pushable /\ lpc' \in {"push", "refused"} /\ UNCHANGED <<min, srcresult, eos, task>>
      BY <1>3, <2>1, <2>4, <3>2, DropEffect DEF LoopEffect, Pushable
    <3> QED
      BY <2>4, <3>1, <3>2, DropEffect
  <2> QED
    BY <1>2, <1>3, <2>2, <2>3, <2>4
<1>4. CASE srcresult = "OK" /\ EventPushed
  <2>1. CASE LoopLeaves("EOS")
    <3>1. hand \notin {"none", "query"}
      BY <1>4 DEF EventPushed, Pushed, ItemInv, Refs
    <3> QED
      BY <1>4, <2>1, <3>1, LeaveEffect DEF LoopEffect
  <2> QED
    BY <1>2, <1>4, <2>1 DEF EventPushed
<1>5. CASE srcresult = "OK" /\ QueryPushed
  <2>1. Woken /\ LoopReturns /\ UNCHANGED <<q, level>>
    BY <1>5, SignalWakes DEF QueryPushed
  <2> QED
    BY <1>5, <2>1, SameFewer DEF LoopReturns, LoopEffect
<1> QED
  BY <1>1, <1>3, <1>4, <1>5 DEF Pushed

LEMMA GiveUpItems ==
  ASSUME Protocol, ItemInv, GiveUp
  PROVE  LoopEffect
<1>1. UNCHANGED <<q, level, min, srcresult, eos, task, hand, upc>> /\ lpc' = "idle"
  BY DEF GiveUp, LoopGoto, lvVars, resVars
<1>2. hand = "none"
  BY DEF GiveUp, ItemInv, Refs
<1> QED
  BY <1>1, <1>2, SameFewer DEF LoopEffect, Woken

-----------------------------------------------------------------------------
(* What is left of the invariant by steps that add nothing.                *)
LEMMA EosFrame ==
  ASSUME ItemInv, Fewer, Woken, UNCHANGED item, eos' \in BOOLEAN,
         eos' = eos \/ (~eos' /\ hand' # "eos" /\ \A i \in 1..Len(q') : q'[i] # "eos"),
         hand' \in {hand, "none"} \/ (srcresult = "OK" /\ Pushes),
         eos' => EosSeen',
         eos' /\ srcresult = "FLUSHING" => srcresult' = "FLUSHING"
  PROVE  EosInv'
<1>1. EosInv /\ Len(q) \in Nat /\ upc \in UpPCs
  BY Lengths DEF ItemInv, QuietInv, UseInv, QTypes
<1>2. Len(q') \in Nat /\ Len(q') <= Len(q)
      /\ \A i \in 1..Len(q') : q'[i] = q[i + (Len(q) - Len(q'))]
  BY LenProperties DEF Fewer
<1>3. ASSUME NEW i \in 1..Len(q'), q'[i] = "eos"
      PROVE  i = Len(q') /\ Queued("eos") /\ eos
  <2>1. i + (Len(q) - Len(q')) \in 1..Len(q) /\ q[i + (Len(q) - Len(q'))] = "eos"
    BY <1>1, <1>2, <1>3
  <2>2. i + (Len(q) - Len(q')) = Len(q) /\ eos
    BY <1>1, <2>1 DEF EosInv
  <2> QED
    BY <1>1, <1>2, <2>1, <2>2 DEF Queued
<1>4. \A i \in 1..Len(q') : q'[i] = "eos" => i = Len(q') /\ eos'
  BY <1>3
<1>5. ASSUME srcresult = "OK", Pushes, hand' = "eos"
      PROVE  Len(q') = 0 /\ eos /\ Queued("eos") /\ upc = "idle"
  <2>1. PICK n \in 1..Len(q) : hand' = q[n] /\ Len(q') = Len(q) - n
    BY <1>5 DEF Pushes
  <2>2. n = Len(q) /\ eos /\ Queued("eos")
    BY <1>1, <1>5, <2>1 DEF EosInv, Queued
  <2>3. upc \notin {"call"} \cup Chaining \cup Waiting
    BY <1>1, <1>5, <2>2 DEF EosInv, Restarting
  <2> QED
    BY <1>1, <2>1, <2>2, <2>3 DEF UpPCs, Chaining, Waiting
<1>6. hand' = "eos" => Len(q') = 0 /\ eos' /\ upc' = "idle"
  <2>1. hand = "eos" /\ hand' = "eos" => Len(q') = 0 /\ eos /\ upc = "idle"
    BY <1>1, <1>2 DEF EosInv
  <2> QED
    BY <1>5, <2>1 DEF Woken
<1>7. item' \in Restarting => ~Queued("eos")' /\ hand' # "eos"
  <2>1. Queued("eos")' => Queued("eos")
    BY <1>3 DEF Queued
  <2> QED
    BY <1>1, <1>5, <2>1 DEF EosInv, Queued
<1>8. /\ upc' = "call" /\ item' # "start" => ~eos' \/ srcresult' = "FLUSHING"
      /\ upc' \in Chaining \cup Waiting => ~eos'
  BY <1>1 DEF EosInv, Woken, Chaining, Waiting
<1> QED
  BY <1>4, <1>6, <1>7, <1>8 DEF EosInv

LEMMA BoundedFrame ==
  ASSUME ItemInv, Fewer, Woken
  PROVE  Bounded'
<1>1. Len(q) \in Nat /\ Len(q') \in Nat /\ Len(q') <= Len(q) /\ Bounded /\ Room \in Nat
  BY LenProperties, Lengths, QueueAssumption DEF Fewer, ItemInv
<1> QED
  BY <1>1 DEF Bounded, Woken, Chaining

LEMMA RefsFrame ==
  ASSUME ItemInv, Woken, UNCHANGED item, lpc' \in {"push", "refused"} <=> hand' # "none"
  PROVE  Refs'
BY DEF ItemInv, Refs, Woken, Chaining, Waiting

LEMMA HandTypes ==
  ASSUME ItemInv, hand' \in {hand, "none"} \/ (srcresult = "OK" /\ Pushes)
  PROVE  hand' \in AllKinds \cup {"none"}
BY Lengths DEF ItemInv, ItemTypes, Pushes

LEMMA ItemsLoop ==
  ASSUME Protocol, ItemInv, LoopStep
  PROVE  ItemInv'
<1>1. QuietInv'
  BY LoopIsQuiet DEF ItemInv
<1>2. LoopEffect
  BY LoopItems, PushedItems, GiveUpItems DEF LoopStep
<1>3. UNCHANGED <<max, orig, item, fpc, apc, sink, src>> /\ (lpc # "idle" \/ task = "STARTED")
  BY DEF LoopStep, Loop, Pushed, GiveUp, LoopGoto, conVars, envVars
<1>4. ItemTypes'
  BY <1>2, <1>3, HandTypes DEF LoopEffect, Fewer, ItemInv, ItemTypes
<1>5. Refs'
  BY <1>2, <1>3, RefsFrame DEF LoopEffect
<1>6. EosInv'
  <2>1. EosInv /\ eos \in BOOLEAN
    BY DEF ItemInv, QuietInv, UseInv, QTypes
  <2> QED
    BY <1>2, <1>3, <2>1, EosFrame DEF LoopEffect, EosInv, EosSeen
<1>7. Bounded' /\ LevelExact'
  BY <1>2, BoundedFrame DEF LoopEffect, Fewer, LevelExact
<1>8. Pads'
  <2>1. Pads /\ Len(q) \in Nat /\ Len(q') \in Nat /\ Len(q') <= Len(q)
        /\ \A i \in 1..Len(q') : q'[i] = q[i + (Len(q) - Len(q'))]
    BY <1>2, LenProperties, Lengths DEF ItemInv, LoopEffect, Fewer
  <2>2. apc \notin {"sinkOff", "sink", "drain", "off"}
    BY <1>3, <2>1 DEF Pads
  <2>3. CASE apc = "sinkOn"
    <3>1. srcresult = "OK" /\ hand \in {"none", "query"} /\ \A i \in 1..Len(q) : q[i] = "query"
      BY <2>1, <2>3 DEF Pads
    <3>2. \A i \in 1..Len(q') : q'[i] = "query"
      <4>1. ASSUME NEW i \in 1..Len(q') PROVE i + (Len(q) - Len(q')) \in 1..Len(q)
        BY <2>1
      <4> QED
        BY <2>1, <3>1, <4>1
    <3>3. srcresult' = "OK" /\ hand' \in {"none", "query"}
      BY <1>2, <3>1 DEF LoopEffect, Pushes
    <3> QED
      BY <1>3, <2>1, <2>3, <3>2, <3>3 DEF Pads
  <2>4. CASE apc # "sinkOn"
    BY <1>2, <1>3, <2>1, <2>2, <2>4 DEF Pads, LoopEffect, Woken
  <2> QED
    BY <2>3, <2>4
<1> QED
  BY <1>1, <1>4, <1>5, <1>6, <1>7, <1>8 DEF ItemInv

-----------------------------------------------------------------------------
(* The streaming thread.                                                   *)

(* It goes on with its call, or leaves it, and adds nothing.               *)
LEMMA UpMoves ==
  ASSUME ItemInv, QuietInv', NEW pc, UpGoto(pc), upc # "idle", item # "start",
         \/ pc = "idle"
         \/ pc \in Chaining /\ upc \in {"call"} \cup Chaining /\ item \in Data /\ ~eos
         \/ pc \in Waiting /\ upc \in Waiting
  PROVE  ItemInv'
<1>1. /\ UNCHANGED <<max, orig, min, q, level, srcresult, eos, task, lpc, hand, fpc, apc, sink, src>>
      /\ upc' = pc /\ item' = IF pc = "idle" THEN "none" ELSE item
  BY DEF UpGoto, conVars, lvVars, resVars, loopVars, envVars
<1>2. ItemTypes' /\ LevelExact'
  BY <1>1 DEF ItemInv, ItemTypes, LevelExact
<1>3. Refs'
  BY <1>1 DEF ItemInv, Refs, Chaining, Waiting
<1>4. Pads'
  BY <1>1 DEF ItemInv, Pads
<1>5. EosInv'
  <2>1. EosInv /\ item # "none"
    BY DEF ItemInv, Refs
  <2> QED
    BY <1>1, <2>1 DEF EosInv, EosSeen, Chaining, Waiting, Restarting, Queued
<1>6. Bounded'
  BY <1>1 DEF ItemInv, Bounded, Chaining, Waiting
<1> QED
  BY <1>2, <1>3, <1>4, <1>5, <1>6 DEF ItemInv

-----------------------------------------------------------------------------
(* It adds its item behind what the queue still holds, where no EOS is.    *)
LEMMA UpAdds ==
  ASSUME Protocol, ItemInv, QuietInv', Added, upc \in {"call"} \cup Chaining,
         ~Queued("eos"), hand # "eos", item # "none",
         \/ upc' = "idle" /\ item' = "none"
         \/ upc' = "waitQuery" /\ item' = "query" /\ item = "query",
         LoopStays, UNCHANGED <<max, orig, hand, fpc, apc, src, sink>>
           \/ (sink'.eos /\ UNCHANGED <<max, orig, hand, fpc, apc, src>> /\ sink'.flushing = sink.flushing),
         min' \in {min, orig, 0}, eos' = (item = "eos"), item = "eos" => sink'.eos,
         UNCHANGED task \/ src.active, srcresult = "FLUSHING" => UNCHANGED srcresult \/ src.active,
         fpc # "stop", srcresult = "OK" => srcresult' = "OK",
         apc \in {"drain", "off"} => /\ UNCHANGED srcresult
                                     /\ srcresult = "FLUSHING" => apc = "drain"
                                     /\ srcresult = "OK" => item = "query"
  PROVE  ItemInv'
<1>1. /\ q' \in Seq(AllKinds) /\ Len(q') \in 1..(Len(q) + 1) /\ Len(q) \in Nat /\ Len(q') \in Nat
      /\ \A i \in 1..(Len(q') - 1) : q'[i] = q[i + (Len(q) + 1 - Len(q'))]
      /\ q'[Len(q')] = item /\ level' = TotalWeight(q')
  BY Lengths, LenProperties DEF Added, ItemInv
<1>2. UNCHANGED <<max, orig, hand, fpc, apc, src>> /\ sink'.flushing = sink.flushing
  OBVIOUS
<1>3. ItemTypes' /\ LevelExact'
  BY <1>1, <1>2 DEF ItemInv, ItemTypes, LevelExact, AllKinds
<1>4. Refs'
  BY <1>2 DEF ItemInv, Refs, LoopStays, Chaining, Waiting
<1>5. apc = "sinkOn" \/ (apc \in {"drain", "off"} /\ srcresult = "OK") =>
        \A i \in 1..Len(q') : q'[i] = "query"
  <2> SUFFICES ASSUME apc = "sinkOn" \/ (apc \in {"drain", "off"} /\ srcresult = "OK"),
                      NEW i \in 1..Len(q')
               PROVE  q'[i] = "query"
    OBVIOUS
  <2>1. item = "query" /\ \A j \in 1..Len(q) : q[j] = "query"
    BY DEF ItemInv, Pads
  <2>2. CASE i = Len(q')
    BY <1>1, <2>1, <2>2
  <2>3. CASE i # Len(q')
    <3>1. i \in 1..(Len(q') - 1) /\ i + (Len(q) + 1 - Len(q')) \in 1..Len(q)
      BY <1>1, <2>3
    <3> QED
      BY <1>1, <2>1, <3>1
  <2> QED
    BY <2>2, <2>3
<1>6. Pads'
  <2>1. apc \in {"src", "stop", "join", "sinkOff", "sink", "drain", "off"} => UNCHANGED task
    BY DEF ItemInv, Pads
  <2>2. srcresult = "OK" /\ apc \in {"drain", "off"} => ~eos' /\ item' \in {"none", "query"}
    <3>1. item # "eos" => ~eos'
      OBVIOUS
    <3>2. srcresult = "OK" /\ apc \in {"drain", "off"} => item = "query"
      OBVIOUS
    <3> QED
      BY <3>1, <3>2
  <2> QED
    BY <1>2, <1>5, <2>1, <2>2 DEF ItemInv, Pads, LoopStays
<1>7. ASSUME NEW i \in 1..Len(q'), q'[i] = "eos"
      PROVE  i = Len(q') /\ item = "eos"
  <2>1. CASE i = Len(q')
    BY <1>1, <1>7, <2>1
  <2>2. CASE i # Len(q')
    <3>1. i \in 1..(Len(q') - 1) /\ i + (Len(q) + 1 - Len(q')) \in 1..Len(q)
      BY <1>1, <2>2
    <3> QED
      BY <1>1, <1>7, <3>1 DEF Queued
  <2> QED
    BY <2>1, <2>2
<1>8. EosInv'
  <2>1. \A i \in 1..Len(q') : q'[i] = "eos" => i = Len(q') /\ eos'
    BY <1>7
  <2>2. upc' = "waitQuery" => ~eos'
    OBVIOUS
  <2> QED
    BY <1>2, <2>1, <2>2 DEF EosInv, EosSeen, Chaining, Waiting, Restarting
<1>9. Bounded'
  <2>1. Len(q) < Room /\ Room \in Nat
    BY QueueAssumption DEF ItemInv, Bounded
  <2>2. Len(q') <= Room
    BY <1>1, <2>1
  <2> QED
    BY <2>2 DEF Bounded, Chaining
<1> QED
  BY <1>3, <1>4, <1>6, <1>8, <1>9 DEF ItemInv

(* What the chain function does, once it is known to wait for nothing.     *)
LEMMA ChainCases ==
  ASSUME Protocol, ItemInv, Chain
  PROVE  /\ item \in Data /\ upc \in {"call"} \cup Chaining
         /\ \/ UpGoto("idle")
            \/ /\ ~eos /\ \E pc \in {"running", "overrun", "waitDel"} : UpGoto(pc)
            \/ /\ Added /\ SignalAdd /\ upc' = "idle" /\ item' = "none"
               /\ srcresult = "OK" /\ ~eos /\ ~Queued("eos") /\ hand # "eos"
               /\ UNCHANGED <<max, orig, min, srcresult, eos, handled, drained, task, hand,
                             fpc, apc, sink, src>>
<1>1. item \in Data /\ upc \in {"call"} \cup Chaining /\ item \in AllKinds
  BY DEF Chain, Chaining, Data, AllKinds
<1> DEFINE refused == \/ srcresult # "OK"
                      \/ upc = "call" /\ (eos \/ unexpected)
<1>2. ~refused => srcresult = "OK" /\ ~eos /\ ~Queued("eos") /\ hand # "eos"
  <2>1. ~refused => ~eos
    BY <1>1 DEF ItemInv, EosInv
  <2> QED
    BY <2>1 DEF ItemInv, EosInv, Queued
<1>3. conf.leaky \in {"no", "upstream", "downstream"}
  BY QueueAssumption DEF ItemInv, QuietInv, UseInv, QTypes
<1>4. \/ UpGoto("idle")
      \/ ~refused /\ \E pc \in {"running", "overrun", "waitDel"} : UpGoto(pc)
      \/ ~refused /\ (Enqueue \/ LeakDownstream)
  BY <1>3 DEF Chain
<1>5. CASE ~refused /\ (Enqueue \/ LeakDownstream)
  <2>1. PICK n \in 0..Len(q) : EnqueueBehind(SubSeq(q, n + 1, Len(q)), Rest(q, n))
    <3>1. CASE Enqueue
      BY <3>1, WholeRest DEF Enqueue
    <3>2. CASE LeakDownstream
      <4>1. Leaks(max) \in 0..Len(q)
        BY LeaksIn, QueueAssumption DEF ItemInv, ItemTypes
      <4> QED
        BY <3>2, <4>1, Levels DEF LeakDownstream
    <3> QED
      BY <1>5, <3>1, <3>2
  <2>2. UNCHANGED <<max, orig, min, srcresult, eos, handled, drained, task, hand, fpc, apc, sink, src>>
    BY <1>5 DEF Enqueue, LeakDownstream, conVars, resVars, envVars
  <2>3. Added /\ SignalAdd /\ upc' = "idle" /\ item' = "none"
    <3>1. Len(q) < Room
      BY <1>1 DEF ItemInv, Bounded
    <3> QED
      BY <1>1, <2>1, <3>1, AppendAdds DEF EnqueueBehind
  <2> QED
    BY <1>1, <1>2, <1>5, <2>2, <2>3
<1> QED
  BY <1>1, <1>2, <1>4, <1>5

LEMMA ItemsChain ==
  ASSUME Protocol, ItemInv, Chain
  PROVE  ItemInv'
<1>1. QuietInv'
  BY UpIsQuiet DEF ItemInv, UpStep
<1>2. /\ item \in Data /\ upc \in {"call"} \cup Chaining /\ upc # "idle"
      /\ item # "start" /\ item # "eos" /\ item # "none" /\ item # "query"
  BY ChainCases DEF Chaining, Data
<1>3. CASE UpGoto("idle")
  BY <1>1, <1>2, <1>3, UpMoves
<1>4. ASSUME ~eos, NEW pc \in {"running", "overrun", "waitDel"}, UpGoto(pc)
      PROVE  ItemInv'
  <2>1. pc \in Chaining
    BY DEF Chaining
  <2> QED
    BY <1>1, <1>2, <1>4, <2>1, UpMoves
<1>5. CASE /\ Added /\ SignalAdd /\ upc' = "idle" /\ item' = "none"
           /\ srcresult = "OK" /\ ~eos /\ ~Queued("eos") /\ hand # "eos"
           /\ UNCHANGED <<max, orig, min, srcresult, eos, task, hand, fpc, apc, sink, src>>
  <2>1. LoopStays
    BY <1>5, LoopAlone DEF ItemInv, QuietInv, UseInv
  <2>2. eos' = (item = "eos")
    BY <1>2, <1>5 DEF ItemInv, QuietInv, UseInv, QTypes
  <2>3. fpc # "stop" /\ apc \notin {"drain", "off"}
    BY <1>2, <1>5 DEF ItemInv, Pads
  <2> QED
    BY <1>1, <1>2, <1>5, <2>1, <2>2, <2>3, UpAdds
<1> QED
  BY <1>3, <1>4, <1>5, ChainCases

(* EOS, STREAM_START, SEGMENT and other events.                            *)
LEMMA EventCases ==
  ASSUME Protocol, ItemInv, Event
  PROVE  /\ upc = "call" /\ item \in AllKinds /\ item \notin Data \cup {"query", "none"}
         /\ UNCHANGED <<handled, drained, hand, fpc, apc, src>>
         /\ \/ UpGoto("idle") /\ item # "start"
            \/ /\ Added /\ SignalAdd /\ upc' = "idle" /\ item' = "none"
               /\ ~Queued("eos") /\ hand # "eos" /\ eos' = (item = "eos")
               /\ item = "eos" => sink'.eos
               /\ UNCHANGED sink \/ (sink'.eos /\ sink'.flushing = sink.flushing)
               /\ UNCHANGED <<max, orig>> /\ min' \in {min, orig, 0}
               /\ UNCHANGED task \/ (src.active /\ task' = "STARTED")
               /\ \/ UNCHANGED srcresult /\ srcresult # "EOS"
                  \/ srcresult' = "OK" /\ srcresult = "EOS"
                  \/ srcresult' = "OK" /\ eos /\ src.active
               /\ eos /\ src.active => task' = "STARTED"
<1>1. upc = "call" /\ item \in AllKinds /\ item \notin Data \cup {"query", "none"}
  BY DEF Event, ItemInv, ItemTypes, Refs
<1>2. UNCHANGED <<max, orig, handled, drained, hand, fpc, apc, src>>
  <2>1. UNCHANGED <<max, orig, handled, fpc, apc, src>>
    BY DEF Event, conVars
  <2> QED
    BY <2>1 DEF Event, loopVars
<1> DEFINE r == IF srcresult = "EOS" /\ item \in {"start", "segment"} THEN "OK" ELSE srcresult
           restart == eos /\ item \in {"start", "segment"}
           refused == \/ r # "OK" /\ item \notin {"start", "segment"}
                      \/ eos /\ ~restart
<1>3. CASE refused
  <2>1. /\ upc' = "idle" /\ item' = "none"
        /\ UNCHANGED <<lvVars, resVars, loopVars, sink>>
    BY <1>3 DEF Event
  <2>2. UpGoto("idle")
    BY <1>2, <2>1 DEF UpGoto, Event, envVars, conVars
  <2>3. item # "start"
    BY <1>3
  <2> QED
    BY <1>1, <1>2, <2>2, <2>3
<1>4. CASE ~refused
  <2>1. /\ srcresult' = IF restart /\ src.active THEN "OK" ELSE r
        /\ IF restart /\ src.active THEN StartTask ELSE UNCHANGED task
        /\ eos' = (item = "eos" \/ (eos /\ ~restart))
        /\ sink' = [sink EXCEPT !.eos = @ \/ item = "eos"]
        /\ IF item = "eos" /\ conf.flushOnEos
           THEN EnqueueBehind(<<>>, 0) /\ min' = orig
           ELSE EnqueueBehind(q, level) /\ min' = IF item = "eos" THEN 0 ELSE min
    BY <1>4 DEF Event
  <2>2. /\ UNCHANGED task \/ (src.active /\ task' = "STARTED")
        /\ eos /\ src.active => task' = "STARTED"
        /\ min' \in {min, orig, 0}
    BY <1>4, <2>1 DEF StartTask
  <2>3. \/ UNCHANGED srcresult /\ srcresult # "EOS"
        \/ srcresult' = "OK" /\ srcresult = "EOS"
        \/ srcresult' = "OK" /\ eos /\ src.active
    BY <1>4, <2>1
  <2>4. ~Queued("eos") /\ hand # "eos" /\ eos' = (item = "eos")
    <3>1. eos => item \in Restarting
      BY <1>4 DEF Restarting
    <3>2. ~Queued("eos") /\ hand # "eos"
      BY <3>1 DEF ItemInv, EosInv, Queued
    <3>3. eos' = (item = "eos")
      BY <1>4, <2>1
    <3> QED
      BY <3>2, <3>3
  <2>5. PICK n \in 0..Len(q) : EnqueueBehind(SubSeq(q, n + 1, Len(q)), Rest(q, n))
    BY <2>1, WholeRest
  <2>6. Added /\ upc' = "idle" /\ item' = "none" /\ SignalAdd
    <3>1. Len(q) < Room
      BY <1>1 DEF ItemInv, Bounded
    <3> QED
      BY <1>1, <2>5, <3>1, AppendAdds DEF EnqueueBehind
  <2>7. /\ item = "eos" => sink'.eos
        /\ UNCHANGED sink \/ (sink'.eos /\ sink'.flushing = sink.flushing)
    <3>1. sink \in [active : BOOLEAN, flushing : BOOLEAN, eos : BOOLEAN]
      BY DEF ItemInv, QuietInv, UseInv, QTypes
    <3>2. sink'.flushing = sink.flushing /\ sink'.eos = (sink.eos \/ item = "eos")
      BY <2>1, <3>1
    <3>3. ~(sink.eos \/ item = "eos") => sink' = sink
      BY <2>1, <3>1
    <3> QED
      BY <3>2, <3>3
  <2> QED
    BY <1>1, <1>2, <2>2, <2>3, <2>4, <2>6, <2>7
<1> QED
  BY <1>3, <1>4

LEMMA ItemsEvent ==
  ASSUME Protocol, ItemInv, Event
  PROVE  ItemInv'
<1>1. QuietInv'
  BY UpIsQuiet DEF ItemInv, UpStep
<1>2. /\ upc = "call" /\ upc # "idle" /\ item # "none" /\ fpc # "stop"
      /\ apc \in {"drain", "off"} => apc = "drain" /\ srcresult = "FLUSHING" /\ ~src.active
  BY EventCases DEF ItemInv, Pads
<1>3. CASE UpGoto("idle") /\ item # "start"
  BY <1>1, <1>2, <1>3, UpMoves
<1>4. CASE ~(UpGoto("idle") /\ item # "start")
  <2>1. /\ Added /\ SignalAdd /\ upc' = "idle" /\ item' = "none"
        /\ ~Queued("eos") /\ hand # "eos" /\ eos' = (item = "eos")
        /\ item = "eos" => sink'.eos
        /\ UNCHANGED sink \/ (sink'.eos /\ sink'.flushing = sink.flushing)
        /\ UNCHANGED <<max, orig, hand, fpc, apc, src>> /\ min' \in {min, orig, 0}
    BY <1>4, EventCases
  <2>2. /\ UNCHANGED task \/ src.active
        /\ srcresult = "FLUSHING" => UNCHANGED srcresult \/ src.active
        /\ srcresult = "OK" => srcresult' = "OK"
        /\ srcresult = "FLUSHING" /\ ~src.active => UNCHANGED srcresult
    BY <1>4, EventCases
  <2>3. LoopStays
    BY <2>1, LoopAlone DEF ItemInv, QuietInv, UseInv
  <2> QED
    BY <1>1, <1>2, <2>1, <2>2, <2>3, UpAdds
<1> QED
  BY <1>3, <1>4

(* A query, while the queue takes any.                                     *)
LEMMA QueryCases ==
  ASSUME Protocol, ItemInv, Query
  PROVE  /\ upc = "call" /\ item = "query"
         /\ \/ UpGoto("idle")
            \/ /\ srcresult = "OK" /\ Added /\ SignalAdd /\ upc' = "waitQuery"
               /\ ~eos /\ ~Queued("eos") /\ hand # "eos"
               /\ UNCHANGED <<max, orig, min, srcresult, eos, handled, drained, task, hand, item,
                             fpc, apc, sink, src>>
<1>1. upc = "call" /\ item = "query" /\ item \in AllKinds
  BY DEF Query, AllKinds
<1>2. CASE srcresult = "OK" /\ ~UpGoto("idle")
  <2>1. /\ q' = Append(q, item) /\ SignalAdd /\ upc' = "waitQuery" /\ UNCHANGED level
        /\ UNCHANGED <<max, orig, min, srcresult, eos, handled, drained, task, hand, item,
                      fpc, apc, sink, src>>
    BY <1>2 DEF Query, conVars, resVars, envVars
  <2>2. ~eos /\ ~Queued("eos") /\ hand # "eos"
    BY <1>1, <1>2 DEF ItemInv, EosInv, Queued
  <2>3. Len(q) < Room /\ Len(q) \in Nat
    BY <1>1, Lengths DEF ItemInv, Bounded
  <2>4. level' = (Rest(q, 0) + Weight(item)) % Word
    <3>1. Rest(q, 0) = level /\ level \in Nat /\ level <= 2 * Len(q)
      <4>1. q \in Seq(AllKinds) /\ 0 \in 0..Len(q) /\ Rest(q, 0) = level
        BY WholeRest DEF ItemInv, ItemTypes
      <4> QED
        BY <2>3, <4>1, RestBehind
    <3>2. Weight(item) = 0
      BY <1>1 DEF Weight
    <3>3. level < Word /\ Word \in Nat
      BY <2>3, <3>1, QueueAssumption DEF Protocol
    <3>4. ASSUME NEW a \in Nat, a < Word PROVE (a + 0) % Word = a
      BY <3>3, <3>4
    <3> QED
      BY <2>1, <3>1, <3>2, <3>3, <3>4
  <2>5. Added
    BY <1>1, <2>1, <2>3, <2>4, WholeRest, AppendAdds
  <2> QED
    BY <1>1, <1>2, <2>1, <2>2, <2>5
<1> QED
  BY <1>1, <1>2 DEF Query

LEMMA ItemsQuery ==
  ASSUME Protocol, ItemInv, Query
  PROVE  ItemInv'
<1>1. QuietInv'
  BY UpIsQuiet DEF ItemInv, UpStep
<1>2. upc = "call" /\ item = "query"
  BY QueryCases
<1>3. CASE UpGoto("idle")
  BY <1>1, <1>2, <1>3, UpMoves
<1>4. CASE /\ srcresult = "OK" /\ Added /\ SignalAdd /\ upc' = "waitQuery"
           /\ ~eos /\ ~Queued("eos") /\ hand # "eos"
           /\ UNCHANGED <<max, orig, min, srcresult, eos, task, hand, item, fpc, apc, sink, src>>
  <2>1. LoopStays
    BY <1>4, LoopAlone DEF ItemInv, QuietInv, UseInv
  <2>2. fpc # "stop"
    BY <1>2 DEF ItemInv, Pads
  <2>3. eos' = (item = "eos")
    BY <1>2, <1>4 DEF ItemInv, QuietInv, UseInv, QTypes
  <2> QED
    BY <1>1, <1>2, <1>4, <2>1, <2>2, <2>3, UpAdds
<1> QED
  BY <1>3, <1>4, QueryCases

-----------------------------------------------------------------------------
LEMMA ItemsWoken ==
  ASSUME Protocol, ItemInv, QueryWoken
  PROVE  ItemInv'
<1>1. QuietInv'
  BY UpIsQuiet DEF ItemInv, UpStep
<1>2. item = "query" /\ item # "start" /\ upc = "wokenQuery" /\ upc \in Waiting /\ upc # "idle"
  BY DEF QueryWoken, ItemInv, Refs, Waiting
<1>3. CASE UpGoto("waitQuery")
  BY <1>1, <1>2, <1>3, UpMoves DEF Waiting
<1>4. CASE upc' = "idle" /\ item' = "none" /\ UNCHANGED <<conVars, lvVars, resVars, loopVars, envVars>>
  <2>1. UNCHANGED <<max, orig, min, q, level, srcresult, eos, task, lpc, hand, fpc, apc, sink, src>>
    BY <1>4 DEF conVars, lvVars, resVars, loopVars, envVars
  <2>2. ItemTypes' /\ LevelExact'
    BY <1>4, <2>1 DEF ItemInv, ItemTypes, LevelExact
  <2>3. Refs' /\ Pads'
    BY <1>4, <2>1 DEF ItemInv, Refs, Pads, Chaining, Waiting
  <2>4. EosInv' /\ Bounded'
    BY <1>2, <1>4, <2>1 DEF ItemInv, EosInv, Bounded, Chaining, Waiting, Restarting
  <2> QED
    BY <1>1, <2>2, <2>3, <2>4 DEF ItemInv
<1> QED
  BY <1>3, <1>4 DEF QueryWoken

LEMMA ItemsSend ==
  ASSUME Protocol, ItemInv, NEW k \in Kinds, Send(k)
  PROVE  ItemInv'
<1>1. QuietInv'
  BY SendIsQuiet DEF ItemInv, Protocol
<1>2. /\ upc = "idle" /\ upc' = "call" /\ item' = k /\ Len(q) < Room
      /\ k = "query" \/ ~sink.flushing
      /\ k = "start" \/ ~sink.eos
      /\ k \in Restarting => hand # "eos" /\ "eos" \notin ToSet(q)
      /\ fpc # "stop"
      /\ UNCHANGED <<max, orig, min, q, level, srcresult, eos, task, lpc, hand, fpc, apc, src>>
  BY DEF Send, conVars, lvVars, resVars, loopVars, Protocol, Restarting
<1>3. k \in AllKinds /\ k # "none"
  BY QueueAssumption DEF AllKinds
<1>4. sink'.flushing = sink.flushing /\ sink'.active = sink.active
      /\ sink'.eos = (sink.eos /\ k # "start")
  BY DEF Send, ItemInv, QuietInv, UseInv, QTypes
<1>5. ItemTypes' /\ LevelExact'
  BY <1>2, <1>3 DEF ItemInv, ItemTypes, LevelExact
<1>6. Refs' /\ Bounded'
  BY <1>2, <1>3 DEF ItemInv, Refs, Bounded, Chaining, Waiting
<1>7. Pads'
  <2>1. apc \in {"drain", "off", "sinkOn"} => k = "query"
    BY <1>2 DEF ItemInv, QuietInv
  <2> QED
    BY <1>2, <1>4, <2>1 DEF ItemInv, Pads
<1>8. EosInv'
  <2>1. item = "none" /\ EosInv
    BY <1>2 DEF ItemInv, Refs
  <2>2. k \in Restarting => ~Queued("eos") /\ hand # "eos"
    BY <1>2, Items DEF ItemInv
  <2>3. eos /\ k # "start" => /\ fpc \in {"lock", "stop"} \/ apc \in {"sink", "drain", "off"}
                              /\ lpc = "idle" /\ srcresult = "FLUSHING"
    BY <1>2, <2>1 DEF EosInv, EosSeen, ItemInv, QuietInv, Pads
  <2>4. hand # "eos"
    <3>1. hand = "eos" => eos /\ hand # "none"
      BY <2>1 DEF EosInv
    <3>2. lpc = "idle" => hand = "none"
      BY DEF ItemInv, Refs
    <3> QED
      BY <2>2, <2>3, <3>1, <3>2 DEF Restarting
  <2>5. eos' => EosSeen'
    BY <1>2, <2>3 DEF EosSeen
  <2>6. upc' = "call" /\ item' # "start" => ~eos' \/ srcresult' = "FLUSHING"
    BY <1>2, <2>3
  <2> QED
    BY <1>2, <2>1, <2>2, <2>4, <2>5, <2>6 DEF EosInv, Queued, Chaining, Waiting
<1> QED
  BY <1>1, <1>5, <1>6, <1>7, <1>8 DEF ItemInv

-----------------------------------------------------------------------------
(* The other threads add nothing.                                          *)
LEMMA OthersFrame ==
  ASSUME ItemInv, QuietInv', Pads', Fewer, Woken, LoopStays, UNCHANGED <<hand, item>>,
         max' \in MaxSizes, orig' \in MinSizes, min' \in MinSizes \cup {0},
         UNCHANGED eos \/ (~eos' /\ \A i \in 1..Len(q') : q'[i] # "eos"),
         hand = "eos" => UNCHANGED eos,
         eos' => EosSeen',
         eos' /\ srcresult = "FLUSHING" => srcresult' = "FLUSHING"
  PROVE  ItemInv'
<1>1. ItemTypes' /\ LevelExact'
  BY DEF ItemInv, ItemTypes, Fewer, LevelExact
<1>2. Refs'
  <2>1. lpc' \in {"push", "refused"} <=> hand' # "none"
    BY DEF LoopStays, ItemInv, Refs
  <2> QED
    BY <2>1, RefsFrame
<1>3. Bounded'
  BY BoundedFrame
<1>4. EosInv'
  <2>1. eos' \in BOOLEAN
    BY DEF QuietInv, UseInv, QTypes
  <2> QED
    BY <2>1, EosFrame
<1> QED
  BY <1>1, <1>2, <1>3, <1>4 DEF ItemInv

LEMMA ItemsFlush ==
  ASSUME Protocol, ItemInv, FlushStart \/ FlushStop \/ FlushStep
  PROVE  ItemInv'
<1>1. QuietInv' /\ LoopStays
  BY FlushIsQuiet, FlushUses DEF ItemInv, Protocol, QuietInv
<1>2. UNCHANGED <<max, orig, hand, item, apc>>
  BY DEF FlushStart, FlushStop, FlushStep, FlushUnblock, FlushPause, FlushNotify, FlushForward,
         FlushRestart, FlushGoto, conVars
<1>3. max' \in MaxSizes /\ orig' \in MinSizes
  BY <1>2 DEF ItemInv, ItemTypes
<1>4. Pads /\ EosInv /\ min \in MinSizes \cup {0} /\ orig \in MinSizes
  BY DEF ItemInv, ItemTypes
<1>5. sink \in [active : BOOLEAN, flushing : BOOLEAN, eos : BOOLEAN]
      /\ src \in [active : BOOLEAN, flushing : BOOLEAN]
  BY DEF ItemInv, QuietInv, UseInv, QTypes
<1>6. CASE FlushRestart
  <2>1. /\ fpc = "stop" /\ fpc' = "idle" /\ LockedFlush /\ srcresult' = "OK" /\ eos' = FALSE
        /\ UNCHANGED <<sink, src>>
    BY <1>6 DEF FlushRestart, FlushGoto
  <2>2. Fewer /\ Woken /\ Len(q') = 0 /\ min' = orig
    BY <2>1, FlushFewer
  <2>3. /\ apc \notin {"off", "sinkOn"} /\ hand = "none" /\ item = "none"
        /\ lpc = "idle" /\ lpc' = "idle"
    BY <1>6, <2>1 DEF ItemInv, Pads, Refs, QuietInv, FlushRestart
  <2>4. apc \in {"src", "stop", "join", "sinkOff", "sink", "drain", "off"} => UNCHANGED task
    BY <1>4, <1>6 DEF FlushRestart, Pads
  <2>5. \A i \in 1..Len(q') : q'[i] = "query"
    BY <2>2
  <2>6. Pads'
    BY <1>2, <1>4, <2>1, <2>3, <2>4, <2>5 DEF Pads
  <2> QED
    BY <1>1, <1>2, <1>3, <1>4, <2>1, <2>2, <2>3, <2>6, OthersFrame
<1>7. CASE ~FlushRestart
  <2>1. UNCHANGED <<q, level, min, eos>> /\ Woken
    BY <1>7, SignalWakes
    DEF FlushStart, FlushStop, FlushStep, FlushUnblock, FlushPause, FlushNotify, FlushForward,
        lvVars, resVars, Woken
  <2>2. Fewer
    BY <2>1, SameFewer
  <2>3. srcresult' \in {srcresult, "FLUSHING"}
    BY <1>7 DEF FlushStart, FlushStop, FlushStep, FlushUnblock, FlushPause, FlushNotify, FlushForward, resVars
  <2>4. task = "STOPPED" => task' = "STOPPED"
    BY <1>7 DEF FlushStart, FlushStop, FlushStep, FlushUnblock, FlushPause, FlushNotify, FlushForward, PauseTask
  <2>5. src'.active = src.active
        /\ (src'.flushing = src.flushing \/ src'.flushing \/ src.active)
    BY <1>5, <1>7 DEF FlushStart, FlushStop, FlushStep, FlushUnblock, FlushPause, FlushNotify, FlushForward
  <2>6. /\ fpc' = "stop" => upc' = "idle" /\ apc \notin {"sink", "drain", "off", "sinkOn"}
        /\ fpc' = "lock" => ~sink'.flushing
        /\ sink'.eos = sink.eos \/ fpc' \in {"lock", "stop"}
        /\ \/ fpc \notin {"lock", "stop"} \/ fpc' \in {"lock", "stop"}
           \/ fpc = "lock" /\ sink.flushing
        /\ fpc = "idle" => apc \notin {"sink", "drain", "off", "sinkOn"}
    <3>1. CASE FlushStart
      BY <1>5, <3>1 DEF FlushStart, FlushGoto, ItemInv, QuietInv
    <3>2. CASE FlushStop
      BY <1>5, <3>2 DEF FlushStop, FlushGoto
    <3>3. CASE FlushForward
      BY <3>3 DEF FlushForward, FlushGoto, ItemInv, QuietInv
    <3>4. CASE FlushUnblock \/ FlushPause \/ FlushNotify
      BY <3>4 DEF FlushUnblock, FlushPause, FlushNotify, FlushGoto
    <3> QED
      BY <1>7, <3>1, <3>2, <3>3, <3>4 DEF FlushStep
  <2>7. srcresult' = "FLUSHING" \/ srcresult' = srcresult
    BY <2>3
  <2>8. apc = "sinkOn" => srcresult' = srcresult
    BY <1>7
    DEF FlushStart, FlushStop, FlushStep, FlushUnblock, FlushPause, FlushNotify, FlushForward, resVars,
        ItemInv, QuietInv
  <2>9. Pads'
    BY <1>1, <1>2, <1>4, <2>1, <2>4, <2>5, <2>6, <2>7, <2>8 DEF Pads, LoopStays
  <2>10. eos' => EosSeen'
    <3>1. fpc = "lock" => srcresult = "FLUSHING"
      BY DEF ItemInv, QuietInv
    <3> QED
      BY <1>2, <1>4, <2>1, <2>6, <2>7, <3>1 DEF EosInv, EosSeen, Pads
  <2> QED
    BY <1>1, <1>2, <1>3, <1>4, <2>1, <2>2, <2>7, <2>9, <2>10, OthersFrame
<1> QED
  BY <1>6, <1>7

LEMMA ItemsState ==
  ASSUME Protocol, ItemInv, StateStep
  PROVE  ItemInv'
<1>1. QuietInv' /\ LoopStays
  BY StateIsQuiet, StateUses DEF ItemInv, QuietInv
<1>2. UNCHANGED <<max, orig, hand, item, fpc>>
  BY DEF StateStep, SrcDeactivate, SinkDeactivate, Activate, StateGoto, conVars
<1>3. max' \in MaxSizes /\ orig' \in MinSizes
  BY <1>2 DEF ItemInv, ItemTypes
<1>4. Pads /\ EosInv /\ min \in MinSizes \cup {0} /\ orig \in MinSizes /\ Len(q) \in Nat
  BY Lengths DEF ItemInv, ItemTypes
<1>5. sink \in [active : BOOLEAN, flushing : BOOLEAN, eos : BOOLEAN]
      /\ src \in [active : BOOLEAN, flushing : BOOLEAN]
  BY DEF ItemInv, QuietInv, UseInv, QTypes
<1>6. apc = "off" => hand = "none"
  BY DEF ItemInv, Pads, Refs
<1>7. CASE SrcDeactivate
  <2>1. UNCHANGED <<eos, sink>> /\ srcresult' \in {srcresult, "FLUSHING"}
    BY <1>7 DEF SrcDeactivate
  <2>2. Fewer /\ Woken /\ min' \in {min, orig}
    BY <1>7, FlushFewer, SameFewer DEF SrcDeactivate, lvVars, Woken
  <2>3. apc' \in {"src", "stop", "join", "sinkOff"}
    BY <1>7 DEF SrcDeactivate, StateGoto
  <2>4. /\ ~src'.active /\ src'.flushing
        /\ apc' \in {"join", "sinkOff"} => task' = "STOPPED"
        /\ apc' = "sinkOff" => lpc' = "idle"
        /\ fpc = "lock" => ~sink.flushing
    BY <1>1, <1>4, <1>7 DEF SrcDeactivate, StateGoto, Pads, LoopStays
  <2>5. Pads'
    BY <1>2, <1>4, <2>1, <2>2, <2>3, <2>4 DEF Pads, Woken
  <2>6. eos' => EosSeen'
    <3>1. apc \notin {"sink", "drain", "off"}
      BY <1>7 DEF SrcDeactivate
    <3> QED
      BY <1>2, <1>4, <2>1, <3>1 DEF EosInv, EosSeen
  <2> QED
    BY <1>1, <1>2, <1>3, <1>4, <2>1, <2>2, <2>5, <2>6, OthersFrame
<1>8. CASE SinkDeactivate
  <2>1. UNCHANGED <<eos, src, task, lpc>> /\ srcresult' \in {srcresult, "FLUSHING"}
        /\ apc \in {"sinkOff", "sink", "drain"} /\ apc' \in {"sink", "drain", "off"}
        /\ (apc' = "off" => LockedFlush /\ upc = "idle")
    BY <1>8 DEF SinkDeactivate, StateGoto
  <2>2. Fewer /\ Woken /\ min' \in {min, orig} /\ (apc' = "off" => Len(q') = 0)
    BY <1>8, <2>1, FlushFewer, SameFewer, SignalWakes DEF SinkDeactivate, lvVars, Woken, StateGoto
  <2>3. ~src'.active /\ src'.flushing /\ task' = "STOPPED" /\ lpc' = "idle"
    BY <1>4, <2>1 DEF Pads
  <2>4. /\ apc' \in {"sink", "drain"} => UNCHANGED sink \/ sink'.eos = sink.eos
        /\ apc' = "drain" => srcresult' = "FLUSHING"
        /\ apc' = "off" => /\ item' = "none" /\ fpc # "stop" /\ apc = "drain" /\ UNCHANGED srcresult
    BY <1>2, <1>5, <1>8, <2>1 DEF SinkDeactivate, StateGoto, ItemInv, Refs
  <2>5. Pads'
    BY <1>2, <1>4, <2>1, <2>2, <2>3, <2>4 DEF Pads, Woken
  <2>6. eos' => EosSeen'
    BY <1>2, <1>4, <2>1, <2>4 DEF EosInv, EosSeen, Pads
  <2> QED
    BY <1>1, <1>2, <1>3, <1>4, <2>1, <2>2, <2>5, <2>6, OthersFrame
<1>9. CASE Activate
  <2>1. srcresult' = "OK" /\ eos' = FALSE /\ UNCHANGED <<q, level, min, lpc, upc>>
        /\ \/ apc = "off" /\ apc' = "sinkOn"
           \/ apc = "sinkOn" /\ apc' = "on"
    <3>1. UNCHANGED <<q, level, min, lpc, upc>>
      BY <1>9 DEF Activate, lvVars
    <3> QED
      BY <1>9, <3>1 DEF Activate, StateGoto
  <2>2. Fewer /\ Woken
    BY <2>1, SameFewer DEF Woken
  <2>3. fpc = "idle"
    BY <1>9, <2>1 DEF Activate, ItemInv, QuietInv
  <2>4. \A i \in 1..Len(q) : q[i] = "query"
    BY <1>4, <2>1 DEF Pads
  <2>5. hand # "eos" /\ hand \in {"none", "query"} /\ item \in {"none", "query"}
    BY <1>4, <1>6, <2>1 DEF Pads
  <2>6. Pads'
    BY <1>2, <2>1, <2>3, <2>4, <2>5 DEF Pads
  <2>7. \A i \in 1..Len(q') : q'[i] # "eos"
    BY <2>1, <2>4
  <2> QED
    BY <1>1, <1>2, <1>3, <1>4, <2>1, <2>2, <2>5, <2>6, <2>7, OthersFrame
<1> QED
  BY <1>7, <1>8, <1>9 DEF StateStep

LEMMA ItemsOthers ==
  ASSUME Protocol, ItemInv,
         Reconfigure \/ (\E n \in MaxSizes : SetMaxSize(n)) \/ (\E n \in MinSizes : SetMinThreshold(n))
  PROVE  ItemInv'
<1>1. QuietInv' /\ LoopStays /\ UNCHANGED <<fpc, apc, eos, item, sink, src>>
      /\ \/ UNCHANGED <<task, srcresult>>
         \/ /\ ~src.flushing /\ srcresult = "NOT_LINKED"
            /\ srcresult' = "OK" /\ task' = "STARTED"
  <2>1. QuietInv'
    BY QuietNext DEF Next, ItemInv, Protocol
  <2> QED
    BY <2>1, OthersUse DEF ItemInv, QuietInv
<1>2. UNCHANGED hand /\ max' \in MaxSizes /\ orig' \in MinSizes /\ min' \in MinSizes \cup {0}
  BY DEF Reconfigure, SetMaxSize, SetMinThreshold, conVars, lvVars, loopVars, ItemInv, ItemTypes
<1>3. Fewer /\ Woken
  <2>1. CASE UNCHANGED <<q, level>>
    <3>1. Woken
      BY SignalWakes DEF Reconfigure, SetMaxSize, SetMinThreshold, upVars, Woken
    <3> QED
      BY <2>1, <3>1, SameFewer
  <2>2. ASSUME NEW n \in MaxSizes, SetMaxSize(n), Dequeue(Leaks(n))
        PROVE  Fewer /\ Woken
    <3>1. Leaks(n) \in 0..Len(q)
      BY LeaksIn, QueueAssumption
    <3> QED
      BY <2>2, <3>1, DequeueFewer, SignalWakes DEF SetMaxSize
  <2> QED
    BY <2>1, <2>2 DEF Reconfigure, SetMaxSize, SetMinThreshold, lvVars
<1>4. Pads'
  <2>1. Pads /\ Len(q) \in Nat /\ Len(q') \in Nat /\ Len(q') <= Len(q)
        /\ \A i \in 1..Len(q') : q'[i] = q[i + (Len(q) - Len(q'))]
    BY <1>3, LenProperties, Lengths DEF ItemInv, Fewer
  <2>2. \A i \in 1..Len(q') : i + (Len(q) - Len(q')) \in 1..Len(q)
    BY <2>1
  <2>3. (\A i \in 1..Len(q) : q[i] = "query") => \A i \in 1..Len(q') : q'[i] = "query"
    BY <2>1, <2>2
  <2> QED
    BY <1>1, <1>2, <1>3, <2>1, <2>3 DEF Pads, LoopStays, Woken
<1>5. eos' => EosSeen'
  BY <1>1 DEF ItemInv, EosInv, EosSeen
<1> QED
  BY <1>1, <1>2, <1>3, <1>4, <1>5, OthersFrame

LEMMA ItemsNext ==
  ASSUME Protocol, ItemInv, [Next]_vars
  PROVE  ItemInv'
<1>1. CASE UNCHANGED vars
  <2>1. QuietInv'
    BY <1>1, QuietNext DEF Protocol, ItemInv
  <2>2. UNCHANGED <<max, orig, min, q, level, srcresult, eos, task, lpc, hand, upc, item, fpc, apc, sink, src>>
    BY <1>1 DEF vars, conVars, lvVars, resVars, loopVars, upVars, envVars
  <2>3. ItemTypes' /\ Refs' /\ Pads' /\ LevelExact'
    BY <2>2 DEF ItemInv, ItemTypes, Refs, Pads, LevelExact
  <2>4. EosInv' /\ Bounded'
    BY <2>2 DEF ItemInv, EosInv, EosSeen, Bounded, Queued
  <2> QED
    BY <2>1, <2>3, <2>4 DEF ItemInv
<1>2. CASE UpStep
  BY <1>2, ItemsChain, ItemsEvent, ItemsQuery, ItemsWoken DEF UpStep
<1> QED
  BY <1>1, <1>2, ItemsLoop, ItemsSend, ItemsFlush, ItemsState, ItemsOthers DEF Next

LEMMA ItemsInit == Init => ItemInv
<1> SUFFICES ASSUME Init PROVE ItemInv
  OBVIOUS
<1>1. QuietInv
  BY QuietInit
<1>2. q = <<>> /\ q \in Seq(AllKinds) /\ Len(q) = 0 /\ level = TotalWeight(q)
  BY EmptyWeighsNothing DEF Init
<1>3. ItemTypes /\ LevelExact
  BY <1>2 DEF Init, ItemTypes, LevelExact
<1>4. Refs /\ Pads
  BY <1>2 DEF Init, Refs, Pads, Chaining, Waiting
<1>5. EosInv /\ Bounded
  BY <1>2, QueueAssumption DEF Init, EosInv, Bounded, Chaining, Waiting, Restarting
<1> QED
  BY <1>1, <1>3, <1>4, <1>5 DEF ItemInv

(* gstqueue.c:737-775, 1099-1216: at every unlocked moment cur_level is    *)
(* what the items in the queue weigh: no flush, leak, dropped item, EOS or *)
(* state change loses count, also when a flush ends while the pads are     *)
(* being deactivated.  A STREAM_START that comes before the last EOS has   *)
(* left the queue does break it (EarlyStart).                              *)
THEOREM LevelIsExact ==
  ASSUME ~EarlyStart, 2 * Room < Word
  PROVE  Spec => []LevelExact
<1>1. ItemInv /\ [Next]_vars => ItemInv'
  BY ItemsNext DEF Protocol
<1>2. ItemInv => LevelExact
  BY DEF ItemInv
<1> QED
  BY <1>1, <1>2, ItemsInit, PTL DEF Spec

-----------------------------------------------------------------------------
(* The threshold is the one that was set, or lifted for a query or EOS,    *)
(* and no higher than the limit.                                           *)
Limits == min \in {0, orig} /\ (max = 0 \/ orig <= max)

WakeInv == ItemInv /\ Limits /\ NoLostWakeup

Stopping == apc \in {"stop", "join", "sinkOff", "sink"}

(* Nobody's reason to sleep has gone if the limits and what is in the      *)
(* queue are the same, and the result has not become an error.             *)
LEMMA StillAsleep ==
  ASSUME WakeInv,
         lpc' = "waitAdd" => lpc = "waitAdd", upc' = "waitDel" => upc = "waitDel",
         UNCHANGED <<q, level, min, max>>,
         lpc' = "waitAdd" => srcresult' \in {srcresult, "OK"},
         upc' = "waitDel" => srcresult' = "OK" \/ Stopping' \/ (UNCHANGED <<srcresult, apc>>)
  PROVE  NoLostWakeup'
<1>1. UNCHANGED <<IsEmpty, IsFilled>>
  BY DEF IsEmpty, IsFilled
<1> QED
  BY <1>1 DEF WakeInv, NoLostWakeup, Stopping

LEMMA Awake ==
  ASSUME lpc' # "waitAdd", upc' # "waitDel"
  PROVE  NoLostWakeup'
BY DEF NoLostWakeup

LEMMA WakeLoop ==
  ASSUME Protocol, WakeInv, LoopStep
  PROVE  NoLostWakeup'
<1>1. UNCHANGED <<max, apc>> /\ ItemInv
  BY DEF LoopStep, Loop, Pushed, GiveUp, LoopGoto, conVars, envVars, WakeInv
<1>2. ASSUME NEW r, LoopLeaves(r)
      PROVE  NoLostWakeup'
  BY <1>1, <1>2, LeaveEffect, Awake DEF Both
<1>3. ASSUME NEW pc, LoopGoto(pc), pc = "waitAdd" => IsEmpty /\ srcresult = "OK"
      PROVE  NoLostWakeup'
  <2>1. UNCHANGED <<q, level, min, max, srcresult, upc, apc>> /\ lpc' = pc
    BY <1>1, <1>3 DEF LoopGoto, lvVars, resVars
  <2>2. UNCHANGED <<IsEmpty, IsFilled>>
    BY <2>1 DEF IsEmpty, IsFilled
  <2> QED
    BY <1>3, <2>1, <2>2 DEF WakeInv, NoLostWakeup
<1>4. CASE Take
  BY <1>4, SignalWakes, Awake DEF Take, Both
<1>5. CASE Loop
  <2>1. \/ LoopLeaves(srcresult) \/ Take
        \/ srcresult = "OK" /\ IsEmpty /\ \E pc \in {"waitAdd", "underrun"} : LoopGoto(pc)
        \/ LoopGoto("running")
    BY <1>5 DEF Loop
  <2> QED
    BY <1>2, <1>3, <1>4, <2>1
<1>6. CASE GiveUp
  BY <1>3, <1>6 DEF GiveUp
<1>7. ASSUME srcresult = "OK", LoopReturns, UNCHANGED <<q, level>>, Woken
      PROVE  NoLostWakeup'
  BY <1>1, <1>7, StillAsleep DEF LoopReturns, Woken
<1>8. CASE srcresult = "OK" /\ DropUnwanted
  <2>1. lpc' # "waitAdd"
    BY <1>8 DEF DropUnwanted, LoopReturns
  <2>2. upc' # "waitDel"
    <3> SUFFICES ASSUME upc' = "waitDel" PROVE FALSE
      OBVIOUS
    <3>1. q = <<>> /\ upc = "waitDel"
      BY <1>1, <1>8, DropEffect DEF Woken
    <3>2. level = 0
      BY <1>1, <3>1, EmptyWeighsNothing DEF ItemInv, LevelExact
    <3>3. max \in Nat
      BY <1>1, QueueAssumption DEF ItemInv, ItemTypes
    <3> QED
      BY <3>1, <3>2, <3>3 DEF WakeInv, NoLostWakeup, IsFilled
  <2> QED
    BY <2>1, <2>2, Awake
<1>9. CASE Pushed
  <2>1. \/ \E r \in AllResults \cup {"FLUSHING"} : LoopLeaves(r)
        \/ srcresult = "OK" /\ (BufferPushed \/ EventPushed \/ QueryPushed)
    BY <1>9 DEF Pushed, WakeInv, ItemInv, QuietInv, UseInv, QTypes
  <2>2. CASE srcresult = "OK" /\ BufferPushed
    <3>1. \/ LoopReturns /\ UNCHANGED <<q, level, upc>>
          \/ DropUnwanted
          \/ \E r \in PushResults : LoopLeaves(r)
      BY <2>2 DEF BufferPushed
    <3> QED
      BY <1>2, <1>7, <1>8, <2>2, <3>1 DEF Woken
  <2>3. CASE srcresult = "OK" /\ EventPushed
    BY <1>2, <1>7, <2>3 DEF EventPushed, Woken
  <2>4. CASE srcresult = "OK" /\ QueryPushed
    BY <1>7, <2>4, SignalWakes DEF QueryPushed
  <2> QED
    BY <1>2, <2>1, <2>2, <2>3, <2>4
<1> QED
  BY <1>5, <1>6, <1>9 DEF LoopStep

LEMMA WakeUp ==
  ASSUME Protocol, WakeInv, UpStep \/ \E k \in Kinds : Send(k)
  PROVE  NoLostWakeup'
<1>1. ASSUME NEW pc, UpGoto(pc), pc = "waitDel" => IsFilled /\ srcresult = "OK"
      PROVE  NoLostWakeup'
  <2>1. UNCHANGED <<q, level, min, max, srcresult, lpc, apc>> /\ upc' = pc
    BY <1>1 DEF UpGoto, conVars, lvVars, resVars, loopVars, envVars
  <2>2. UNCHANGED <<IsEmpty, IsFilled>>
    BY <2>1 DEF IsEmpty, IsFilled
  <2> QED
    BY <1>1, <2>1, <2>2 DEF WakeInv, NoLostWakeup
<1>2. ASSUME SignalAdd, upc' # "waitDel"
      PROVE  NoLostWakeup'
  BY <1>2, Awake DEF SignalAdd
<1>3. CASE Chain
  <2>1. conf.leaky \in {"no", "upstream", "downstream"}
    BY QueueAssumption DEF WakeInv, ItemInv, QuietInv, UseInv, QTypes
  <2>2. \/ \E pc \in {"idle", "running", "overrun"} : UpGoto(pc)
        \/ srcresult = "OK" /\ IsFilled /\ UpGoto("waitDel")
        \/ Enqueue \/ LeakDownstream
    BY <1>3, <2>1 DEF Chain
  <2>3. CASE Enqueue \/ LeakDownstream
    BY <1>2, <2>3 DEF Enqueue, LeakDownstream, EnqueueBehind
  <2> QED
    BY <1>1, <2>2, <2>3
<1>4. CASE Event
  <2>1. CASE upc' = "idle" /\ item' = "none" /\ UNCHANGED <<lvVars, resVars, loopVars, sink>>
    <3>1. UpGoto("idle")
      BY <1>4, <2>1 DEF UpGoto, Event, envVars, conVars
    <3> QED
      BY <1>1, <3>1
  <2>2. CASE SignalAdd /\ upc' = "idle"
    BY <1>2, <2>2
  <2> QED
    BY <1>4, <2>1, <2>2 DEF Event, EnqueueBehind
<1>5. CASE Query
  BY <1>1, <1>2, <1>5 DEF Query
<1>6. CASE QueryWoken
  <2>1. CASE UpGoto("waitQuery")
    BY <1>1, <2>1
  <2>2. CASE upc' = "idle" /\ UNCHANGED <<conVars, lvVars, resVars, loopVars, envVars>>
    BY <2>2, StillAsleep DEF conVars, lvVars, resVars, loopVars, envVars
  <2> QED
    BY <1>6, <2>1, <2>2 DEF QueryWoken
<1>7. ASSUME NEW k \in Kinds, Send(k)
      PROVE  NoLostWakeup'
  BY <1>7, StillAsleep DEF Send, conVars, lvVars, resVars, loopVars
<1> QED
  BY <1>3, <1>4, <1>5, <1>6, <1>7 DEF UpStep

LEMMA WakeFlush ==
  ASSUME Protocol, WakeInv, FlushStart \/ FlushStop \/ FlushStep
  PROVE  NoLostWakeup'
<1>1. CASE FlushUnblock
  BY <1>1, SignalWakes, Awake DEF FlushUnblock, SignalAdd, Both
<1>2. CASE FlushRestart
  <2>1. lpc = "idle" /\ lpc' = "idle" /\ upc' # "waitDel"
    BY <1>2, FlushFewer DEF FlushRestart, WakeInv, ItemInv, QuietInv, Both
  <2> QED
    BY <2>1, Awake
<1>3. CASE FlushStart \/ FlushStop \/ FlushPause \/ FlushNotify \/ FlushForward
  <2>1. UNCHANGED <<q, level, min, max, srcresult, lpc, apc>>
    BY <1>3 DEF FlushStart, FlushStop, FlushPause, FlushNotify, FlushForward, FlushGoto, lvVars, resVars, conVars
  <2>2. upc' = "waitDel" => upc = "waitDel"
    BY <1>3, SignalWakes DEF FlushStart, FlushStop, FlushPause, FlushNotify, FlushForward, Woken
  <2> QED
    BY <2>1, <2>2, StillAsleep
<1> QED
  BY <1>1, <1>2, <1>3 DEF FlushStep

LEMMA WakeState ==
  ASSUME Protocol, WakeInv, StateStep
  PROVE  NoLostWakeup'
<1>1. Pads /\ ItemInv
  BY DEF WakeInv, ItemInv
<1>2. UNCHANGED max
  BY DEF StateStep, SrcDeactivate, SinkDeactivate, Activate, StateGoto, conVars
<1>3. CASE SrcDeactivate
  <2>1. CASE apc = "join"
    BY <1>1, <1>3, <2>1, FlushFewer, Awake DEF SrcDeactivate, Both
  <2>2. CASE apc = "src"
    <3>1. lpc' # "waitAdd" /\ UNCHANGED <<q, level, min, upc>> /\ apc' = "stop"
      BY <1>3, <2>2 DEF SrcDeactivate, SignalAdd, lvVars, StateGoto
    <3> QED
      BY <1>2, <3>1, StillAsleep DEF Stopping
  <2>3. CASE apc \in {"on", "stop"}
    <3>1. UNCHANGED <<q, level, min, upc, lpc, srcresult>> /\ apc' \in {"src", "join"}
          /\ (apc = "stop" => apc' = "join")
      BY <1>3, <2>3 DEF SrcDeactivate, lvVars, StateGoto
    <3>2. upc' = "waitDel" => srcresult' = "OK" \/ Stopping'
      <4>1. upc = "waitDel" => srcresult = "OK" \/ apc = "stop"
        BY <2>3 DEF WakeInv, NoLostWakeup
      <4> QED
        BY <3>1, <4>1 DEF Stopping
    <3> QED
      BY <1>2, <3>1, <3>2, StillAsleep
  <2> QED
    BY <1>3, <2>1, <2>2, <2>3 DEF SrcDeactivate
<1>4. CASE SinkDeactivate
  <2>1. lpc = "idle" /\ lpc' = "idle"
    BY <1>1, <1>4 DEF SinkDeactivate, Pads
  <2>2. CASE apc = "sinkOff"
    <3>1. UNCHANGED <<q, level, min, upc>> /\ apc' = "sink"
      BY <1>4, <2>2 DEF SinkDeactivate, lvVars, StateGoto
    <3> QED
      BY <1>2, <2>1, <3>1, StillAsleep DEF Stopping
  <2>3. CASE apc # "sinkOff"
    <3>1. upc' # "waitDel"
      BY <1>1, <1>4, <2>3, SignalWakes, FlushFewer DEF SinkDeactivate, Both
    <3> QED
      BY <2>1, <3>1, Awake
  <2> QED
    BY <2>2, <2>3
<1>5. CASE Activate
  BY <1>2, <1>5, StillAsleep DEF Activate, lvVars
<1> QED
  BY <1>3, <1>4, <1>5 DEF StateStep

LEMMA WakeOthers ==
  ASSUME ~Shrinks, Protocol, WakeInv,
         Reconfigure \/ (\E n \in MaxSizes : SetMaxSize(n)) \/ (\E n \in MinSizes : SetMinThreshold(n))
  PROVE  NoLostWakeup'
<1>1. CASE Reconfigure
  <2>1. UNCHANGED <<q, level, min, max, lpc, upc>> /\ srcresult' = "OK"
    BY <1>1 DEF Reconfigure, conVars, lvVars, upVars
  <2> QED
    BY <2>1, StillAsleep
<1>2. ASSUME NEW n \in MinSizes, SetMinThreshold(n)
      PROVE  NoLostWakeup'
  <2>1. lpc' # "waitAdd" /\ UNCHANGED <<q, level, max, srcresult, upc, apc>>
    BY <1>2 DEF SetMinThreshold, SignalAdd, resVars, upVars, envVars
  <2>2. UNCHANGED IsFilled
    BY <2>1 DEF IsFilled
  <2> QED
    BY <2>1, <2>2 DEF WakeInv, NoLostWakeup
<1>3. ASSUME NEW n \in MaxSizes, SetMaxSize(n)
      PROVE  NoLostWakeup'
  <2>1. upc' # "waitDel" /\ UNCHANGED <<lpc, srcresult, min>> /\ max' = n /\ (n = 0 \/ n >= orig)
    BY <1>3, SignalWakes DEF SetMaxSize, loopVars, resVars, Both
  <2>2. n \in Nat /\ min \in Nat /\ orig \in Nat /\ max \in Nat
    BY QueueAssumption DEF WakeInv, ItemInv, ItemTypes
  <2>3. q \in Seq(AllKinds) /\ level = TotalWeight(q) /\ level \in Nat
    <3>1. q \in Seq(AllKinds) /\ level = TotalWeight(q)
      BY DEF WakeInv, ItemInv, ItemTypes, LevelExact
    <3>2. 0 \in 0..Len(q)
      BY WholeRest DEF WakeInv
    <3> QED
      BY <3>1, <3>2, RestEnds, RestBehind
  <2> SUFFICES ASSUME lpc = "waitAdd" PROVE IsEmpty' /\ srcresult' = "OK"
    BY <2>1 DEF NoLostWakeup
  <2>4. IsEmpty /\ srcresult = "OK"
    BY DEF WakeInv, NoLostWakeup
  <2>5. CASE q = <<>>
    <3>1. level = 0
      BY <2>3, <2>5, EmptyWeighsNothing
    <3>2. n = 0 \/ level < n
      BY <2>2, <3>1
    <3>3. Leaks(n) = 0
      BY <2>2, <3>2, LeaksIn DEF WakeInv
    <3>4. q' = q
      BY <1>3, <3>3, WholeRest DEF SetMaxSize, Dequeue, WakeInv
    <3> QED
      BY <2>1, <2>4, <2>5, <3>4 DEF IsEmpty
  <2>6. CASE q # <<>>
    <3>1. Last(q) \in Data /\ min > 0 /\ level < min
      BY <2>4, <2>6 DEF IsEmpty
    <3>2. n = 0 \/ level < n
      BY <2>1, <2>2, <2>3, <3>1 DEF WakeInv, Limits
    <3>3. Leaks(n) = 0 /\ 0 \in 0..Len(q)
      BY <2>2, <3>2, LeaksIn, WholeRest DEF WakeInv
    <3>4. q' = q /\ level' = level
      <4>1. CASE UNCHANGED <<q, level>>
        BY <4>1
      <4>2. CASE Dequeue(Leaks(n))
        BY <3>3, <4>2, WholeRest, Levels DEF Dequeue, WakeInv
      <4> QED
        BY <1>3, <4>1, <4>2 DEF SetMaxSize
    <3>5. ~IsFilled'
      BY <2>1, <2>2, <2>3, <3>2, <3>4 DEF IsFilled
    <3>6. IsEmpty'
      BY <2>1, <2>6, <3>1, <3>4, <3>5 DEF IsEmpty
    <3> QED
      BY <2>1, <2>4, <3>6
  <2> QED
    BY <2>5, <2>6
<1> QED
  BY <1>1, <1>2, <1>3

LEMMA LimitsKept ==
  ASSUME ~Shrinks, Protocol, WakeInv, Next
  PROVE  Limits'
<1> USE DEF WakeInv
<1>1. Limits /\ max \in Nat /\ orig \in Nat
  BY QueueAssumption DEF ItemInv, ItemTypes
<1>2. CASE LoopStep
  <2>1. min' \in {min, orig} /\ UNCHANGED <<max, orig>>
    <3>1. min' \in {min, orig}
      BY <1>2, LoopItems, PushedItems, GiveUpItems DEF LoopEffect, LoopStep
    <3> QED
      BY <1>2, <3>1 DEF LoopStep, Loop, Pushed, GiveUp, LoopGoto, conVars
  <2> QED
    BY <1>1, <2>1 DEF Limits
<1>3. CASE UpStep
  <2>1. min' \in {min, orig, 0} /\ UNCHANGED <<max, orig>>
    <3>1. conf.leaky \in {"no", "upstream", "downstream"}
      BY QueueAssumption DEF ItemInv, QuietInv, UseInv, QTypes
    <3>2. CASE Chain
      BY <3>1, <3>2 DEF Chain, UpGoto, Enqueue, LeakDownstream, conVars, lvVars
    <3>3. CASE Event
      <4>1. UNCHANGED <<max, orig>>
        BY <3>3 DEF Event, conVars
      <4>2. UNCHANGED lvVars \/ min' \in {min, orig, 0}
        BY <3>3 DEF Event
      <4> QED
        BY <4>1, <4>2 DEF lvVars
    <3>4. CASE Query \/ QueryWoken
      BY <3>4 DEF Query, QueryWoken, UpGoto, conVars, lvVars
    <3> QED
      BY <1>3, <3>2, <3>3, <3>4 DEF UpStep
  <2> QED
    BY <1>1, <2>1 DEF Limits
<1>4. CASE FlushStart \/ FlushStop \/ FlushStep \/ StateStep \/ Reconfigure \/ \E k \in Kinds : Send(k)
  <2>1. min' \in {min, orig}
    BY <1>4, FlushFewer
    DEF FlushStart, FlushStop, FlushStep, FlushUnblock, FlushPause, FlushNotify, FlushForward,
        FlushRestart, StateStep, SrcDeactivate, SinkDeactivate, Activate, Reconfigure, Send, lvVars
  <2>2. UNCHANGED <<max, orig>>
    BY <1>4
    DEF FlushStart, FlushStop, FlushStep, FlushUnblock, FlushPause, FlushNotify, FlushForward,
        FlushRestart, FlushGoto, StateStep, SrcDeactivate, SinkDeactivate, Activate, StateGoto, Reconfigure,
        Send, conVars
  <2> QED
    BY <1>1, <2>1, <2>2 DEF Limits
<1>5. ASSUME NEW n \in MaxSizes, SetMaxSize(n)
      PROVE  Limits'
  BY <1>1, <1>5, QueueAssumption DEF SetMaxSize, Limits
<1>6. ASSUME NEW n \in MinSizes, SetMinThreshold(n)
      PROVE  Limits'
  BY <1>1, <1>6, QueueAssumption DEF SetMinThreshold, Limits
<1> QED
  BY <1>2, <1>3, <1>4, <1>5, <1>6 DEF Next

LEMMA WakeNext ==
  ASSUME ~Shrinks, Protocol, WakeInv, [Next]_vars
  PROVE  WakeInv'
<1>1. ItemInv'
  BY ItemsNext DEF WakeInv
<1>2. CASE Next
  <2>1. NoLostWakeup'
    BY <1>2, WakeLoop, WakeUp, WakeFlush, WakeState, WakeOthers DEF Next
  <2> QED
    BY <1>1, <1>2, <2>1, LimitsKept DEF WakeInv
<1>3. CASE UNCHANGED vars
  <2>1. UNCHANGED <<q, level, min, max, orig, lpc, upc, srcresult, apc>>
    BY <1>3 DEF vars, conVars, lvVars, resVars, loopVars, upVars, envVars
  <2>2. NoLostWakeup'
    BY <2>1, StillAsleep
  <2> QED
    BY <1>1, <2>1, <2>2 DEF WakeInv, Limits
<1> QED
  BY <1>2, <1>3

LEMMA WakeInit ==
  ASSUME ~Shrinks
  PROVE  Init => WakeInv
<1>1. Init => NoLostWakeup
  BY DEF Init, NoLostWakeup
<1>2. Init => Limits
  BY DEF Init, Limits
<1> QED
  BY <1>1, <1>2, ItemsInit DEF WakeInv

(* gstqueue.c:1249-1263, 1512-1527: the loop does not sleep on item_add    *)
(* while there is something to take, nor the streaming thread on item_del  *)
(* while there is room, whoever took, added, leaked, flushed or changed a  *)
(* limit in between.  It takes limits with min <= max: set the maximum     *)
(* below the threshold, and both may sleep.                                *)
THEOREM WakeupsNotLost ==
  ASSUME ~EarlyStart, ~Shrinks, 2 * Room < Word
  PROVE  Spec => []NoLostWakeup
<1>1. WakeInv /\ [Next]_vars => WakeInv'
  BY WakeNext DEF Protocol
<1>2. WakeInv => NoLostWakeup
  BY DEF WakeInv
<1> QED
  BY <1>1, <1>2, WakeInit, PTL DEF Spec

-----------------------------------------------------------------------------
(* What is known of a query: while it is in the queue or in the loop's     *)
(* hand, the thread that sent it waits, unless an error or a flush has     *)
(* woken it already, and then nobody pushes the query.                     *)
QInv ==
  /\ srcresult \in {"NOT_LINKED", "EOS"} => ~Queued("query")
  /\ srcresult = "EOS" => eos
  /\ drained => hand = "eos"
  /\ eos /\ ~Queued("eos") /\ hand # "eos" => ~Queued("query")
  /\ srcresult = "OK" /\ Queued("query") => upc = "waitQuery"
  /\ hand = "query" => upc = "waitQuery" /\ ~Queued("query")
  /\ handled => upc = "wokenQuery"
  /\ \A i, j \in 1..Len(q) : q[i] = "query" /\ q[j] = "query" => i = j

QueryInv == ItemInv /\ QInv /\ LoopRunsWhileOK

LEMMA FewerQueued ==
  ASSUME ItemInv, Fewer
  PROVE  /\ \A k : Queued(k)' => Queued(k)
         /\ QInv => \A i, j \in 1..Len(q') : q'[i] = "query" /\ q'[j] = "query" => i = j
<1>1. /\ Len(q) \in Nat /\ Len(q') \in Nat /\ Len(q') <= Len(q)
      /\ \A i \in 1..Len(q') : q'[i] = q[i + (Len(q) - Len(q'))]
  BY Lengths, LenProperties DEF Fewer, ItemInv
<1>2. ASSUME NEW i \in 1..Len(q') PROVE i + (Len(q) - Len(q')) \in 1..Len(q)
  BY <1>1
<1>3. \A k : Queued(k)' => Queued(k)
  BY <1>1, <1>2 DEF Queued
<1>4. ASSUME QInv, NEW i \in 1..Len(q'), NEW j \in 1..Len(q'), q'[i] = "query", q'[j] = "query"
      PROVE  i = j
  <2>1. i + (Len(q) - Len(q')) = j + (Len(q) - Len(q'))
    BY <1>1, <1>2, <1>4 DEF QInv
  <2> QED
    BY <1>1, <2>1
<1> QED
  BY <1>3, <1>4

LEMMA AddedQueued ==
  ASSUME ItemInv, Added
  PROVE  /\ \A k : Queued(k)' => Queued(k) \/ k = item
         /\ \A k : k = item => Queued(k)'
         /\ QInv /\ (item = "query" => ~Queued("query")) =>
              \A i, j \in 1..Len(q') : q'[i] = "query" /\ q'[j] = "query" => i = j
<1>1. /\ Len(q) \in Nat /\ Len(q') \in Nat /\ Len(q') \in 1..(Len(q) + 1)
      /\ \A i \in 1..(Len(q') - 1) : q'[i] = q[i + (Len(q) + 1 - Len(q'))]
      /\ q'[Len(q')] = item
  BY Lengths, LenProperties DEF Added, ItemInv
<1>2. ASSUME NEW i \in 1..Len(q'), i # Len(q')
      PROVE  i \in 1..(Len(q') - 1) /\ i + (Len(q) + 1 - Len(q')) \in 1..Len(q)
  BY <1>1, <1>2
<1>3. ASSUME NEW k, Queued(k)'
      PROVE  Queued(k) \/ k = item
  <2>1. PICK i \in 1..Len(q') : q'[i] = k
    BY <1>3 DEF Queued
  <2> QED
    BY <1>1, <1>2, <2>1 DEF Queued
<1>4. ASSUME NEW k, k = item
      PROVE  Queued(k)'
  <2>1. Len(q') \in 1..Len(q')
    BY <1>1
  <2> QED
    BY <1>1, <1>4, <2>1 DEF Queued
<1>5. ASSUME QInv, item = "query" => ~Queued("query"),
             NEW i \in 1..Len(q'), NEW j \in 1..Len(q'), q'[i] = "query", q'[j] = "query"
      PROVE  i = j
  <2>1. CASE i # Len(q') /\ j # Len(q')
    <3>1. i + (Len(q) + 1 - Len(q')) = j + (Len(q) + 1 - Len(q'))
      BY <1>1, <1>2, <1>5, <2>1 DEF QInv
    <3> QED
      BY <1>1, <3>1
  <2>2. CASE i # Len(q') /\ j = Len(q')
    BY <1>1, <1>2, <1>5, <2>2 DEF Queued
  <2>3. CASE i = Len(q') /\ j # Len(q')
    BY <1>1, <1>2, <1>5, <2>3 DEF Queued
  <2> QED
    BY <2>1, <2>2, <2>3
<1> QED
  BY <1>3, <1>4, <1>5

(* What is left to show of a step that adds nothing to the queue.          *)
LEMMA QueriesFrame ==
  ASSUME QueryInv, Fewer, Woken,
         srcresult' \in {"NOT_LINKED", "EOS"} => ~Queued("query")',
         srcresult' = "EOS" => eos',
         drained' => hand' = "eos",
         eos' /\ ~Queued("eos")' /\ hand' # "eos" => ~Queued("query")',
         srcresult' = "OK" /\ Queued("query")' => upc' = "waitQuery",
         hand' = "query" => upc' = "waitQuery" /\ ~Queued("query")',
         handled' => handled
  PROVE  QInv'
<1>1. \A i, j \in 1..Len(q') : q'[i] = "query" /\ q'[j] = "query" => i = j
  BY FewerQueued DEF QueryInv
<1>2. handled' => upc' = "wokenQuery"
  BY DEF QueryInv, QInv, Woken
<1> QED
  BY <1>1, <1>2 DEF QInv

(* Nothing has happened to the items, and nobody has lost a wait for one.  *)
LEMMA QueriesSame ==
  ASSUME QueryInv, Woken, UNCHANGED <<q, level, hand, drained, handled>>, eos' => eos,
         srcresult' = "EOS" => eos',
         srcresult' \in {srcresult, "FLUSHING"},
         upc = "waitQuery" => upc' = "waitQuery" \/ (hand = "none" /\ srcresult # "OK")
  PROVE  QInv'
<1>1. Fewer
  BY SameFewer DEF QueryInv
<1>2. \A k : Queued(k)' <=> Queued(k)
  BY DEF Queued
<1> QED
  BY <1>1, <1>2, QueriesFrame DEF QueryInv, QInv

(* The queue has been emptied, and the loop holds nothing.                 *)
LEMMA QueriesGone ==
  ASSUME QueryInv, Fewer, Woken, Len(q') = 0, hand' = "none", drained' => drained /\ hand' = hand,
         srcresult' = "EOS" => eos', handled' => handled
  PROVE  QInv'
<1>1. ~Queued("query")'
  BY DEF Queued
<1> QED
  BY <1>1, QueriesFrame DEF QueryInv, QInv

-----------------------------------------------------------------------------
(* The loop.                                                               *)
LEMMA LeaveQueries ==
  ASSUME QueryInv, NEW r, LoopLeaves(r), r # "OK",
         r \in {"NOT_LINKED", "EOS"} => ~Queued("query"),
         r = "EOS" => eos
  PROVE  QInv'
<1>1. ItemInv /\ QInv
  BY DEF QueryInv
<1>2. /\ Fewer /\ Woken
      /\ Len(q') = 0 \/ UNCHANGED <<q, level, min>>
      /\ hand' = "none" /\ srcresult' = r
      /\ UNCHANGED <<eos, handled>> /\ drained' = FALSE
  BY <1>1, LeaveEffect
<1>3. \A k : Queued(k)' => Queued(k)
  BY <1>1, <1>2, FewerQueued
<1>4. eos' /\ ~Queued("eos")' /\ hand' # "eos" => ~Queued("query")'
  <2>1. CASE Len(q') = 0
    BY <2>1 DEF Queued
  <2>2. CASE UNCHANGED q
    <3>1. hand = "eos" => ~Queued("query")
      BY <1>1 DEF ItemInv, EosInv, Queued
    <3>2. \A k : Queued(k)' <=> Queued(k)
      BY <2>2 DEF Queued
    <3> QED
      BY <1>1, <1>2, <3>1, <3>2 DEF QInv
  <2> QED
    BY <1>2, <2>1, <2>2
<1> QED
  BY <1>2, <1>3, <1>4, QueriesFrame

LEMMA PushQueries ==
  ASSUME QueryInv, srcresult = "OK", Fewer, Woken, Pushes,
         UNCHANGED <<srcresult, eos, handled>>,
         drained' => hand' = "eos", hand # "eos",
         upc = "waitQuery" => upc' = "waitQuery"
  PROVE  QInv'
<1>1. ItemInv /\ QInv
  BY DEF QueryInv
<1>2. /\ Len(q) \in Nat /\ Len(q') \in Nat /\ Len(q') <= Len(q)
      /\ \A i \in 1..Len(q') : q'[i] = q[i + (Len(q) - Len(q'))]
  BY <1>1, Lengths, LenProperties DEF Fewer, ItemInv
<1>3. PICK n \in 1..Len(q) : hand' = q[n] /\ Len(q') = Len(q) - n
  BY DEF Pushes
<1>4. \A k : Queued(k)' => Queued(k)
  BY <1>1, FewerQueued
<1>5. Queued(hand')
  BY <1>3 DEF Queued
<1>6. hand' = "query" => ~Queued("query")'
  <2> SUFFICES ASSUME hand' = "query", NEW i \in 1..Len(q'), q'[i] = "query" PROVE FALSE
    BY DEF Queued
  <2>1. i + n \in 1..Len(q) /\ q[i + n] = "query" /\ q[n] = "query"
    BY <1>2, <1>3
  <2>2. i + n = n
    BY <1>1, <2>1 DEF QInv
  <2> QED
    BY <1>2, <2>2
<1>7. eos' /\ ~Queued("eos")' /\ hand' # "eos" => ~Queued("query")'
  <2> SUFFICES ASSUME eos, ~Queued("eos")', hand' # "eos" PROVE ~Queued("query")'
    OBVIOUS
  <2>1. ~Queued("eos")
    <3> SUFFICES ASSUME NEW i \in 1..Len(q), q[i] = "eos" PROVE FALSE
      BY DEF Queued
    <3>1. i = Len(q)
      BY <1>1 DEF ItemInv, EosInv
    <3>2. CASE n = Len(q)
      BY <1>3, <3>1, <3>2
    <3>3. CASE n # Len(q)
      <4>1. Len(q') \in 1..Len(q') /\ Len(q') + (Len(q) - Len(q')) = Len(q)
        BY <1>2, <1>3, <3>3
      <4> QED
        BY <1>2, <3>1, <4>1 DEF Queued
    <3> QED
      BY <3>2, <3>3
  <2> QED
    BY <1>1, <1>4, <2>1 DEF QInv
<1>8. hand' = "query" => upc' = "waitQuery"
  BY <1>1, <1>5 DEF QInv
<1> QED
  BY <1>1, <1>4, <1>6, <1>7, <1>8, QueriesFrame DEF QInv

LEMMA QueriesLoop ==
  ASSUME Protocol, Hindrances = {}, QueryInv, LoopStep
  PROVE  QInv'
<1>1. ItemInv /\ QInv /\ Len(q) \in Nat
  BY Lengths DEF QueryInv, ItemInv
<1>2. ASSUME LoopLeaves(srcresult), srcresult # "OK"
      PROVE  QInv'
  BY <1>1, <1>2, LeaveQueries DEF QInv
<1>3. ASSUME NEW pc, LoopGoto(pc)
      PROVE  QInv'
  <2>1. UNCHANGED <<q, level, hand, drained, handled, eos, srcresult, upc>>
    BY <1>3 DEF LoopGoto, lvVars, resVars
  <2> QED
    BY <1>1, <2>1, QueriesSame DEF Woken, QInv
<1>4. CASE Loop
  <2>1. hand = "none"
    BY <1>1, <1>4 DEF Loop, ItemInv, Refs
  <2>2. CASE srcresult = "OK" /\ ~IsEmpty /\ Take
    <3>1. /\ Dequeue(1) /\ hand' = Head(q) /\ Signal({"waitDel"})
          /\ UNCHANGED <<srcresult, eos, handled, drained>>
      BY <2>2 DEF Take, resVars
    <3>2. Len(q) # 0 /\ Head(q) = q[1]
      BY <1>1, <2>2, Items DEF IsEmpty, ItemInv
    <3>3. 1 \in 0..Len(q) /\ 1 \in 1..Len(q)
      BY <1>1, <3>2
    <3>4. Fewer /\ Len(q') = Len(q) - 1
      BY <1>1, <3>1, <3>3, DequeueFewer
    <3>5. Pushes
      BY <3>1, <3>2, <3>3, <3>4 DEF Pushes
    <3>6. Woken /\ (upc = "waitQuery" => upc' = "waitQuery")
      BY <3>1, SignalWakes DEF Signal
    <3>7. ~drained'
      BY <1>1, <2>1, <3>1 DEF QInv
    <3> QED
      BY <2>1, <2>2, <3>1, <3>4, <3>5, <3>6, <3>7, PushQueries
  <2> QED
    BY <1>2, <1>3, <1>4, <2>2 DEF Loop
<1>5. ASSUME srcresult = "OK", LoopReturns, UNCHANGED <<q, level, handled, upc>>, hand \notin {"eos", "query"}
      PROVE  QInv'
  <2>1. hand' = "none" /\ UNCHANGED <<srcresult, eos, drained>>
    BY <1>5 DEF LoopReturns
  <2>2. ~drained' /\ ~drained
    BY <1>1, <1>5, <2>1 DEF QInv
  <2>3. \A k : Queued(k)' <=> Queued(k)
    BY <1>5 DEF Queued
  <2>4. Fewer /\ Woken
    BY <1>1, <1>5, SameFewer DEF Woken
  <2> QED
    BY <1>1, <1>5, <2>1, <2>2, <2>3, <2>4, QueriesFrame DEF QInv
<1>6. CASE srcresult = "OK" /\ BufferPushed
  <2>1. hand \in Data /\ hand \notin {"eos", "query"}
    BY <1>6 DEF BufferPushed, Data
  <2>2. PICK r \in PushResults :
          \/ r = "OK" /\ LoopReturns /\ UNCHANGED <<q, level, unexpected, handled, upc>>
          \/ r = "EOS" /\ DropUnwanted
          \/ r \notin {"OK", "EOS"} /\ LoopLeaves(r)
    BY <1>6 DEF BufferPushed
  <2>3. ASSUME NEW k, <<r, k>> \in Guarded
        PROVE  ~Queued(k)
    <3>1. r \in {"EOS", "NOT_LINKED"}
      BY <2>3 DEF Guarded
    <3>2. \A s \in ToSet(q) : <<r, s>> \notin Guarded
      BY <3>1 DEF PushResults
    <3>3. k \in ToSet(q) <=> Queued(k)
      BY <1>1, Items DEF ItemInv
    <3> QED
      BY <2>3, <3>2, <3>3
  <2>4. CASE r \notin {"OK", "EOS"} /\ LoopLeaves(r)
    <3>1. r = "NOT_LINKED" => ~Queued("query")
      BY <2>3 DEF Guarded
    <3> QED
      BY <2>4, <3>1, LeaveQueries
  <2>5. CASE r = "EOS" /\ DropUnwanted
    <3>1. ~Queued("query") /\ ~Queued("segment") /\ ~Queued("start")
      BY <2>3, <2>5 DEF Guarded
    <3>2. Fewer /\ Woken /\ (upc = "waitQuery" => upc' = "waitQuery") /\ UNCHANGED handled
      BY <1>1, <2>5, <3>1, DropEffect
    <3>3. CASE LoopReturns /\ Len(q') = 0
      <4>1. hand' = "none" /\ srcresult' = "OK" /\ UNCHANGED drained
        BY <3>3 DEF LoopReturns
      <4>2. ~drained
        BY <1>1, <2>1 DEF QInv
      <4> QED
        BY <3>2, <3>3, <4>1, <4>2, QueriesGone
    <3>4. CASE Pushes /\ hand' \in Pushable /\ UNCHANGED <<srcresult, eos>>
      <4>1. Queued(hand')
        BY <3>4 DEF Pushes, Queued
      <4>2. hand' = "eos"
        BY <3>1, <3>4, <4>1 DEF Pushable
      <4> QED
        BY <1>6, <2>1, <3>2, <3>4, <4>2, PushQueries
    <3> QED
      BY <1>1, <2>5, <3>3, <3>4, DropEffect
  <2> QED
    BY <1>5, <1>6, <2>1, <2>2, <2>4, <2>5
<1>7. CASE srcresult = "OK" /\ EventPushed
  <2>1. CASE hand = "eos" \/ drained
    <3>1. hand = "eos" /\ Len(q) = 0 /\ eos
      BY <1>1, <2>1 DEF QInv, ItemInv, EosInv
    <3>2. ~Queued("query")
      BY <3>1 DEF Queued
    <3>3. LoopLeaves("EOS")
      BY <1>7, <2>1 DEF EventPushed
    <3> QED
      BY <3>1, <3>2, <3>3, LeaveQueries
  <2>2. CASE ~(hand = "eos" \/ drained)
    BY <1>5, <1>7, <2>2 DEF EventPushed
  <2> QED
    BY <2>1, <2>2
<1>8. CASE srcresult = "OK" /\ QueryPushed
  <2>1. /\ handled' = TRUE /\ Signal({"waitQuery"}) /\ hand' = "none" /\ srcresult' = "OK"
        /\ UNCHANGED <<eos, drained, q, level>> /\ hand = "query"
    BY <1>8 DEF QueryPushed, LoopReturns
  <2>2. upc = "waitQuery" /\ ~Queued("query") /\ ~drained
    BY <1>1, <2>1 DEF QInv
  <2>3. upc' = "wokenQuery" /\ ~Queued("query")'
    BY <2>1, <2>2 DEF Signal, Queued
  <2>4. \A i, j \in 1..Len(q') : q'[i] = "query" /\ q'[j] = "query" => i = j
    BY <1>1, <2>1 DEF QInv
  <2> QED
    BY <2>1, <2>2, <2>3, <2>4 DEF QInv
<1>9. CASE Pushed
  BY <1>2, <1>6, <1>7, <1>8, <1>9 DEF Pushed
<1> QED
  BY <1>3, <1>4, <1>9 DEF LoopStep, GiveUp

-----------------------------------------------------------------------------
LEMMA QueriesUp ==
  ASSUME Protocol, QueryInv, UpStep \/ \E k \in Kinds : Send(k)
  PROVE  QInv'
<1>1. ItemInv /\ QInv
  BY DEF QueryInv
<1>2. ASSUME NEW pc, UpGoto(pc), upc # "waitQuery", upc = "wokenQuery" => ~handled
      PROVE  QInv'
  <2>1. UNCHANGED <<q, hand, drained, handled, eos, srcresult>>
    BY <1>2 DEF UpGoto, lvVars, resVars, loopVars
  <2>2. \A k : Queued(k)' <=> Queued(k)
    BY <2>1 DEF Queued
  <2>3. \A i, j \in 1..Len(q') : q'[i] = "query" /\ q'[j] = "query" => i = j
    BY <1>1, <2>1 DEF QInv
  <2> QED
    BY <1>1, <1>2, <2>1, <2>2, <2>3 DEF QInv
<1>3. CASE Chain
  <2>1. item \in Data /\ upc \in {"call"} \cup Chaining
    BY <1>1, <1>3, ChainCases
  <2>2. upc # "waitQuery" /\ upc # "wokenQuery" /\ item # "query"
    BY <2>1 DEF Chaining, Data
  <2>3. CASE \E pc : UpGoto(pc)
    BY <1>2, <2>2, <2>3
  <2>4. CASE ~\E pc : UpGoto(pc)
    <3>1. Added /\ ~eos /\ UNCHANGED <<srcresult, eos, handled, drained, hand>>
      BY <1>1, <1>3, <2>4, ChainCases
    <3>2. Queued("query")' => Queued("query")
      BY <1>1, <2>2, <3>1, AddedQueued
    <3>3. \A i, j \in 1..Len(q') : q'[i] = "query" /\ q'[j] = "query" => i = j
      BY <1>1, <2>2, <3>1, AddedQueued
    <3> QED
      BY <1>1, <2>2, <3>1, <3>2, <3>3 DEF QInv
  <2> QED
    BY <2>3, <2>4
<1>4. CASE Event
  <2>1. upc = "call" /\ item # "query" /\ UNCHANGED <<handled, drained, hand>>
    BY <1>1, <1>4, EventCases
  <2>2. CASE UpGoto("idle")
    BY <1>2, <2>1, <2>2
  <2>3. CASE ~UpGoto("idle")
    <3>1. /\ Added /\ ~Queued("eos") /\ hand # "eos" /\ eos' = (item = "eos")
          /\ \/ UNCHANGED srcresult /\ srcresult # "EOS"
             \/ srcresult' = "OK" /\ srcresult = "EOS"
             \/ srcresult' = "OK" /\ eos
      BY <1>1, <1>4, <2>3, EventCases
    <3>2. Queued("query")' => Queued("query")
      BY <1>1, <2>1, <3>1, AddedQueued
    <3>3. \A i, j \in 1..Len(q') : q'[i] = "query" /\ q'[j] = "query" => i = j
      BY <1>1, <2>1, <3>1, AddedQueued
    <3>4. eos' => Queued("eos")'
      BY <1>1, <3>1, AddedQueued
    <3>5. srcresult' = "OK" => ~Queued("query")
      BY <1>1, <2>1, <3>1 DEF QInv
    <3> QED
      BY <1>1, <2>1, <3>1, <3>2, <3>3, <3>4, <3>5 DEF QInv
  <2> QED
    BY <2>2, <2>3
<1>5. CASE Query
  <2>1. upc = "call" /\ item = "query"
    BY <1>1, <1>5, QueryCases
  <2>2. CASE UpGoto("idle")
    BY <1>2, <2>1, <2>2
  <2>3. CASE ~UpGoto("idle")
    <3>1. /\ srcresult = "OK" /\ Added /\ upc' = "waitQuery" /\ ~eos /\ hand # "eos"
          /\ UNCHANGED <<srcresult, eos, handled, drained, hand>>
      BY <1>1, <1>5, <2>3, QueryCases
    <3>2. ~Queued("query") /\ hand # "query" /\ ~handled
      BY <1>1, <2>1, <3>1 DEF QInv
    <3>3. \A i, j \in 1..Len(q') : q'[i] = "query" /\ q'[j] = "query" => i = j
      BY <1>1, <3>1, <3>2, AddedQueued
    <3> QED
      BY <1>1, <3>1, <3>2, <3>3 DEF QInv
  <2> QED
    BY <2>2, <2>3
<1>6. CASE QueryWoken
  <2>1. upc = "wokenQuery"
    BY <1>6 DEF QueryWoken
  <2>2. CASE UpGoto("waitQuery") /\ ~handled
    BY <1>2, <2>1, <2>2
  <2>3. CASE upc' = "idle" /\ handled' = FALSE /\ UNCHANGED <<conVars, lvVars, resVars, loopVars, envVars>>
    <3>1. UNCHANGED <<q, hand, drained, eos, srcresult>>
      BY <2>3 DEF lvVars, resVars, loopVars
    <3>2. \A k : Queued(k)' <=> Queued(k)
      BY <3>1 DEF Queued
    <3>3. \A i, j \in 1..Len(q') : q'[i] = "query" /\ q'[j] = "query" => i = j
      BY <1>1, <3>1 DEF QInv
    <3> QED
      BY <1>1, <2>1, <2>3, <3>1, <3>2, <3>3 DEF QInv
  <2> QED
    BY <1>6, <2>2, <2>3 DEF QueryWoken
<1>7. ASSUME NEW k \in Kinds, Send(k)
      PROVE  QInv'
  <2>1. UNCHANGED <<q, hand, drained, handled, eos, srcresult>> /\ upc = "idle"
    BY <1>7 DEF Send, lvVars, resVars, loopVars
  <2>2. \A i : Queued(i)' <=> Queued(i)
    BY <2>1 DEF Queued
  <2>3. \A i, j \in 1..Len(q') : q'[i] = "query" /\ q'[j] = "query" => i = j
    BY <1>1, <2>1 DEF QInv
  <2> QED
    BY <1>1, <2>1, <2>2, <2>3 DEF QInv
<1> QED
  BY <1>3, <1>4, <1>5, <1>6, <1>7 DEF UpStep

LEMMA QueriesFlush ==
  ASSUME Protocol, QueryInv, FlushStart \/ FlushStop \/ FlushStep
  PROVE  QInv'
<1>1. ItemInv /\ QInv
  BY DEF QueryInv
<1>2. UNCHANGED <<hand, drained, handled>>
  BY DEF FlushStart, FlushStop, FlushStep, FlushUnblock, FlushPause, FlushNotify, FlushForward,
         FlushRestart, FlushGoto
<1>3. CASE FlushRestart
  <2>1. hand = "none" /\ LockedFlush /\ srcresult' = "OK"
    BY <1>1, <1>3 DEF FlushRestart, ItemInv, QuietInv, Refs
  <2> QED
    BY <1>1, <1>2, <2>1, FlushFewer, QueriesGone
<1>4. CASE FlushNotify
  <2>1. hand = "none" /\ srcresult = "FLUSHING"
    BY <1>1, <1>4 DEF FlushNotify, ItemInv, QuietInv, Refs
  <2>2. UNCHANGED <<q, level, eos, srcresult>> /\ Woken
    BY <1>4, SignalWakes DEF FlushNotify, lvVars, resVars
  <2> QED
    BY <1>1, <1>2, <2>1, <2>2, QueriesSame
<1>5. CASE FlushStart \/ FlushStop \/ FlushUnblock \/ FlushPause \/ FlushForward
  <2>1. UNCHANGED <<q, level, eos>> /\ srcresult' \in {srcresult, "FLUSHING"}
    BY <1>5 DEF FlushStart, FlushStop, FlushUnblock, FlushPause, FlushForward, lvVars, resVars
  <2>2. Woken /\ (upc = "waitQuery" => upc' = "waitQuery")
    BY <1>5, SignalWakes DEF FlushStart, FlushStop, FlushUnblock, FlushPause, FlushForward, Signal, Woken
  <2>3. srcresult' = "EOS" => eos'
    BY <1>1, <2>1 DEF QInv
  <2> QED
    BY <1>1, <1>2, <2>1, <2>2, <2>3, QueriesSame
<1> QED
  BY <1>3, <1>4, <1>5 DEF FlushStep

LEMMA QueriesState ==
  ASSUME Protocol, QueryInv, StateStep
  PROVE  QInv'
<1>1. ItemInv /\ QInv
  BY DEF QueryInv
<1>2. UNCHANGED <<hand, drained, handled>>
  BY DEF StateStep, SrcDeactivate, SinkDeactivate, Activate, StateGoto
<1>3. CASE LockedFlush /\ lpc = "idle" /\ UNCHANGED <<srcresult, eos>>
  <2>1. hand = "none"
    BY <1>1, <1>3 DEF ItemInv, Refs
  <2>2. srcresult' = "EOS" => eos'
    BY <1>1, <1>3 DEF QInv
  <2> QED
    BY <1>1, <1>2, <1>3, <2>1, <2>2, FlushFewer, QueriesGone
<1>4. CASE UNCHANGED <<q, level, eos>> /\ Woken /\ srcresult' \in {srcresult, "FLUSHING"}
           /\ (upc = "waitQuery" => upc' = "waitQuery")
  <2>1. srcresult' = "EOS" => eos'
    BY <1>1, <1>4 DEF QInv
  <2> QED
    BY <1>1, <1>2, <1>4, <2>1, QueriesSame
<1>5. CASE SrcDeactivate
  <2>1. CASE apc = "join"
    BY <1>3, <1>5, <2>1 DEF SrcDeactivate
  <2>2. CASE apc # "join"
    <3>1. UNCHANGED <<q, level, eos, upc>> /\ srcresult' \in {srcresult, "FLUSHING"}
      BY <1>5, <2>2 DEF SrcDeactivate, lvVars
    <3> QED
      BY <1>4, <3>1 DEF Woken
  <2> QED
    BY <2>1, <2>2
<1>6. CASE SinkDeactivate
  <2>1. lpc = "idle" /\ UNCHANGED eos
    BY <1>1, <1>6 DEF SinkDeactivate, ItemInv, Pads
  <2>2. CASE apc = "drain"
    BY <1>3, <1>6, <2>1, <2>2 DEF SinkDeactivate
  <2>3. CASE apc # "drain"
    <3>1. UNCHANGED <<q, level>> /\ srcresult' \in {srcresult, "FLUSHING"}
      BY <1>6, <2>3 DEF SinkDeactivate, lvVars
    <3>2. Woken /\ (upc = "waitQuery" => upc' = "waitQuery")
      BY <1>6, <2>3, SignalWakes DEF SinkDeactivate, Signal, Woken
    <3> QED
      BY <1>4, <2>1, <3>1, <3>2
  <2> QED
    BY <2>2, <2>3
<1>7. CASE Activate
  <2>1. UNCHANGED <<q, level, upc>> /\ srcresult' = "OK" /\ eos' = FALSE
    BY <1>7 DEF Activate, lvVars
  <2>2. CASE apc = "off" /\ srcresult # "OK"
    <3>1. hand = "none" /\ Len(q) = 0
      BY <1>1, <2>2 DEF ItemInv, Pads, Refs
    <3>2. Fewer /\ Woken /\ Len(q') = 0
      BY <1>1, <2>1, <3>1, SameFewer DEF Woken
    <3> QED
      BY <1>1, <1>2, <2>1, <3>1, <3>2, QueriesGone
  <2>3. CASE ~(apc = "off" /\ srcresult # "OK")
    <3>1. srcresult = "OK"
      BY <1>1, <1>7, <2>3 DEF Activate, ItemInv, Pads
    <3> QED
      BY <1>2, <2>1, <3>1, QueriesSame DEF Woken
  <2> QED
    BY <2>2, <2>3
<1> QED
  BY <1>5, <1>6, <1>7 DEF StateStep

LEMMA QueriesOthers ==
  ASSUME Protocol, QueryInv,
         Reconfigure \/ (\E n \in MaxSizes : SetMaxSize(n)) \/ (\E n \in MinSizes : SetMinThreshold(n))
  PROVE  QInv'
<1>1. ItemInv /\ QInv /\ Len(q) \in Nat
  BY Lengths DEF QueryInv, ItemInv
<1>2. UNCHANGED <<hand, drained, handled, eos>>
  BY DEF Reconfigure, SetMaxSize, SetMinThreshold, loopVars, resVars
<1>3. CASE Reconfigure
  <2>1. UNCHANGED <<q, level, upc>> /\ srcresult = "NOT_LINKED" /\ srcresult' = "OK"
    BY <1>3 DEF Reconfigure, lvVars, upVars
  <2>2. Fewer /\ Woken /\ ~Queued("query") /\ \A k : Queued(k)' <=> Queued(k)
    BY <1>1, <2>1, SameFewer DEF Woken, QInv, Queued
  <2> QED
    BY <1>1, <1>2, <2>1, <2>2, QueriesFrame DEF QInv
<1>4. ASSUME NEW n \in MinSizes, SetMinThreshold(n)
      PROVE  QInv'
  <2>1. UNCHANGED <<q, level, upc, srcresult>>
    BY <1>4 DEF SetMinThreshold, upVars, resVars
  <2> QED
    BY <1>1, <1>2, <2>1, QueriesSame DEF Woken, QInv
<1>5. ASSUME NEW n \in MaxSizes, SetMaxSize(n)
      PROVE  QInv'
  <2>1. UNCHANGED srcresult /\ Woken /\ (upc = "waitQuery" => upc' = "waitQuery")
    BY <1>5, SignalWakes DEF SetMaxSize, resVars, Signal
  <2>2. Fewer /\ (Queued("eos") => Queued("eos")')
    <3>1. CASE UNCHANGED <<q, level>>
      BY <1>1, <3>1, SameFewer DEF Queued
    <3>2. CASE Dequeue(Leaks(n))
      <4>1. Leaks(n) \in 0..Len(q) /\ (Len(q) # 0 /\ q[Len(q)] = "eos" => Leaks(n) # Len(q))
        BY <1>1, LeaksIn, QueueAssumption
      <4>2. Fewer /\ Len(q') = Len(q) - Leaks(n)
        BY <1>1, <3>2, <4>1, DequeueFewer
      <4>3. ASSUME Queued("eos") PROVE Queued("eos")'
        <5>1. Len(q) # 0 /\ q[Len(q)] = "eos"
          BY <1>1, <4>3 DEF ItemInv, EosInv, Queued
        <5>2. Len(q') \in Nat /\ Len(q') # 0
          <6>1. Leaks(n) \in Nat /\ Leaks(n) < Len(q)
            BY <1>1, <4>1, <5>1
          <6> QED
            BY <1>1, <4>2, <6>1
        <5>4. Len(q') \in 1..Len(q') /\ Len(q') + (Len(q) - Len(q')) = Len(q)
          BY <1>1, <5>2
        <5>3. q'[Len(q')] = q[Len(q)]
          BY <4>2, <5>4 DEF Fewer
        <5> QED
          BY <5>1, <5>4, <5>3 DEF Queued
      <4> QED
        BY <4>2, <4>3
    <3> QED
      BY <1>5, <3>1, <3>2 DEF SetMaxSize
  <2>3. \A k : Queued(k)' => Queued(k)
    BY <1>1, <2>2, FewerQueued
  <2> QED
    BY <1>1, <1>2, <2>1, <2>2, <2>3, QueriesFrame DEF QInv
<1> QED
  BY <1>3, <1>4, <1>5

-----------------------------------------------------------------------------
(* The task runs.                                                          *)
LEMMA RunsLoop ==
  ASSUME QueryInv, LoopStep
  PROVE  LoopRunsWhileOK'
<1>1. UNCHANGED <<fpc, src>>
  BY DEF LoopStep, Loop, Pushed, GiveUp, envVars
<1>2. srcresult' # "OK" \/ UNCHANGED <<srcresult, task>>
  <2>1. CASE Loop
    BY <2>1 DEF Loop, LoopLeaves, LoopGoto, Take, resVars
  <2>2. CASE GiveUp
    BY <2>2 DEF GiveUp, LoopGoto, resVars
  <2>3. CASE Pushed
    <3>1. CASE srcresult # "OK" /\ LoopLeaves(srcresult)
      BY <3>1 DEF LoopLeaves
    <3>2. CASE srcresult = "OK" /\ BufferPushed
      BY <3>2 DEF BufferPushed, LoopLeaves, LoopReturns, DropUnwanted, resVars
    <3>3. CASE srcresult = "OK" /\ (EventPushed \/ QueryPushed)
      BY <3>3 DEF EventPushed, QueryPushed, LoopLeaves, LoopReturns
    <3> QED
      BY <2>3, <3>1, <3>2, <3>3 DEF Pushed
  <2> QED
    BY <2>1, <2>2, <2>3 DEF LoopStep
<1> QED
  BY <1>1, <1>2 DEF QueryInv, LoopRunsWhileOK

LEMMA RunsUp ==
  ASSUME Protocol, QueryInv, UpStep \/ \E k \in Kinds : Send(k)
  PROVE  LoopRunsWhileOK'
<1>1. ItemInv /\ QInv /\ UseInv /\ LoopRunsWhileOK
  BY DEF QueryInv, ItemInv, QuietInv
<1>2. CASE Event
  <2>1. UNCHANGED <<fpc, src>>
    BY <1>1, <1>2, EventCases
  <2>2. CASE UpGoto("idle")
    BY <1>1, <2>1, <2>2 DEF UpGoto, resVars, loopVars, LoopRunsWhileOK
  <2>3. CASE ~UpGoto("idle")
    <3>1. /\ UNCHANGED task \/ task' = "STARTED"
          /\ \/ UNCHANGED srcresult
             \/ srcresult = "EOS"
             \/ eos
          /\ eos /\ src.active => task' = "STARTED"
      BY <1>1, <1>2, <2>3, EventCases
    <3>2. srcresult = "EOS" => eos
      BY <1>1 DEF QInv
    <3> QED
      BY <1>1, <2>1, <3>1, <3>2 DEF LoopRunsWhileOK
  <2> QED
    BY <2>2, <2>3
<1>3. CASE Chain \/ Query \/ QueryWoken
  <2>1. UNCHANGED <<task, fpc, srcresult, src>>
    BY <1>1, <1>3, ChainUses, QueryUses
  <2> QED
    BY <1>1, <2>1 DEF LoopRunsWhileOK
<1>4. ASSUME NEW k \in Kinds, Send(k)
      PROVE  LoopRunsWhileOK'
  <2>1. UNCHANGED <<task, fpc, srcresult, src>>
    BY <1>1, <1>4, SendUses
  <2> QED
    BY <1>1, <2>1 DEF LoopRunsWhileOK
<1> QED
  BY <1>2, <1>3, <1>4 DEF UpStep

LEMMA RunsOthers ==
  ASSUME QueryInv,
         \/ FlushStart \/ FlushStop \/ FlushStep \/ StateStep
         \/ Reconfigure \/ (\E n \in MaxSizes : SetMaxSize(n)) \/ (\E n \in MinSizes : SetMinThreshold(n))
  PROVE  LoopRunsWhileOK'
<1>1. ItemInv /\ QuietInv /\ UseInv /\ LoopRunsWhileOK
  BY DEF QueryInv, ItemInv, QuietInv
<1>2. CASE FlushStart \/ FlushUnblock \/ FlushPause \/ FlushNotify
  <2>1. fpc' # "idle"
    BY <1>2 DEF FlushStart, FlushUnblock, FlushPause, FlushNotify, FlushGoto
  <2> QED
    BY <2>1 DEF LoopRunsWhileOK
<1>3. CASE FlushStop \/ FlushForward
  <2>1. srcresult = "FLUSHING" /\ UNCHANGED srcresult
    BY <1>1, <1>3 DEF FlushStop, FlushForward, QuietInv, resVars
  <2> QED
    BY <2>1 DEF LoopRunsWhileOK
<1>4. CASE FlushRestart
  BY <1>4 DEF FlushRestart, StartTask, LoopRunsWhileOK
<1>5. CASE SrcDeactivate
  <2>1. ~src'.active
    BY <1>1, <1>5 DEF SrcDeactivate, ItemInv, Pads
  <2> QED
    BY <2>1 DEF LoopRunsWhileOK
<1>6. CASE SinkDeactivate
  <2>1. ~src'.active
    BY <1>1, <1>6 DEF SinkDeactivate, ItemInv, Pads
  <2> QED
    BY <2>1 DEF LoopRunsWhileOK
<1>7. CASE Activate
  <2>1. CASE apc = "off"
    <3>1. task' = "STARTED"
      BY <1>7, <2>1 DEF Activate, StartTask
    <3> QED
      BY <3>1 DEF LoopRunsWhileOK
  <2>2. CASE apc # "off"
    <3>1. UNCHANGED <<task, src, fpc>> /\ srcresult = "OK"
      BY <1>1, <1>7, <2>2 DEF Activate, StateGoto, ItemInv, Pads
    <3> QED
      BY <1>1, <3>1 DEF LoopRunsWhileOK
  <2> QED
    BY <2>1, <2>2
<1>8. CASE Reconfigure \/ (\E n \in MaxSizes : SetMaxSize(n)) \/ (\E n \in MinSizes : SetMinThreshold(n))
  <2>1. UNCHANGED <<fpc, src>> /\ (UNCHANGED <<task, srcresult>> \/ task' = "STARTED")
    BY <1>1, <1>8, OthersUse
  <2> QED
    BY <1>1, <2>1 DEF LoopRunsWhileOK
<1> QED
  BY <1>2, <1>3, <1>4, <1>5, <1>6, <1>7, <1>8 DEF FlushStep, StateStep

LEMMA QueriesNext ==
  ASSUME Protocol, Hindrances = {}, QueryInv, [Next]_vars
  PROVE  QueryInv'
<1>1. ItemInv'
  BY ItemsNext DEF QueryInv
<1>2. CASE Next
  <2>1. QInv'
    BY <1>2, QueriesLoop, QueriesUp, QueriesFlush, QueriesState, QueriesOthers DEF Next
  <2>2. LoopRunsWhileOK'
    BY <1>2, RunsLoop, RunsUp, RunsOthers DEF Next
  <2> QED
    BY <1>1, <2>1, <2>2 DEF QueryInv
<1>3. CASE UNCHANGED vars
  <2>1. UNCHANGED <<q, level, hand, drained, handled, eos, srcresult, upc, task, fpc, src>>
    BY <1>3 DEF vars, lvVars, resVars, loopVars, upVars, envVars
  <2>2. QInv'
    BY <2>1, QueriesSame DEF Woken, QueryInv, QInv
  <2> QED
    BY <1>1, <2>1, <2>2 DEF QueryInv, LoopRunsWhileOK
<1> QED
  BY <1>2, <1>3

LEMMA QueriesInit == Init => QueryInv
<1> SUFFICES ASSUME Init PROVE QueryInv
  OBVIOUS
<1>1. Len(q) = 0 /\ ItemInv
  BY ItemsInit DEF Init
<1>2. QInv
  BY <1>1 DEF Init, QInv, Queued
<1> QED
  BY <1>1, <1>2 DEF Init, QueryInv, LoopRunsWhileOK

LEMMA QueriesSent ==
  ASSUME QueryInv
  PROVE  QueryHasSender
<1>1. "query" \in ToSet(q) <=> Queued("query")
  BY Items DEF QueryInv, ItemInv
<1> QED
  BY <1>1 DEF QueryInv, QInv, QueryHasSender

(* gstqueue.c:1006-1023, 1435-1447: a query lives on the stack of the      *)
(* thread that sent it, so the loop holds one only while that thread       *)
(* waits.  Hindrances = {}: downstream does not answer a push with EOS or  *)
(* NOT_LINKED while a query waits in the queue, nor with EOS while a       *)
(* SEGMENT or STREAM_START does.                                           *)
THEOREM QueriesHaveSenders ==
  ASSUME ~EarlyStart, Hindrances = {}, 2 * Room < Word
  PROVE  Spec => []QueryHasSender
<1>1. QueryInv /\ [Next]_vars => QueryInv'
  BY QueriesNext DEF Protocol
<1> QED
  BY <1>1, QueriesInit, QueriesSent, PTL DEF Spec

(* gstqueue.c:1540-1580: while the element is up, not flushing and the     *)
(* last result was OK, the task is started: no path through the loop, a    *)
(* flush or a state change leaves it paused.  Hindrances = {} as above.    *)
THEOREM LoopRuns ==
  ASSUME ~EarlyStart, Hindrances = {}, 2 * Room < Word
  PROVE  Spec => []LoopRunsWhileOK
<1>1. QueryInv /\ [Next]_vars => QueryInv'
  BY QueriesNext DEF Protocol
<1>2. QueryInv => LoopRunsWhileOK
  BY DEF QueryInv
<1> QED
  BY <1>1, <1>2, QueriesInit, PTL DEF Spec
=============================================================================
