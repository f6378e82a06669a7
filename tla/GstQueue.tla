------------------------------- MODULE GstQueue -------------------------------
(***************************************************************************)
(* gstreamer/plugins/elements/gstqueue.c: the queue element decouples the  *)
(* thread that streams into its sink pad from the task of its source pad.  *)
(* Five threads meet here: the streaming thread (U), the task's loop (L),  *)
(* a flushing seek (F), the state change that switches the pads (A), and   *)
(* whoever sets a property or sends RECONFIGURE.  A step is one critical   *)
(* section of qlock, or one call made outside of it.                       *)
(*                                                                         *)
(* Levels are counted in buffers; bytes and time follow the same code.     *)
(* The task of the source pad does what GstPadTask says of it: the loop is *)
(* only entered when the task is STARTED, and pause and stop wait for it.  *)
(***************************************************************************)
EXTENDS Naturals, Sequences, SequencesExt, FiniteSets

CONSTANTS
  Configs,       \* [leaky, flushOnEos, silent]: the properties of a run
  MaxSizes,      \* values given to max-size-buffers, 0 is no limit
  MinSizes,      \* values given to min-threshold-buffers
  Kinds,         \* what upstream sends
  Results,       \* what downstream answers to a push
  Hindrances,    \* <<result, kind>>: pushes may end so before such an item
  EarlyStart,    \* STREAM_START may come before EOS has left the queue
  Overlaps,      \* FLUSH_STOP may come while the pads are deactivated
  Shrinks,       \* max-size-buffers may be set below min-threshold-buffers
  Room,          \* bound on the items in the queue
  Word           \* 2^32 of the guint that counts buffers

AllKinds == {"buffer", "list", "gap", "segment", "start", "eos", "query"}
AllResults == {"OK", "EOS", "NOT_LINKED", "ERROR"}

ASSUME QueueAssumption ==
  /\ Configs \subseteq [leaky : {"no", "upstream", "downstream"},
                        flushOnEos : BOOLEAN, silent : BOOLEAN]
  /\ MaxSizes \subseteq Nat /\ MinSizes \subseteq Nat
  /\ Kinds \subseteq AllKinds /\ Results \subseteq AllResults
  /\ Hindrances \subseteq Results \X Kinds
  /\ EarlyStart \in BOOLEAN /\ Overlaps \in BOOLEAN /\ Shrinks \in BOOLEAN
  /\ Room \in Nat /\ Word \in Nat \ {0}

VARIABLES
  conf,            \* leaky, flush_on_eos, silent
  max, min, orig,  \* max_size, min_threshold, orig_min_threshold
  q, level,        \* queue->queue, cur_level.buffers
  srcresult, eos, unexpected,
  handled,         \* last_handled_query is the query that waits
  task,            \* state of the source pad's task
  lpc, hand,       \* the loop: where it is, the item it pushes
  drained,         \* the loop: result is still EOS from the push before
  upc, item,       \* the streaming thread: where it is, what it sends
  fpc,             \* the flushing thread
  apc,             \* the state change
  sink, src        \* [active, flushing, eos] of the pads

conVars == <<conf, max, orig>>
lvVars == <<q, level, min>>
resVars == <<srcresult, eos, unexpected>>
loopVars == <<task, lpc, hand, drained>>
upVars == <<upc, item>>
envVars == <<fpc, apc, sink, src>>
vars == <<conVars, lvVars, resVars, handled, loopVars, upVars, envVars>>

\* "underrun", "running": in an application's signal handler, qlock released
\* "push": in gst_pad_push or peer_query  "refused": on a flushing pad
\* "giveUp": the EOS of 1572 is pushed
LoopPCs == {"idle", "underrun", "running", "waitAdd", "wokenAdd", "push",
            "refused", "giveUp"}
UpPCs == {"idle", "call", "overrun", "running", "waitDel", "wokenDel",
          "waitQuery", "wokenQuery"}
\* "start" 926  "pause" 936  "wait" for the loop  "notify" 942  "flushing"
\* between the two events  "lock" of the stream  "stop" 951
FlushPCs == {"idle", "start", "pause", "wait", "notify", "flushing", "lock",
             "stop"}
\* "src" 1760  "stop" 1767  "join"  "sink" 1716  "drain" 1723  "off"
StatePCs == {"on", "src", "stop", "join", "sinkOff", "sink", "drain", "off",
             "sinkOn"}

Data == {"buffer", "list"}
Pushable == {"eos", "segment", "start"}   \* 1427
Weight(k) == CASE k = "buffer" -> 1 [] k = "list" -> 2 [] OTHER -> 0

(* What s weighs: each item of data one, and a list one more.              *)
Amount(s, ks) == Cardinality({i \in DOMAIN s : s[i] \in ks})
TotalWeight(s) == Amount(s, Data) + Amount(s, {"list"})

Init ==
  /\ conf \in Configs /\ max \in MaxSizes /\ orig \in MinSizes
  /\ max = 0 \/ orig <= max \/ Shrinks
  /\ min = orig
  /\ q = <<>> /\ level = 0
  /\ srcresult = "OK" /\ eos = FALSE /\ unexpected = FALSE /\ handled = FALSE
  /\ task = "STARTED" /\ lpc = "idle" /\ hand = "none" /\ drained = FALSE
  /\ upc = "idle" /\ item = "none" /\ fpc = "idle" /\ apc = "on"
  /\ sink = [active |-> TRUE, flushing |-> FALSE, eos |-> FALSE]
  /\ src = [active |-> TRUE, flushing |-> FALSE]

IsFilled == max > 0 /\ level >= max

IsEmpty ==
  \/ q = <<>>
  \/ /\ q # <<>> /\ Last(q) \in Data
     /\ min > 0 /\ level < min /\ ~IsFilled

(* GST_QUEUE_SIGNAL_ADD: the loop is woken if it waits for an item.        *)
SignalAdd == lpc' = IF lpc = "waitAdd" THEN "wokenAdd" ELSE lpc

(* GST_QUEUE_SIGNAL_DEL, and the signal of query_handled.                  *)
Signal(waits) ==
  upc' = CASE upc = "waitDel" /\ "waitDel" \in waits -> "wokenDel"
           [] upc = "waitQuery" /\ "waitQuery" \in waits -> "wokenQuery"
           [] OTHER -> upc

Both == {"waitDel", "waitQuery"}

(* Mutant: the items are thrown away, but still counted.                   *)
LockedFlushUncounted ==
  /\ q' = <<>> /\ UNCHANGED level /\ min' = orig
  /\ Signal(Both)

LockedFlush ==
  /\ q' = <<>> /\ level' = 0 /\ min' = orig
  /\ Signal(Both)

(* The level when the first n items have been dequeued, one by one: EOS is *)
(* taken to be the last item, and clears it.                               *)
LevelWithout[n \in 0..Len(q)] ==
  IF n = 0 THEN level
  ELSE IF q[n] = "eos" THEN 0
  ELSE (LevelWithout[n - 1] + Word - Weight(q[n])) % Word

Dequeue(n) ==
  /\ q' = SubSeq(q, n + 1, Len(q))
  /\ level' = LevelWithout[n]

StartTask == task' = "STARTED"
PauseTask == task' = IF task = "STOPPED" THEN task ELSE "PAUSED"

-----------------------------------------------------------------------------
(* The loop of the source pad's task.                                      *)

(* Mutant: upstream is not told that the loop has given up.                *)
LoopLeavesQuietly(r) ==
  /\ srcresult' = r
  /\ PauseTask
  /\ IF r = "FLUSHING" THEN LockedFlush ELSE UNCHANGED <<lvVars, upc>>
  /\ hand' = "none" /\ drained' = FALSE
  /\ lpc' = IF eos /\ r \in {"NOT_LINKED", "ERROR"} THEN "giveUp" ELSE "idle"
  /\ UNCHANGED <<eos, unexpected, handled>>

(* 1552-1575: the loop leaves with srcresult, and the task pauses.         *)
LoopLeaves(r) ==
  /\ srcresult' = r
  /\ PauseTask
  /\ IF r = "FLUSHING" THEN LockedFlush
     ELSE Signal(Both) /\ UNCHANGED lvVars
  /\ hand' = "none" /\ drained' = FALSE
  /\ lpc' = IF eos /\ r \in {"NOT_LINKED", "ERROR"} THEN "giveUp" ELSE "idle"
  /\ UNCHANGED <<eos, unexpected, handled>>

LoopGoto(pc) ==
  /\ lpc' = pc
  /\ UNCHANGED <<lvVars, resVars, handled, task, hand, drained, upc>>

(* 1363: an item is taken and pushed without qlock.                        *)
Take ==
  /\ Dequeue(1) /\ hand' = Head(q)
  /\ Signal({"waitDel"})
  /\ lpc' = IF src.flushing THEN "refused" ELSE "push"
  /\ UNCHANGED <<min, resVars, handled, task, drained>>

(* 1518-1542, each time qlock has been taken.                              *)
Loop ==
  /\ \/ lpc = "idle" /\ task = "STARTED"
     \/ lpc \in {"underrun", "running", "wokenAdd"}
  /\ LET inner == lpc \in {"underrun", "wokenAdd"}
     IN  \/ srcresult # "OK" /\ LoopLeaves(srcresult)
         \/ /\ srcresult = "OK" /\ IsEmpty
            /\ LoopGoto(IF conf.silent \/ inner THEN "waitAdd" ELSE "underrun")
         \/ /\ srcresult = "OK" /\ ~IsEmpty
            /\ IF inner /\ ~conf.silent THEN LoopGoto("running") ELSE Take
  /\ UNCHANGED <<conVars, item, envVars>>

(* What a push may answer; between others, what waits in the queue.        *)
Guarded == {<<"EOS", "query">>, <<"NOT_LINKED", "query">>,
            <<"EOS", "segment">>, <<"EOS", "start">>}

PushResults ==
  IF lpc = "refused" THEN {"FLUSHING"}
  ELSE {r \in Results : \A k \in ToSet(q) : <<r, k>> \notin Guarded \ Hindrances}
       \cup (IF src.flushing THEN {"FLUSHING"} ELSE {})

(* The loop function returns OK and is called again.                       *)
LoopReturns ==
  /\ hand' = "none" /\ lpc' = "idle" /\ srcresult' = "OK"
  /\ UNCHANGED <<min, eos, task, drained>>

(* 1408-1452: downstream is EOS; what it would refuse is dropped.          *)
DropUnwanted ==
  LET wanted == {i \in DOMAIN q : q[i] \in Pushable}
      dropped == IF wanted = {} THEN ToSet(q)
                 ELSE {q[i] : i \in 1..(Min(wanted) - 1)}
      waits == {"waitDel"} \cup (IF "query" \in dropped THEN {"waitQuery"} ELSE {})
  IN  /\ IF q = <<>> THEN UNCHANGED upc ELSE Signal(waits)
      /\ IF wanted = {}
         THEN /\ Dequeue(Len(q))
              /\ unexpected' = TRUE
              /\ LoopReturns
         ELSE /\ Dequeue(Min(wanted))
              /\ hand' = q[Min(wanted)] /\ drained' = TRUE
              /\ lpc' = IF src.flushing THEN "refused" ELSE "push"
              /\ UNCHANGED <<min, resVars, task>>
      /\ UNCHANGED handled

BufferPushed ==
  /\ hand \in Data
  /\ \E r \in PushResults :
       \/ r = "OK" /\ LoopReturns
          /\ UNCHANGED <<q, level, unexpected, handled, upc>>
       \/ r = "EOS" /\ DropUnwanted
       \/ r \notin {"OK", "EOS"} /\ LoopLeaves(r)

(* 1454-1468: the result of a pushed event is what it was before.          *)
EventPushed ==
  /\ hand \notin Data \cup {"query"}
  /\ IF hand = "eos" \/ drained THEN LoopLeaves("EOS")
     ELSE LoopReturns /\ UNCHANGED <<q, level, unexpected, handled, upc>>

(* 1475-1480.                                                              *)
QueryPushed ==
  /\ hand = "query"
  /\ handled' = TRUE
  /\ Signal({"waitQuery"})
  /\ LoopReturns
  /\ UNCHANGED <<q, level, unexpected>>

(* The push is over and qlock is taken again.                              *)
Pushed ==
  /\ lpc \in {"push", "refused"}
  /\ \/ srcresult # "OK" /\ LoopLeaves(srcresult)
     \/ srcresult = "OK" /\ (BufferPushed \/ EventPushed \/ QueryPushed)
  /\ UNCHANGED <<conVars, item, envVars>>

(* 1570-1573: the application is told, and downstream gets an EOS.         *)
GiveUp ==
  /\ lpc = "giveUp" /\ LoopGoto("idle")
  /\ UNCHANGED <<conVars, item, envVars>>

-----------------------------------------------------------------------------
(* The streaming thread, which holds the sink pad's stream lock.           *)

UpGoto(pc) ==
  /\ upc' = pc /\ item' = IF pc = "idle" THEN "none" ELSE item
  /\ UNCHANGED <<conVars, lvVars, resVars, handled, loopVars, envVars>>

(* The pad lets an item through (gst_pad_chain, gst_pad_send_event).       *)
Send(k) ==
  /\ upc = "idle" /\ fpc # "stop"
  /\ k = "query" \/ ~sink.flushing
  /\ k = "start" \/ ~sink.eos
  /\ k \in {"start", "segment"} => EarlyStart \/ (fpc = "idle" /\ hand # "eos" /\ "eos" \notin ToSet(q))
  /\ Len(q) < Room
  /\ upc' = "call" /\ item' = k
  /\ sink' = [sink EXCEPT !.eos = @ /\ k # "start"]
  /\ UNCHANGED <<conVars, lvVars, resVars, handled, loopVars, fpc, apc, src>>

(* The item is added behind s, and the call returns.                       *)
EnqueueBehind(s, l) ==
  /\ q' = Append(s, item) /\ level' = (l + Weight(item)) % Word
  /\ SignalAdd
  /\ upc' = "idle" /\ item' = "none"

Enqueue ==
  /\ EnqueueBehind(q, level)
  /\ UNCHANGED <<conVars, min, resVars, handled, task, hand, drained, envVars>>

(* How many items gst_queue_leak_downstream discards.                      *)
Leaks(m) ==
  Min({n \in 0..Len(q) :
         ~(m > 0 /\ LevelWithout[n] >= m)})

LeakDownstream ==
  /\ EnqueueBehind(SubSeq(q, Leaks(max) + 1, Len(q)),
                   LevelWithout[Leaks(max)])
  /\ UNCHANGED <<conVars, min, resVars, handled, task, hand, drained, envVars>>

(* gst_queue_chain_buffer_or_list, each time qlock has been taken.         *)
Chain ==
  /\ item \in Data
  /\ upc \in {"call", "overrun", "running", "wokenDel"}
  /\ LET refused == \/ srcresult # "OK"
                    \/ upc = "call" /\ (eos \/ unexpected)
         telling == ~conf.silent /\ upc \in {"call", "running"}
     IN  \/ refused /\ UpGoto("idle")
         \/ /\ ~refused /\ ~IsFilled
            /\ IF upc = "wokenDel" /\ ~conf.silent THEN UpGoto("running")
               ELSE Enqueue
         \/ ~refused /\ IsFilled /\ telling /\ UpGoto("overrun")
         \/ /\ ~refused /\ IsFilled /\ ~telling
            /\ CASE conf.leaky = "no" -> UpGoto("waitDel")
                 [] conf.leaky = "upstream" -> UpGoto("idle")
                 [] conf.leaky = "downstream" -> LeakDownstream

(* gst_queue_handle_sink_event, 967-1029.                                  *)
Event ==
  /\ upc = "call" /\ item \notin Data \cup {"query"}
  /\ LET r == IF srcresult = "EOS" /\ item \in {"start", "segment"} THEN "OK"
              ELSE srcresult
         restart == eos /\ item \in {"start", "segment"}
         refused == \/ r # "OK" /\ item \notin {"start", "segment"}
                    \/ eos /\ ~restart
     IN  IF refused
         THEN /\ upc' = "idle" /\ item' = "none"
              /\ UNCHANGED <<lvVars, resVars, loopVars, sink>>
         ELSE /\ srcresult' = IF restart /\ src.active THEN "OK" ELSE r
              /\ IF restart /\ src.active THEN StartTask ELSE UNCHANGED task
              /\ eos' = (item = "eos" \/ (eos /\ ~restart))
              /\ unexpected' = (unexpected /\ ~restart /\ item # "segment")
              /\ sink' = [sink EXCEPT !.eos = @ \/ item = "eos"]
              /\ IF item = "eos" /\ conf.flushOnEos
                 THEN EnqueueBehind(<<>>, 0) /\ min' = orig
                 ELSE EnqueueBehind(q, level)
                      /\ min' = IF item = "eos" THEN 0 ELSE min
              /\ UNCHANGED <<hand, drained>>
  /\ UNCHANGED <<conVars, handled, fpc, apc, src>>

(* gst_queue_handle_sink_query: the query is queued, and waited for.       *)
Query ==
  /\ upc = "call" /\ item = "query"
  /\ \/ srcresult # "OK" /\ UpGoto("idle")
     \/ /\ srcresult = "OK"
        /\ q' = Append(q, item) /\ SignalAdd
        /\ upc' = "waitQuery"
        /\ UNCHANGED <<conVars, level, min, resVars, handled, task, hand,
                       drained, item, envVars>>

QueryWoken ==
  /\ upc = "wokenQuery"
  /\ IF srcresult = "OK" /\ ~handled THEN UpGoto("waitQuery")
     ELSE /\ upc' = "idle" /\ item' = "none" /\ handled' = FALSE
          /\ UNCHANGED <<conVars, lvVars, resVars, loopVars, envVars>>

-----------------------------------------------------------------------------
(* A flushing seek: FLUSH_START, then FLUSH_STOP with the stream lock.     *)

FlushGoto(pc) ==
  /\ fpc' = pc
  /\ UNCHANGED <<conVars, hand, drained, item, apc>>

(* The pad starts flushing, and the event is forwarded (923).              *)
FlushStart ==
  /\ fpc = "idle" /\ ~sink.flushing
  /\ EarlyStart \/ ~eos \/ item \notin {"start", "segment"}
  /\ sink' = [sink EXCEPT !.flushing = TRUE]
  /\ src' = [src EXCEPT !.flushing = TRUE]
  /\ FlushGoto("start")
  /\ UNCHANGED <<lvVars, resVars, handled, task, lpc, upc>>

(* Mutants: the query's sender is told at once; only the loop is woken.    *)
FlushUnblockAll ==
  /\ fpc = "start"
  /\ srcresult' = "FLUSHING"
  /\ SignalAdd /\ Signal(Both)
  /\ FlushGoto("pause")
  /\ UNCHANGED <<lvVars, eos, unexpected, handled, task, sink, src>>

FlushUnblockChain ==
  /\ fpc = "start"
  /\ srcresult' = "FLUSHING"
  /\ Signal({"waitDel"})
  /\ FlushGoto("pause")
  /\ UNCHANGED <<lvVars, eos, unexpected, handled, task, lpc, sink, src>>

(* 927-932: the chain function and the loop are unblocked.                 *)
FlushUnblock ==
  /\ fpc = "start"
  /\ srcresult' = "FLUSHING"
  /\ SignalAdd /\ Signal({"waitDel"})
  /\ FlushGoto("pause")
  /\ UNCHANGED <<lvVars, eos, unexpected, handled, task, sink, src>>

(* Mutant: the task is paused without a wait for its function.             *)
FlushPauseOnly ==
  /\ \/ fpc = "pause" /\ PauseTask /\ FlushGoto("wait")
     \/ fpc = "wait" /\ FlushGoto("notify") /\ UNCHANGED task
  /\ UNCHANGED <<lvVars, resVars, handled, lpc, upc, sink, src>>

(* 936: the task is paused, and its function waited for.                   *)
FlushPause ==
  /\ \/ fpc = "pause" /\ PauseTask /\ FlushGoto("wait")
     \/ fpc = "wait" /\ lpc = "idle" /\ FlushGoto("notify") /\ UNCHANGED task
  /\ UNCHANGED <<lvVars, resVars, handled, lpc, upc, sink, src>>

(* 942-945: whoever waits for a query is told.                             *)
FlushNotify ==
  /\ fpc = "notify"
  /\ Signal({"waitQuery"})
  /\ FlushGoto("flushing")
  /\ UNCHANGED <<lvVars, resVars, handled, task, lpc, sink, src>>

(* FLUSH_STOP comes to the pad, which refuses it when it is not active.    *)
FlushStop ==
  /\ fpc = "flushing"
  /\ Overlaps \/ apc \in {"on", "off"}
  /\ IF sink.active
     THEN /\ sink' = [sink EXCEPT !.flushing = FALSE, !.eos = FALSE]
          /\ FlushGoto("lock")
     ELSE FlushGoto("idle") /\ UNCHANGED sink
  /\ UNCHANGED <<lvVars, resVars, handled, task, lpc, upc, src>>

(* With the stream lock, the event is forwarded (949).                     *)
FlushForward ==
  /\ fpc = "lock" /\ upc = "idle"
  /\ IF sink.flushing THEN FlushGoto("idle") /\ UNCHANGED src
     ELSE /\ src' = [src EXCEPT !.flushing = @ /\ ~src.active]
          /\ FlushGoto("stop")
  /\ UNCHANGED <<lvVars, resVars, handled, task, lpc, upc, sink>>

(* Mutant: the flush leaves the task as it is.                             *)
FlushEnds ==
  /\ fpc = "stop"
  /\ LockedFlush
  /\ srcresult' = "OK" /\ eos' = FALSE /\ unexpected' = FALSE
  /\ FlushGoto("idle")
  /\ UNCHANGED <<handled, task, lpc, sink, src>>

(* 951-963: the queue is emptied and the task runs again.                  *)
FlushRestart ==
  /\ fpc = "stop"
  /\ LockedFlush
  /\ srcresult' = "OK" /\ eos' = FALSE /\ unexpected' = FALSE
  /\ IF src.active THEN StartTask ELSE UNCHANGED task
  /\ FlushGoto("idle")
  /\ UNCHANGED <<handled, lpc, sink, src>>

-----------------------------------------------------------------------------
(* A state change to READY and back; source pads come first both times     *)
(* (gst_element_pads_activate).                                            *)

StateGoto(pc) ==
  /\ apc' = pc
  /\ UNCHANGED <<conVars, hand, drained, item, fpc>>

(* gst_queue_src_activate_mode, FALSE, after pre_activate.                 *)
SrcDeactivate ==
  /\ \/ /\ apc = "on" /\ (Overlaps \/ fpc \notin {"lock", "stop"})
        /\ src' = [active |-> FALSE, flushing |-> TRUE]
        /\ StateGoto("src")
        /\ UNCHANGED <<lvVars, srcresult, task, lpc, upc>>
     \/ /\ apc = "src"
        /\ srcresult' = "FLUSHING" /\ SignalAdd
        /\ StateGoto("stop")
        /\ UNCHANGED <<lvVars, task, upc, src>>
     \/ /\ apc = "stop" /\ task' = "STOPPED"
        /\ StateGoto("join")
        /\ UNCHANGED <<lvVars, srcresult, lpc, upc, src>>
     \/ /\ apc = "join" /\ lpc = "idle"
        /\ LockedFlush
        /\ StateGoto("sinkOff")
        /\ UNCHANGED <<srcresult, task, lpc, src>>
  /\ UNCHANGED <<eos, unexpected, handled, sink>>

(* gst_queue_sink_activate_mode, FALSE.                                    *)
SinkDeactivate ==
  /\ \/ /\ apc = "sinkOff"
        /\ sink' = [sink EXCEPT !.active = FALSE, !.flushing = TRUE]
        /\ StateGoto("sink")
        /\ UNCHANGED <<lvVars, srcresult, upc>>
     \/ /\ apc = "sink"
        /\ srcresult' = "FLUSHING" /\ Signal({"waitDel"})
        /\ StateGoto("drain")
        /\ UNCHANGED <<lvVars, sink>>
     \/ /\ apc = "drain" /\ upc = "idle" /\ fpc # "stop"
        /\ LockedFlush
        /\ sink' = [sink EXCEPT !.eos = FALSE]
        /\ StateGoto("off")
        /\ UNCHANGED srcresult
  /\ UNCHANGED <<eos, unexpected, handled, task, lpc, src>>

(* Both functions, TRUE.                                                   *)
Activate ==
  /\ \/ /\ apc = "off" /\ fpc = "idle"
        /\ src' = [active |-> TRUE, flushing |-> FALSE]
        /\ StartTask
        /\ StateGoto("sinkOn")
        /\ UNCHANGED sink
     \/ /\ apc = "sinkOn"
        /\ sink' = [sink EXCEPT !.active = TRUE, !.flushing = FALSE]
        /\ StateGoto("on")
        /\ UNCHANGED <<task, src>>
  /\ srcresult' = "OK" /\ eos' = FALSE /\ unexpected' = FALSE
  /\ UNCHANGED <<lvVars, handled, lpc, upc>>

-----------------------------------------------------------------------------
(* RECONFIGURE from downstream: a pad that was not linked tries again.     *)
Reconfigure ==
  /\ ~src.flushing /\ srcresult = "NOT_LINKED"
  /\ srcresult' = "OK" /\ StartTask
  /\ UNCHANGED <<conVars, lvVars, eos, unexpected, handled, lpc, hand, drained,
                 upVars, envVars>>

(* Mutant: nobody hears of the new size.                                   *)
SetMaxSizeQuietly(n) ==
  /\ n # max /\ (Shrinks \/ n = 0 \/ n >= orig)
  /\ max' = n
  /\ IF conf.leaky = "downstream" THEN Dequeue(Leaks(n)) ELSE UNCHANGED <<q, level>>
  /\ UNCHANGED <<conf, orig, min, resVars, handled, loopVars, upVars, envVars>>

(* max-size-buffers is set (queue_capacity_change).                        *)
SetMaxSize(n) ==
  /\ n # max /\ (Shrinks \/ n = 0 \/ n >= orig)
  /\ max' = n
  /\ IF conf.leaky = "downstream" THEN Dequeue(Leaks(n))
     ELSE UNCHANGED <<q, level>>
  /\ Signal({"waitDel"})
  /\ UNCHANGED <<conf, orig, min, resVars, handled, loopVars, item, envVars>>

(* min-threshold-buffers is set.                                           *)
SetMinThreshold(n) ==
  /\ n # orig /\ (Shrinks \/ max = 0 \/ max >= n)
  /\ orig' = n /\ min' = n
  /\ SignalAdd
  /\ UNCHANGED <<conf, max, q, level, resVars, handled, task, hand, drained,
                 upVars, envVars>>

-----------------------------------------------------------------------------
LoopStep == Loop \/ Pushed \/ GiveUp
UpStep == Chain \/ Event \/ Query \/ QueryWoken
FlushStep == FlushUnblock \/ FlushPause \/ FlushNotify \/ FlushForward \/ FlushRestart
StateStep == SrcDeactivate \/ SinkDeactivate \/ Activate

Next ==
  \/ LoopStep \/ UpStep
  \/ \E k \in Kinds : Send(k)
  \/ FlushStart \/ FlushStop \/ FlushStep
  \/ StateStep
  \/ Reconfigure
  \/ \E n \in MaxSizes : SetMaxSize(n)
  \/ \E n \in MinSizes : SetMinThreshold(n)

Spec == Init /\ [][Next]_vars

(* Threads go on with the calls they have begun, and downstream comes back *)
(* from each push.                                                         *)
FairSpec ==
  /\ Spec
  /\ WF_vars(LoopStep) /\ WF_vars(UpStep)
  /\ WF_vars(FlushStep) /\ SF_vars(FlushForward)
  /\ WF_vars(SrcDeactivate /\ apc # "on") /\ SF_vars(SinkDeactivate)

-----------------------------------------------------------------------------
QueueTypeOK ==
  /\ conf \in Configs /\ max \in MaxSizes /\ {min, orig} \subseteq MinSizes \cup {0}
  /\ q \in Seq(AllKinds) /\ level \in 0..(Word - 1)
  /\ srcresult \in AllResults \cup {"FLUSHING"}
  /\ {eos, unexpected, handled, drained} \subseteq BOOLEAN
  /\ task \in {"STOPPED", "STARTED", "PAUSED"}
  /\ lpc \in LoopPCs /\ hand \in AllKinds \cup {"none"}
  /\ (lpc \in {"push", "refused"}) <=> (hand # "none")
  /\ upc \in UpPCs /\ item \in AllKinds \cup {"none"}
  /\ (upc = "idle") <=> (item = "none")
  /\ fpc \in FlushPCs /\ apc \in StatePCs
  /\ sink \in [active : BOOLEAN, flushing : BOOLEAN, eos : BOOLEAN]
  /\ src \in [active : BOOLEAN, flushing : BOOLEAN]

(* What the fill tests compare with the limits (1115-1135) is what is in   *)
(* the queue, although EOS, flushes and drops set it by other ways than    *)
(* counting (703, 870, 1136, 1408); an error would let the queue starve or *)
(* grow without bound.                                                     *)
LevelExact == level = TotalWeight(q)

(* "Otherwise downstream might have a query that is already unreffed       *)
(* upstream" (939): a query the loop may still touch belongs to a sender   *)
(* that waits for it, and the mark of a handled query never outlives the   *)
(* wait, where it could be taken for the answer to the next (1077).        *)
QueryHasSender ==
  /\ (srcresult = "OK" /\ "query" \in ToSet(q)) \/ hand = "query" =>
       upc \in {"waitQuery", "wokenQuery"}
  /\ handled => upc \in {"waitQuery", "wokenQuery"}

(* When FLUSH_STOP has been sent downstream, nothing from before the flush *)
(* is on its way there (936, 949), as long as the queue still refuses data.*)
(* Two other threads may get the loop to run before 951: a STREAM_START or *)
(* SEGMENT that had passed the pad behind an EOS makes the queue accept    *)
(* data again (1001), and a deactivation that comes then stops it anew.    *)
FlushStopIsQuiet ==
  fpc = "stop" /\ srcresult = "FLUSHING" /\ apc \notin {"stop", "join"} =>
    lpc \notin {"push", "refused", "giveUp"}

(* A queue that accepts data has a task that will push it: EOS, errors,    *)
(* flushes, RECONFIGURE and activation change srcresult and the task       *)
(* together (953, 1005, 1563, 1594, 1754).                                 *)
LoopRunsWhileOK ==
  srcresult = "OK" /\ src.active /\ fpc = "idle" => task = "STARTED"

(* The two condition variables: who sleeps has a reason to, and nobody has *)
(* forgotten to signal.  Deactivation of the source pad leaves the chain   *)
(* function to that of the sink pad (1718).                                *)
NoLostWakeup ==
  /\ lpc = "waitAdd" => IsEmpty /\ srcresult = "OK"
  /\ upc = "waitDel" =>
       IsFilled /\ (srcresult = "OK" \/ apc \in {"stop", "join", "sinkOff", "sink"})

(* The queue starts, pauses and stops its task, and waits for it, as       *)
(* gstpad.c allows it to.                                                  *)
Contract == INSTANCE PadTaskContract WITH
  Callers <- {"seek", "state change"},
  tstate  <- task,
  busy    <- lpc # "idle",
  waiting <- {c \in {"seek", "state change"} :
                IF c = "seek" THEN fpc = "wait" ELSE apc = "join"}

UsesPadTask == Contract!ContractSpec

(* Whatever upstream pushes into the queue, the call returns: also the     *)
(* serialized query, with a minimum threshold in the way (1110).           *)
UpstreamReturns == upc # "idle" ~> upc = "idle"

(* A flush and a deactivation return: the loop and the streaming thread    *)
(* get out of their waits (928, 1718, 1762).                               *)
FlushAndStopReturn ==
  /\ fpc = "start" ~> fpc = "flushing"
  /\ apc = "src" ~> apc = "off"
=============================================================================
