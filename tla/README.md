# A verification development for the GStreamer core

This directory holds TLA+ modules that model the concurrent core of GStreamer
(`src/gstreamer/gst`) and its queue element, TLC configurations that check them
on small instances, and TLAPS proofs for all of the modelled components. Line
numbers are those of the repository; a bare number in a comment of a module
refers to the C file that the module's header names.

- [1. The system](#1-the-system): inventory of the components
- [2. The modules and the code](#2-the-modules-and-the-code)
- [3. The runs](#3-the-runs): what is checked, bounds, fairness
- [4. The proofs](#4-the-proofs)
- [5. Where code and documentation disagree](#5-where-code-and-documentation-disagree)
- [6. What is not covered](#6-what-is-not-covered)
- [7. Plan](#7-plan)

To run a model: `tlc -config task.cfg MCGstTask`. To check the proofs of a
module: `tlapm GstTaskProofs.tla`. `PROJECT.json` lists the runs, for every
property a mutation of the code that breaks it, and for every definition the
source lines it stands for.

## 1. The system

The repository bundles the GStreamer core (`src/gstreamer`), the base, good and
bad plugin collections and the libav wrapper (`src/gstplugins_*`,
`src/gst_libav`) and a small tracing hook (`src/gst_dfx`). Codecs, formats and
devices are users of the core. The program's own logic is in
`gstreamer/gst/*.c` with the base classes in `gstreamer/libs/gst/base` and the
queues in `gstreamer/plugins/elements`: a graph of elements through which
buffers flow in streaming threads, while application threads change the state of
the graph and read messages from its bus.

The threads of a running pipeline meet at few places:

- the **STATE_LOCK** of an element (recursive) serialises state changes; its
  **OBJECT_LOCK** protects the fields; the state condition wakes `get_state`;
- the **stream lock** of a pad (recursive) is held by the thread that pushes
  data, and by whoever wants to wait until that thread is out;
- a **GstTask** borrows a thread from a pool and runs the pad's function in a
  loop until told to pause or stop, with one condition for all sleepers;
- a **queue** hands items from one streaming thread to the next under one lock
  with three conditions, while flushes and state changes cut in from both sides;
- the **bus** and the **buffer pool** put items in an atomic queue and tokens in
  a **GstPoll** so that others can sleep on them;
- the **clock** puts threads to sleep until a time or until unscheduled;
- **messages** go from streaming threads to the bus, from child to bin (through
  a synchronous handler), and end asynchronous state changes.

| component | state | operations | hard behaviour | what makes it correct |
|---|---|---|---|---|
| tasks (`gsttask.c`) | state, running, thread, lock, pool id, one GCond | start, pause, stop, resume, join, set_lock, the loop of the thread | one `g_cond_signal` for joiners and the worker; a start while the old thread leaves | one thread per task; a returned join is a barrier; started tasks run |
| pad tasks (`gstpad.c` 6272-6473) | the pad's task, stream lock | start_task, pause_task, stop_task | lock released between creation and start; stop then start; waiting for the stream lock | no thread left after stop; pause and stop are barriers; no start is lost |
| atomic queue (`gstatomicqueue.c`) | linked arrays with head, tail_write, tail_read | push, pop, peek | every access races with growth and retirement of arrays | nothing lost, duplicated or reordered |
| buffer pool (`gstbufferpool.c`) | active, flushing, started, counters, queue, poll | set_config, set_active, set_flushing, acquire, release | the token protocol; the last buffer comes back during (de)activation | tokens and buffers accounted for; maximum kept; flushing unblocks |
| element state (`gstelement.c`) | state, next, pending, return, target, cookie | set_state, get_state, change_state, continue_state, abort_state, lost_state | streaming threads end changes from outside; new targets overtake | the class sees an unbroken walk; the fields say where it is; waiters return |
| bus (`gstbus.c`) | queue, poll, flushing, queue_lock | post, timed_pop_filtered, set_flushing | asynchronous delivery waits for the message's last reference; flush races with posts | one owner per message; tokens match messages; posters return |
| queues, tees (`plugins/elements`) | level, limits, srcresult, eos, the task of the source pad | chain, events, queries, loop, flush, leak, activate | two streaming threads, a flush and a state change on two conditions | exact level; nobody sleeps for nothing; calls return; a flush is quiet |
| clocks (`gstclock.c`, `gstsystemclock.c`) | entries sorted by time, per-entry status and lock, the clock's thread | wait, wait_async, unschedule, dispose | unschedule races with the timeout; a new first entry; early sleep ends | early by the minimum wait at most, due entries fire, unscheduled is final, waits return |
| poll (`gstpoll.c`) | descriptor sets, control_pending, waiting, flushing | add/remove/ctl, wait, restart, write/read_control | wakeup and release of the control socket by several threads | a written token wakes, a read one does not |
| bins (`gstbin.c`, `gstpipeline.c`) | children, messages, polling flags, cookie | add, remove, change_state, message handling, continue_func | ASYNC_START and ASYNC_DONE race with set_state; another thread continues the change | the bin's state is that of its children |
| pads (`gstpad.c`, `gstghostpad.c`, `gstevent.c`) | peer, mode, flags, sticky events, probes, idle counter | link, activate, push, pull, push_event, probes | blocking probes, flushing and events interleave | sticky events precede data and keep their order; flushing gets everybody out |
| mini objects, objects | reference count and lock word in one atomic | ref, unref, lock, unlock, weak refs, qdata | share count and lock count in one word | freed once; writable only when alone |
| buffers, memory, allocators, meta | memories, offsets | map, merge, copy, resize | mapping modes shared between buffers | contents and sizes preserved |
| caps, structures, values | typed values | intersect, union, fixate, compare | algebra on data | algebraic laws |
| messages, queries, segments | containers; segment fields | parse, clip, do_seek, to_running_time | arithmetic at boundaries | conversions invert each other |
| plugins, registry, loader | feature lists, cache file, helper process | scan, load, save | helper process crashes | the registry survives bad plugins |
| devices, promises, tracing, debug, launch syntax | - | - | glue, observation, a generated parser | - |
| base classes (`libs/gst/base`) | preroll, segment, queue array, data queue | render, wait_preroll, create, adapters | preroll against flush and state changes | a flush ends every wait |
| controller, net, check libraries; plugin collections | - | - | users of the core | - |

The components of `PROJECT.json` are the rows of this table, modelled or not.

## 2. The modules and the code

    PadTaskContract              what a pad's task promises an element
      ^            ^
      | implements | relied on
      |            |
    GstPadTask   GstQueue
      |
      | EXTENDS, implements GstTask!Spec
      v
    GstTask

    GstAtomicQueue   GstBufferPool   GstBus   GstElement   GstSystemClock

    MCGst*      gives the constants of a module their values for TLC
    Gst*Proofs  EXTENDS a module and proves its theorems: GstTask, GstPadTask,
                GstAtomicQueue, GstBufferPool, GstBus, GstElement, GstQueue and
                GstSystemClock have one each

GstBufferPool and GstBus use an ideal queue and a counter of tokens where the
code uses GstAtomicQueue and GstPoll.

In all modules a step is one critical section or one access to shared memory;
a local variable of the code that is dead is reset, so that states which behave
alike are one state. Names follow the code (`wpc` and the like are places of a
thread in a function, with their line next to their declaration).

### GstTask - `gsttask.c`

One record of variables per task (`taskState`, `running`, `thread`, `lock`,
`poolId`), the sleepers on its GCond (`waiters`), the calls pushed on the pool
(`jobs`) and the owner of each stream lock. Pool threads walk through
`gst_task_func` (`PickUp`, `Entry`, `TakeStreamLock`, `TestState`, `Unpark`,
`FuncReturns`, `DropStreamLock`, `ClearThread`, `Leave`). Controllers call
`SetState` (start, pause and stop are `gst_task_set_state`), `Resume`,
`SetLock` and `Join`/`JoinWoken`; the task function may set its own task's
state (`FuncSetState`). `GST_TASK_SIGNAL` is `g_cond_signal` and wakes *one*
sleeper, any of them; waits may return without a signal (`SpuriousWakeup`). The
pool is a set of threads that pick up pushed calls; a push may fail
(`PushMayFail`).

### GstPadTask - `gst_pad_start_task`, `_pause_task`, `_stop_task`

Extends GstTask with the pad's pointer `padTask` and its callers. The pad's
functions call `SetStateUnlocked` and `Join` of GstTask inside the pad's
critical sections and wait for the stream lock outside of them
(`StreamLockBarrier`). A member of `Tasks` is the *memory* of a task:
`gst_task_new` may return an address that was freed, which matters since
`gst_pad_start_task` compares addresses when it has posted its message. A member
of `Controllers` is one call in progress.

The task function may pause its own task (`FuncPadPause`) and may also stop it
(`FuncPadStop`). The documentation says of the latter that it "will deadlock"
(`gstpad.c:6409`); the code does not: the stream lock is recursive,
`gst_task_join` refuses to join its own thread (`PadJoinRefused`,
`gsttask.c:914`), and `join_failed` (6459-6472, `PadPutBack`) gives the pad its
STOPPED task back, unless another caller has started a new task meanwhile.
`within` says which pool thread such a call is made by, and `unjoined` collects
the tasks whose stop failed. Two properties have an exception for them.
`PadStartNotLost`: the task on the pad is STOPPED and its thread is leaving, so
a start that comes next is lost, by the same line as in `task_lost_start`; TLC
finds this as soon as the exception is taken out. `NoStrayThread`: when the
pad has another task, the reference of the failed stop is leaked and nobody
waits for the thread.

Two specifications are implemented, both checked and both proved. `UsesTask` is
`GstTask!Spec`: whatever callers do to a pad, its tasks see only what GstTask
allows. `KeepsContract` is `PadTaskContract` under the refinement mapping
`tstate <-` the state of the pad's task (STOPPED without one), `busy <-` a
thread is inside the task's function, `waiting <-` the callers in pause or stop
that wait for the stream lock.

### PadTaskContract

What an element may rely on when it drives its pad's task: the function runs in
one thread at a time, a run of it begins only while the task is STARTED, and a
pause or stop by another thread returns at a moment when the function does not
run. Three variables and five actions; GstPadTask implements it, and GstQueue is
checked and proved to be a correct user of it (`UsesPadTask`).

### GstQueue - `plugins/elements/gstqueue.c`

The largest component: the streaming thread (`Chain`, `Event`, `Query`), the
loop of the source pad's task (`Loop`, `Pushed`, `GiveUp`), a flushing seek
(`FlushStart` ... `FlushRestart`), the state change that switches the pads
(`SrcDeactivate`, `SinkDeactivate`, `Activate`), RECONFIGURE, and the setters of
the limits. A step is one critical section of `qlock`, or one call made without
it; `waitAdd`, `waitDel` and `waitQuery` are the sleepers on `item_add`,
`item_del` and `query_handled`, and the signals wake only a sleeper that the
`waiting_*` flag or the condition names. Limits count buffers, in a guint that
wraps at `Word`; bytes and time follow the same code. The loop pushes without
the lock and downstream answers anything in `Results`; after EOS it drops what
downstream would refuse (`DropUnwanted`, 1408-1452), a piece of code with its
own way of keeping levels, queries and events. The properties `leaky`,
`flush-on-eos` and `silent` are in `conf`; without `silent` the lock is released
around the signals `overrun`, `underrun` and `running`.

### GstSystemClock - `gstsystemclock.c`

Threads that wait on an entry themselves (`Sync`, `gst_clock_id_wait`), the
clock's thread that works through a sorted list (`Async`,
`gst_clock_id_wait_async`), and clients that add, unschedule and dispose. Two
kinds of lock order the steps: the clock's OBJECT_LOCK (`holder`) and one lock
per entry, which a wait holds at the places `Locking`. The wait itself
(`gst_system_clock_id_wait_jitter_unlocked`) is one set of actions used by both
kinds of entries: read the status, compute the jitter, sleep, read the status
again, decide. A sleep ends when signalled, for no reason (futex EINTR and
EAGAIN), or at its time; and up to half a millisecond *before* its time, since
the code shortens the sleep on purpose (987-1003): `Short` ticks here. A kick
meant for a thread that has just timed out in this tolerance is lost,
harmlessly, and `SleepIsJustified` says exactly this. `MinWait` is
CLOCK_MIN_WAIT_TIME (100 ns with futexes, 500 ns with pthreads, 1 us and on
Windows 1 ms with GCond): what is left of a wait below it is not waited for
(`TimeHasCome`). So the code does end a wait before its time, with OK after a
sleep (1057) and even with EARLY without one (1082-1088, where
gstclock.h:303 explains EARLY as scheduled too late), and `NeverEarly` says that
it does so by no more than this. `dispose` writes the
status of entries without their locks (492), which is why `UnscheduledIsFinal`
exempts a clock that is being disposed of. `WaitSync` takes the two locks of
`gst_system_clock_id_wait_jitter` as one step: an entry unscheduled between them
counts as unscheduled before the call. Running the callback is a step of its own
after the entry's lock is released, so the model contains the callback that
comes after a returned unschedule (section 6). `Dispose` is called by a client;
the last reference dropped by a callback, where the clock's thread would join
itself (515), is left out.

### GstAtomicQueue - `gstatomicqueue.c`

Each atomic access is a step, those of the search for a slot and those of the
exchange. `mems` is the list of arrays in the order in which they become
`tail_mem`; `next`, `headMem` and `tailMem` are moved separately, as the code
does. `popped` records what the pops returned. `length`, reference counting and
the LOW_MEM variant are left out.

### GstBufferPool - `gstbufferpool.c`

The queue is a count of free buffers, the poll a count of tokens, and each
function is split where another thread can look: `acquire_buffer` with
`default_acquire_buffer` and `do_alloc_buffer`, `release_buffer`,
`dec_outstanding`, `set_active` with start, stop and flushing, `set_flushing`
and `set_config`. `discarded` counts buffers that came back unfit to be kept
(their token stays in the poll).

### GstElement - `gstelement.c`

The four state fields, the target and the STATE_LOCK of one element, with three
kinds of threads: `Setters` call `set_state`, `Streamers` end (`AsyncDone`),
abort (`AbortState`) or lose (`LostState`) what the class began, `Getters` wait
in `get_state`. The class is external and answers within `Answers`: only a
change to PAUSED or PLAYING is asynchronous, which is what `gstbasesink.c` and
`gstipcpipelinesink.c` do, and every change may fail, one downwards when pads
cannot be deactivated (3305). `level`, `sure` and
`sawError` are histories: the state the class is really in, whether a failure
since left that open, and which getters a failure concerns. `busy` says that a
streaming thread owes the end of a change. The element's cookie is an unbounded
counter that is only compared for equality by a waiter; the set `stale` holds
the waiters whose comparison would fail.

### GstBus - `gstbus.c`

Posters go through the flushing check, the synchronous handler (which may drop,
pass, or ask for asynchronous delivery), the push and the write of the token;
with asynchronous delivery they then wait until the last reference of their
message is dropped (`Unref`, i.e. `_gst_message_dispose`). Takers are the
callers of `timed_pop_filtered` and the thread in `set_flushing`, which pops
under the OBJECT_LOCK with a timeout of zero. Memory of messages is used again
once freed. The wait of the poster is one `g_cond_wait` without a loop (410), so
that it may also return without a signal (`SpuriousWakeup`): the poster then
clears the flag and drops the reference that the queue or a taker owns, and the
message is freed under them. `early` remembers these messages until those who
still had them have dropped them too. The queue is a FIFO with atomic
operations, which is what the bus expects of it; GstAtomicQueue examines whether
it may.

## 3. The runs

| run | module | states | what it shows |
|---|---|---|---|
| `task` | MCGstTask | 271 | a task and its pool under every order of calls: one thread, join as a barrier, the stream lock around the function, and started tasks run |
| `task_lost_start` | MCGstTask | violation | a start that meets a leaving thread is lost |
| `pad_task` | MCGstPadTask | 93 152 | a pad uses its tasks correctly and keeps its contract, stops return, and no start is lost but after a stop that a function made of its own task |
| `atomic_queue` | MCGstAtomicQueue | 361 016 | with growth at every push: no duplicates, order per writer within an array, busy waits have somebody to wait for |
| `atomic_queue_loss` | MCGstAtomicQueue | violation | an array can be skipped with items in it |
| `buffer_pool` | MCGstBufferPool | 129 433 | tokens and buffers accounted for, the maximum kept, flushing unblocks, control calls return |
| `buffer_pool_wakeup` | MCGstBufferPool | violation | two sleepers and a free buffer |
| `element` | MCGstElement | 23 730 | the class sees an unbroken walk, the fields are right between calls, waiters return |
| `bus` | MCGstBus | 59 434 | one owner per message, tokens match, flush leaves only late messages, posters return |
| `queue` | MCGstQueue | 162 098 | level, queries, flushes, EOS and the conditions of the queue work together, it uses its task as pads allow, and calls into it return |
| `queue_query` | MCGstQueue | violation | a serialized query dropped after EOS leaves its sender asleep |
| `system_clock` | MCGstSystemClock | 218 920 | sleeps are justified, nothing ends more than CLOCK_MIN_WAIT_TIME early, due entries fire, unscheduled is final, waits and calls return |

### Bounds

- **task**: one task (tasks share nothing but the stream lock), two pool threads
  (the second is what a double push would start), two locks so that swapping is
  visible, a failing push, and a function that gives its task any state. One
  controller: `StartedRuns` holds only for a single joiner, since each event
  signals one sleeper. The safety properties need no such bound, see section 4.
  No variable needs a constraint.
- **pad_task**: two calls at a time, two tasks and two threads: one task being
  joined while the next one starts, and the address of the first used again. A
  function may stop its own task while another caller starts a new one.
- **atomic_queue**: the code's first array has at least 16 slots; `InitSlots`
  stands for that number and is 1, so that full, growing and moving on happen at
  once. `Pushes` bounds the pushes of a writer to 2; two writers and two readers.
  Writers and readers are symmetric, and only invariants are checked under
  symmetry. The loss needs one writer, one reader, two slots and three pushes.
  The three invariants are proved for every number of threads, slots and pushes.
- **buffer_pool**: two acquirers compete for the last buffer; minimum 2 and
  maximum 3, so that allocation, refusal and sleep all happen; `MaxDiscards` 1.
  One configuration: configuring again after a failed start resets the count of
  buffers (section 6).
- **element**: two setters with any target, one streaming thread, one waiter:
  every pair of overlapping changes and each way to end one. Unbounded
  repetition is included; the state space is finite by itself.
- **bus**: two posters, memory for two messages, one of a type nobody asks
  for, one consumer and the flushing thread. Posting is unbounded since memory is
  used again, and posters may wake unsignalled at any time. With memory for three
  messages there are 751 834 states, which takes four minutes and shows the same.
- **queue**: `Room` bounds the queue to two items beyond what the limits allow,
  `max-size-buffers` is 1 or 2 and `min-threshold-buffers` 0 or 1 and both change
  under way, so that filled, below the threshold, and full of events all happen.
  `Word` 8 makes an error of the count wrap visibly, while the weight of a full
  queue still fits, as it does in 32 bits. Three sets of properties cover each
  `leaky` mode, signals with the lock released, and flush-on-eos. Four
  switches are off, each because the code misbehaves when it is on, and each is
  described in section 6: `Hindrances` (an answer of downstream that meets a
  query or an event waiting behind), `EarlyStart` (STREAM_START or SEGMENT while
  EOS is still queued, or during a flush: a guard of `Send`, and one of
  `FlushStart` that the code does not have), `Overlaps` (FLUSH_STOP during a
  deactivation) and `Shrinks` (a maximum below the threshold). `queue_query`
  turns on one member of `Hindrances`. A `Query` is modelled while the sink pad
  has not seen EOS, and `Activate` waits for a flush to end.
- **system_clock**: one synchronous wait due at 2 or not before the clock stops,
  one single-shot and one periodic entry, two clients, `MaxNow` 2. `MinWait` is 1
  and `Short` 2, so that waits end before their time, and sleeps that were cut
  short go on, both of which the code does. The periodic entry comes to lie
  before and behind the other one. `DueFires` needs that there are only two
  entries in the list: with three, two overdue ones that clients unschedule,
  create again and put back in front by turns keep the third from ever being
  picked. TLC shows it (29 584 states, no time passes), and the code is the same
  there. The system really stops when the clock is disposed of, hence
  `CHECK_DEADLOCK FALSE`.

### Fairness

- Pool threads run and task functions return (weak fairness on `WorkerStep`); a
  woken joiner gets the lock. No call is ever assumed to be made.
- In a pad, a thread asking for the stream lock is not passed over for ever
  (strong fairness). This is an assumption about the scheduler, not a promise
  of `g_rec_mutex`; the task's thread keeps the lock across iterations and gives
  it up only when it parks or leaves. `StopReturns` still exempts a task that is
  started again, and a task function that waits in a join: when its pad has a
  new task, a stop by the old task's function joins that one, with the stream
  lock held.
- In the pool, a thread inside a call goes on; a buffer need never come back.
- In the element, a class that answered ASYNC ends its change (this is its
  contract: a sink posts ASYNC_DONE at preroll or aborts), setters go on, and
  woken waiters run. `set_state` is never assumed to be called.
- In the bus, threads go on, `queue_lock` is not denied to a waiter for ever
  (strong fairness, again an assumption about the mutex), and the
  application keeps asking for messages, as a main loop with a watch does.
  Without the last, a poster of a synchronous delivery waits for ever, as the
  code intends.
- In the queue, the loop, a call from upstream and a flush that has begun go on,
  and downstream comes back from each push (weak fairness). FLUSH_STOP and the
  deactivation of the sink pad get the stream lock of the sink pad in the end
  (strong fairness: between two buffers upstream releases it). Nobody is assumed
  to send anything, to flush, or to change the state.
- In the clock, time goes on until `MaxNow`, waits and the clock's thread run,
  sleeps end once their time has come (weak fairness), and a lock that is
  released again and again is not denied to the clock's thread or to a client
  for ever (strong fairness). A sleep is not assumed to end early or without a
  reason.

### Properties per module

*GstTask.* `TypeOK`; `OneThreadPerTask`; `JoinIsBarrier` (not running means no
thread and none pushed: the caller of join may free the lock);
`FuncHoldsStreamLock`; `SelfJoinDetected` (the comparison against
`task->thread` that refuses a join from the function cannot miss, though joiners
reset the field); `StartedRuns` (the one signal is not lost; that it can go to
another sleeper does not show with a single controller).

*GstPadTask.* `NoStrayThread`, `PadStartNotLost` (the lost start of GstTask
cannot happen through a pad, because a pad never starts a task that it has
stopped, but for one that a failed stop has put back), `UsesTask`,
`KeepsContract` (a property of safety: that a pause gets the stream lock in the
end is not among them), `StopReturns`.

*GstAtomicQueue.* `NoDuplicates`, `WriterOrder` (within one array),
`BusyWaitEnds` (whoever a pusher waits for is on its way).

*GstBufferPool.* `TokenBalance` (which counts the token a discarded buffer leaves
behind as the code does), `CurBuffersExact`, `MaxBuffersRespected`,
`FlushUnblocks`, `ControlReturns`.

*GstElement.* `Contiguous`, `RestsWhereClassIs`, `GetStateReturns` (that it
returns, not what it answers).

*GstBus.* `TokenBalance` (a main loop never sleeps on messages, nor wakes for
nothing), `OneOwner` (a queued message is not freed), `FlushLeavesOnlyLate`,
`PostReturns`.

*GstQueue.* `LevelExact` (what the fill tests compare is what is queued,
although EOS, flushes and drops set it by other ways than counting),
`QueryHasSender` (a query that the loop may touch still belongs to a sender that
waits), `FlushStopIsQuiet` (while the queue refuses data, nothing from before a
flush follows its FLUSH_STOP), `LoopRunsWhileOK` (a queue that accepts data has
a task to push it), `NoLostWakeup`, `UsesPadTask`, `UpstreamReturns`,
`FlushAndStopReturn`.

*GstSystemClock.* `SleepIsJustified`, `UnscheduledIsFinal`, `NeverEarly`,
`DueFires`, `WaitEnds`, `CallsReturn`.

## 4. The proofs

Every theorem holds for all values of the constants that satisfy the named
assumption of the module (`TaskAssumption` and so on): any number of threads,
messages, entries, slots, any limits. The assumptions say that kinds of threads
are disjoint, that `None` is none of the objects and that parameters have their
types; GstBus and GstBufferPool also assume finitely many threads, because
their balances count them. TLC evaluates the assumptions in the runs.

| module | theorem | statement |
|---|---|---|
| GstTaskProofs | `Invariance` | `Spec => []IInv` |
| | `TypeCorrect` | `Spec => []TypeOK` |
| | `OneThread` | `Spec => []OneThreadPerTask` |
| | `JoinBarrier` | `Spec => []JoinIsBarrier` |
| | `StreamLockHeld` | `Spec => []FuncHoldsStreamLock` |
| | `SelfJoin` | `Spec => []SelfJoinDetected` |
| GstPadTaskProofs | `PadInvariance` | `PadSpec => [](IInv /\ PadInv)` |
| | `PadUsesTask` | `PadSpec => UsesTask` (implements GstTask) |
| | `PadKeepsContract` | `PadSpec => KeepsContract` (implements PadTaskContract) |
| | `NoStray` | `PadSpec => []NoStrayThread` |
| | `PadStartKept` | `PadSpec => []PadStartNotLost` |
| GstAtomicQueueProofs | `SlotInvariance` | `Spec => []SlotInv` |
| | `BusyWaits` | `Spec => []BusyWaitEnds` |
| | `ContentInvariance` | `Spec => []ContentInv` |
| | `PoppedOnce` | `Spec => []NoDuplicates` |
| | `OrderKept` | `Spec => []WriterOrder` |
| GstBufferPoolProofs | `TokensBalance` | `Spec => []TokenBalance` |
| | `CountIsExact` | `OneConfiguration` implies `Spec => []CurBuffersExact` |
| | `MaxIsRespected` | `OneConfiguration` implies `Spec => []MaxBuffersRespected` |
| GstBusProofs | `BusInvariance` | `Spec => [](OwnInv /\ LateOnly /\ TokenBalance)` |
| | `OwnedOnce` | `Spec => []OneOwner` |
| | `FlushIsThorough` | `Spec => []FlushLeavesOnlyLate` |
| | `TokensMatch` | `Spec => []TokenBalance` |
| GstElementProofs | `ElementInvariance` | `Spec => []ElementInv` |
| | `UnbrokenWalk` | `Spec => []Contiguous` |
| | `RestsThere` | `Spec => []RestsWhereClassIs` |
| GstQueueProofs | `QueueUsesPadTask` | `Spec => UsesPadTask` (a correct user of PadTaskContract) |
| | `FlushStopQuiet` | `Spec => []FlushStopIsQuiet` |
| | `LevelIsExact` | `~EarlyStart`, `2 * Room < Word` imply `Spec => []LevelExact` |
| | `WakeupsNotLost` | these and `~Shrinks` imply `Spec => []NoLostWakeup` |
| | `QueriesHaveSenders` | the first two and `Hindrances = {}` imply `Spec => []QueryHasSender` |
| | `LoopRuns` | the first two and `Hindrances = {}` imply `Spec => []LoopRunsWhileOK` |
| GstSystemClockProofs | `UnscheduledStays` | `Spec => UnscheduledIsFinal` |
| | `NeverBefore` | `Spec => NeverEarly` |
| | `SleepsAreJustified` | `Spec => []SleepIsJustified` |
| | `ListSorted` | `Spec => []Sorted` (the clock's list is in the order of time) |

These are all the invariants and action properties of the passing runs; the runs'
liveness properties are the ones without a theorem.

All proofs are built alike: an inductive invariant, one lemma per action that it
is preserved (with lemmas for what several actions share), a lemma that puts
them together by cases on `Next`, and the theorems by temporal logic. None of
the properties is inductive alone. What has to be added, and why:

**GstTask.** `IInv` is the conjunction of `TypeOK`, `PlacesOK`,
`OneThreadPerTask`, `JoinIsBarrier`, `FuncHoldsStreamLock` and `ThreadIsWorker`.
`OneThreadPerTask` needs `JoinIsBarrier`: a push happens when `running` is FALSE,
and only the second says that then no thread is left. It also bounds `jobs` by
one, so that even the type invariant depends on it. `JoinIsBarrier` needs
`OneThreadPerTask`: a leaving thread clears `running`, and the first says that
it was the last one. `FuncHoldsStreamLock` needs `JoinIsBarrier`: `set_lock`
looks at `running` only. `SelfJoinDetected` speaks of the function alone and
needs `ThreadIsWorker`, which covers the whole stretch between the two
assignments of `task->thread`; that one needs `JoinIsBarrier` against joiners
and `OneThreadPerTask` against another leaving thread, since both reset the
field. `PlacesOK` says that an idle thread serves no task.

**GstPadTask.** Every step of a pad's caller is a step of GstTask or leaves it
alone, which gives `UsesTask` and with it `IInv` for free. `PadInv` adds who may
still run: only the pad's task, one that a stop is about to join, or one whose
stop was refused (`OnlyPadTaskRuns`), that all tasks use the pad's stream lock
(`PadLock`), that a stop works on a task that is no longer the pad's
(`StopsOwnTask`), that a task function that calls stop has not returned
(`StopsInFunc`), that a thread on its way out has seen a task that stays
STOPPED, unless its stop was refused (`LeavesStopped`), and that while a
function runs for a former task of the pad there is a caller outside of
gst_task_join to whom GstTask can ascribe what that function does to another
task (`FormerFuncHasCaller`). The contract needs all of it: the waiting caller
holds the stream lock at the moment its wait ends, so no thread is inside the
function, and no *other* task's thread may be either.

**GstAtomicQueue.** `SlotInv` is about indices: in each array `head <= tail_read
<= tail_write <= head + size`, what a thread has read is old in one direction
only, each slot between `tail_read` and `tail_write` has exactly one writer on
its way to publish it, and a reader whose `head` is still current has a slot to
read. `BusyWaitEnds` follows. `ContentInv` is about items: the places that were
stored and not popped hold different items, none of which was popped; per array
and writer the numbers grow with the positions, and what was popped comes before
what is left; a slot that was loaded and is still the head was not used again
in between, which is the ABA question of the exchange in `pop`. Two lemmas on
plain sets and functions (`StoreContent`, `TakeContent`) carry the argument, and
`SlotsDiffer` the arithmetic: positions less than the size apart are different
modulo the size.

**GstBufferPool.** `TokensBalance` counts threads at each place of the token
protocol, and moves one token with each of their steps. The two bounds on
buffers hold for pools that are always configured alike (`OneConfiguration`):
`set_config` sets `cur_buffers` to zero (627), also when a late stop has left
buffers behind.

**GstBus.** Ownership is split by place (`PostersOwn`, `QueueOwns`,
`TakersOwn`): each message in use is with its poster, in the queue once, with
the taker that popped it, or held by the application, and one with asynchronous
delivery has a poster that waits for it (`AsyncAwaited`). `LateOnly` says that a
message in a flushed queue was past the check when the flush began. A spurious
wakeup of a poster is part of the specification the theorems speak of: the queue
and the takers have messages that are `Alive`, in use or freed early, a poster
that woke owns its message only if it was signalled (`Owning`), and `OneOwner`
exempts exactly the messages in `early` from not being freed.

**GstElement.** `ElementInv` ties the fields, the place and the transition of the
one thread in the STATE_LOCK to the state the class has reached (`Fields`,
`InClass`, `Returned`), and says who still owes the end of an asynchronous
change (`Waits`).

**GstQueue.** For `UsesPadTask` it is enough that a loop that ended with an error
has paused its task (`Rests`) and types (`UseInv`). `FlushStopIsQuiet` follows
the flush from pause to the forwarded FLUSH_STOP (`StillInv`) and assumes
nothing of upstream: what may start the task in between sets srcresult to OK
(1001-1012, 951), and a deactivation keeps the loop out once it has waited for
it (`Off`). The property therefore speaks of a queue that still refuses data;
without that condition it is false in the code, as the switch `EarlyStart` shows
(section 6). `QuietInv` is what holds of a flush when `EarlyStart` is off, and
what the following invariants build on.

`LevelExact` cannot be inductive alone: a dequeued EOS clears the level (870),
and that is right only if EOS was the last item. `ItemInv` therefore adds that
nothing is queued behind EOS (`EosInv`: what keeps upstream from sending it is
the pad's EOS flag, a flush that waits for the stream lock, or a refused
item), how much each place of a state change has thrown away (`Pads`), and what
the threads hold (`Refs`). The code subtracts the weights one at a time modulo
2^32; the lemmas before it (`RestStep`, `LevelAfter`) say that this is the weight
of the items behind (`Rest`), by counting places with `Cardinality`, as long as a
full queue cannot wrap the counter: `2 * Room < Word`, since an item weighs at
most two. With 32 bits it holds of any queue that fits into memory. `LeaksIn`
and the lemmas on `DropUnwanted` say the same of the loops that leak and drop.
`WakeInv` adds to `ItemInv` why the loop and the streaming thread sleep.
`QueryInv` adds (`QInv`) that at most one query is queued, that its sender sleeps
as long as srcresult is OK, that an answer EOS or NOT_LINKED leaves no query in
the queue, and that srcresult EOS comes with `eos`. `LoopRunsWhileOK` needs the
last: an event that turns EOS into OK starts the task only if `eos` is set
(974-978, 1001-1012).

The hypotheses are the switches of section 3, and TLC refutes each theorem
without them: `EarlyStart` breaks `LevelExact` (an EOS with a buffer queued
behind it), `QueryHasSender` and `LoopRunsWhileOK`, and in the runs
`FlushAndStopReturn` and `UpstreamReturns` too; `Shrinks` breaks
`NoLostWakeup`; a member of `Hindrances` breaks `QueryHasSender` and
`LoopRunsWhileOK`. The theorems hold with `Overlaps`, on or off: a flush that
ends in the middle of a deactivation breaks no invariant, only liveness.

**GstSystemClock.** The decision to return OK is taken with the entry's lock on a
status read under that lock (`ReadIsFresh`), and the clock's thread works on one
entry at a time (`ThreadWaits`). `SleepInv` adds for the sleepers that an entry
somebody sleeps on is BUSY unless it is being disposed of (`BusyInv`), that the
thread's entry is the head of the list unless somebody who has put another one
before it still has the kick to do (`HeadInv`), that a thread that waits for a
first entry sees an empty list (`FirstInv`). The code kicks only when the new
entry is the first one (1207), which is enough since an insertion anywhere else
leaves the head alone. `Sorted` rides along as a property of its own: with the
others it says that the thread sleeps on the entry that is due first. `Inserts`,
`Removes` and `Sorts` are lemmas on lists of any length; that there is a place to
insert at comes from `Least`, the least element of a set of numbers.

### What is only model-checked

Liveness under fairness, in all modules (`ENABLED` is out of the prover's reach):
`StartedRuns`, `StopReturns`, `ControlReturns`, `FlushUnblocks`,
`GetStateReturns`, `PostReturns`, `UpstreamReturns`, `FlushAndStopReturn`,
`DueFires`, `WaitEnds`, `CallsReturn`. No module declares a recursive operator.
Where a proof needs induction (the first place with a property, what a suffix
weighs), it takes a least element or counts places with `Cardinality`, since the
induction theorems of the library cannot be used. The type invariants of the
modules other than GstTask are documentation and parts of the inductive
invariants; the runs spend their properties elsewhere.

## 5. Where code and documentation disagree

Each is a run that ends in a counterexample; none needs a failing allocation or
a wakeup without a signal.

1. **A lost start** (`task_lost_start`, `gsttask.c:743`). A thread that has seen
   STOPPED keeps `running` TRUE until it leaves. `gst_task_start` in this window
   only sets the state; the task is STARTED, has no thread, and later starts
   return early. A caller that joins between stop and start, as a pad does, is
   not affected (`PadStartNotLost`), except when the pad could not join because
   the task's own function called `gst_pad_stop_task`: `join_failed`
   (`gstpad.c:6467`) puts the STOPPED task back "so that it will be stopped again
   from the right thread next time hopefully", and a `gst_pad_start_task` that
   comes first is lost.
2. **Lost items of the atomic queue** (`atomic_queue_loss`,
   `gstatomicqueue.c:306`). A reader finds its array empty; a writer then fills
   it and links the next one; the reader reads `next` and moves `head_mem` past
   the items. One reader and one writer suffice.
3. **Sleep with a free buffer** (`buffer_pool_wakeup`, `gstbufferpool.c:1157`).
   Two acquirers each take a token before they sleep; the second one takes that
   of a buffer released in between. Both sleep until another buffer comes back
   or the pool is flushed.
4. **A query nobody answers** (`queue_query`, `gstqueue.c:1443`). Downstream
   answers EOS to a buffer while a serialized query waits behind it. The query is
   dropped and `query_handled` signalled, but not which query it was: the sender
   wakes, finds srcresult OK and its query not handled, and sleeps again, with
   nothing left to wake it but a flush or a stop.

## 6. What is not covered

Hazards that no property covers, with the reason, are in `PROJECT.json`; the
more important ones:

- *Two joiners* (`gsttask.c:408`): one signal per event, so one joiner may sleep
  for ever. The runs have one joiner per task; the pad guarantees it
  (`StopReturns`).
- *Configuring a pool again* (`gstbufferpool.c:627`): `cur_buffers` is reset
  while buffers of a failed start are still in the queue; the run has a single
  configuration, since otherwise `CurBuffersExact` and `MaxBuffersRespected` do
  not hold.
- *An early or late stop of a pool* (`gstbufferpool.c:1199`): the decision to
  stop is taken from a count read before the lock; a buffer can stay in a stopped
  pool until it is started again or freed.
- *A FAILURE that was none* (`gstelement.c:2545`): a woken `get_state` judges by
  the fields of a later change; a change that completed and was then lost to a
  flush is answered with FAILURE. A caller that asks again gets the right answer.
- *A callback after unschedule has returned* (`gstsystemclock.c:750`): the
  callback runs without locks. The documentation (`gstclock.c:715`) promises
  that no notification comes after the call; users of the clock guard themselves.
- *A poster that wakes unsignalled* (`gstbus.c:409-410`, "now block till the
  message is freed"): the single `g_cond_wait` of a synchronous delivery does not
  look at anything when it returns. After a spurious wakeup the poster frees a
  message that is still on the bus or with the application; TLC finds `OneOwner`
  violated when `early` is left out of it. The run and the theorems include the
  wakeup and say that nothing else breaks. What a thread does with the freed
  memory is not followed: it is not allocated again before everybody has dropped
  it.
- *Continuing a bin's change from another thread* (`gstbin.c:3219`) needs several
  elements and a bin.

The switches of GstQueue that are off, and what happens when they are on:
`Hindrances` - an answer EOS or NOT_LINKED that meets a query in the queue leaves
its sender asleep (`queue_query`), or leaves in the queue a query whose sender
has gone, which a RECONFIGURE (1594) then lets the loop take; EOS that meets a
SEGMENT or STREAM_START pauses the task with srcresult EOS while eos is unset,
and the next such event accepts data without starting the task. `EarlyStart` - a
STREAM_START that comes while EOS is still queued restarts a task which that EOS
then pauses for good. The same switch lets FLUSH_START (922-924) come while a
STREAM_START or SEGMENT behind an EOS has passed the pad and waits for qlock. If
that event gets qlock behind 932, it makes the flushing queue accept data and
starts the task (1001-1012): the loop then waits for an item with the pad's
stream lock, for which `gst_pad_pause_task` (936) waits as well, so that the
flush does not return although "this should happen since we sent flush_start
downstream" (934-935). If it gets qlock behind 936, the loop runs again before
FLUSH_STOP is forwarded, which is why `FlushStopIsQuiet` speaks of a queue that
still refuses data. `Overlaps` - a FLUSH_STOP that meets a deactivation sets
srcresult back to OK; a loop that was told to leave then waits again, or a query
sent now waits for an answer, and the deactivation and the query do not return.
`Shrinks` - setting the maximum
below the threshold makes a queue that waited for its threshold filled, but only
`item_del` is signalled, so the loop sleeps on. These are combinations that the
element's users avoid; the code does nothing against them.

Parts of modelled files left out: prepare, cleanup and the shared task pool;
everything of `gstpad.c` but the task functions; `length` and LOW_MEM of the
queue; options and contents of pooled buffers; pads, clocks, contexts and
messages of `gstelement.c`; watches, `peek`, `poll` and signal emission of
`gstbus.c`; levels in bytes and time, queries that are not serialized, pull mode
and the task-less cases of `gstqueue.c`; master and slave clocks, calibration
and the default clock of `gstclock.c`, timers other than futex and condition
wait. Not modelled for good: the algebra of caps and values (data without
control), plugins and registry (files and processes), devices, tracing, the
launch parser, and the plugin collections (users of the core). Of the whole
repository, most of whose lines are plugins, the modules cover a small part; of
the synchronisation in the core they cover the parts in the table of section 2.

## 7. Plan

Done: the task and the pad's task with the contract it offers, the queue element
on top of that contract, the atomic queue, the buffer pool, the element's state,
the bus and the system clock. Every invariant and action property of the passing
runs is proved.

What is left, in the order of its worth:

1. **GstPad**: activation, flushing, sticky events, blocking probes and the
   idle counter of a linked pair of pads, on top of the stream lock of
   GstPadTask. Properties: sticky events reach the peer before data and in
   order; a flush gets everybody out; a removed probe does not block.
2. **GstPoll**: `raise_wakeup`/`release_wakeup`, wait, restart and flushing,
   with the descriptor kept apart from the count. Abstract specification: a
   counter of tokens, which GstBufferPool and GstBus use.
3. **GstBin** over several elements: ASYNC_START, ASYNC_DONE, the cookie and
   the thread that continues a change. GstElement gives the child.
4. The preroll of the base sink, replacing the external class of GstElement;
   the data queue and multiqueue after the pattern of GstQueue.
5. The reference word of mini objects; segment arithmetic as operators.
