---------------------------- MODULE GstBufferPool ----------------------------
(***************************************************************************)
(* gstreamer/gst/gstbufferpool.c: threads acquire buffers from a pool and  *)
(* give them back, while other threads activate, flush and configure it.   *)
(*                                                                         *)
(* The free buffers are in a GstAtomicQueue, of which only the number of   *)
(* items matters here.  A timer GstPoll counts tokens: one for each free   *)
(* buffer, one while the pool is flushing, and the "wait token", which a   *)
(* thread takes before it sleeps.  gst_poll_wait on it returns when at     *)
(* least one token is left.                                                *)
(*                                                                         *)
(* A step is one atomic access to flushing, outstanding, cur_buffers, the  *)
(* queue or the poll.  What the pool's lock protects is one step where no  *)
(* other thread can look at it meanwhile.                                  *)
(***************************************************************************)
EXTENDS Integers, FiniteSets

CONSTANTS
  Acquirers,     \* threads that acquire buffers
  Releasers,     \* threads that drop the last reference of a buffer
  Controllers,   \* threads that activate, flush and configure the pool
  None,
  Configs,       \* configurations: records of min and max
  AllocMayFail,  \* TRUE: alloc_buffer can return an error
  MayDontWait,   \* TRUE: GST_BUFFER_POOL_ACQUIRE_FLAG_DONTWAIT is used
  MaxDiscards    \* bound: buffers that come back unfit to be kept

Threads == Acquirers \cup Releasers \cup Controllers

ASSUME PoolAssumption ==
  /\ Acquirers \cap Releasers = {}
  /\ (Acquirers \cup Releasers) \cap Controllers = {}
  /\ None \notin Threads
  /\ IsFiniteSet(Threads)
  /\ Configs \subseteq [min : Nat, max : Nat]
  /\ AllocMayFail \in BOOLEAN
  /\ MayDontWait \in BOOLEAN
  /\ MaxDiscards \in Nat

VARIABLES
  flushing,     \* pool->flushing
  active, started, configured,
  conf,         \* min_buffers and max_buffers
  cur,          \* priv->cur_buffers
  outstanding,  \* priv->outstanding
  queued,       \* items of priv->queue
  pending,      \* control_pending of priv->poll
  poolLock,     \* who keeps GST_BUFFER_POOL_LOCK from step to step
  held,         \* buffers outside of the pool
  pc,           \* where each thread is
  discarded     \* history: buffers that came back and were not kept

stateVars == <<active, started, configured, conf>>
vars == <<flushing, stateVars, cur, outstanding, queued, pending,
          poolLock, held, pc, discarded>>

(* default_acquire_buffer: "test" 1116, "pop" 1120, "token" 1122,          *)
(* "alloc" 282, "create" 286, "undo" 313, "wait" 1157, "poll" 1165,        *)
(* "taken" 1178, "pollTaken" 1180, "giveback" 1182                         *)
AcquirePCs == {"test", "pop", "token", "alloc", "create", "undo", "wait",
               "poll", "taken", "pollTaken", "giveback"}

(* "write" 1325 and 1351, "dec" 1199, "decFlush" 1201, "lock" 1203,        *)
(* "stopPop" 410, "stopToken" 411; set_active: "unflush" 471,              *)
(* "unflushed" 484, "deactWrite" 463, "outstanding" 545; "flushWrite" 463  *)
PCs == AcquirePCs \cup
       {"idle", "write", "dec", "decFlush", "lock", "stopPop", "stopToken",
        "unflush", "unflushed", "deactWrite", "outstanding", "flushWrite"}

At(P) == Cardinality({t \in Threads : pc[t] \in P})

TypeOK ==
  /\ flushing \in BOOLEAN /\ active \in BOOLEAN
  /\ started \in BOOLEAN /\ configured \in BOOLEAN
  /\ conf \in Configs \cup {[min |-> 0, max |-> 0]}
  /\ cur \in Nat /\ outstanding \in Nat /\ queued \in Nat /\ pending \in Nat
  /\ held \in Nat /\ discarded \in 0 .. MaxDiscards
  /\ poolLock \in Threads \cup {None}
  /\ pc \in [Threads -> PCs]

(* gst_buffer_pool_init: flushing, with the flush and the wait token.      *)
Init ==
  /\ flushing = TRUE
  /\ active = FALSE /\ started = FALSE /\ configured = FALSE
  /\ conf = [min |-> 0, max |-> 0]
  /\ cur = 0 /\ outstanding = 0 /\ queued = 0
  /\ pending = 2
  /\ poolLock = None
  /\ held = 0
  /\ pc = [t \in Threads |-> "idle"]
  /\ discarded = 0

Goto(t, p) == pc' = [pc EXCEPT ![t] = p]

(* gst_poll_write_control, _read_control (when there is one to read).      *)
WriteControl == pending' = pending + 1
ReadControl  == pending > 0 /\ pending' = pending - 1

-----------------------------------------------------------------------------
(* gst_buffer_pool_acquire_buffer                                          *)
Acquire(a) ==
  /\ pc[a] = "idle"
  /\ outstanding' = outstanding + 1
  /\ Goto(a, "test")
  /\ UNCHANGED <<flushing, stateVars, cur, queued, pending, poolLock, held, discarded>>

TestFlushing(a) ==
  /\ pc[a] = "test"
  /\ Goto(a, IF flushing THEN "dec" ELSE "pop")
  /\ UNCHANGED <<flushing, stateVars, cur, outstanding, queued, pending,
                 poolLock, held, discarded>>

PopBuffer(a) ==
  /\ pc[a] = "pop"
  /\ \/ /\ queued > 0
        /\ queued' = queued - 1
        /\ Goto(a, "token")
     \/ /\ queued = 0
        /\ Goto(a, "alloc")
        /\ UNCHANGED queued
  /\ UNCHANGED <<flushing, stateVars, cur, outstanding, pending, poolLock, held, discarded>>

(* The retry while the token of the buffer is not written yet.             *)
ReadToken(a) ==
  /\ pc[a] = "token"
  /\ ReadControl
  /\ held' = held + 1
  /\ Goto(a, "idle")
  /\ UNCHANGED <<flushing, stateVars, cur, outstanding, queued, poolLock, discarded>>

\* Mutant: one buffer too many.
MaxReachedLate(n) == conf.max # 0 /\ n > conf.max

MaxReached(n) == conf.max # 0 /\ n >= conf.max

(* do_alloc_buffer counts first and takes it back when it may not.         *)
AllocCount(a) ==
  /\ pc[a] = "alloc"
  /\ cur' = cur + 1
  /\ Goto(a, IF MaxReached(cur) THEN "undo" ELSE "create")
  /\ UNCHANGED <<flushing, stateVars, outstanding, queued, pending, poolLock, held, discarded>>

AllocBuffer(a) ==
  /\ pc[a] = "create"
  /\ \/ /\ held' = held + 1
        /\ Goto(a, "idle")
        /\ UNCHANGED cur
     \/ /\ AllocMayFail
        /\ cur' = cur - 1
        /\ Goto(a, "dec")
        /\ UNCHANGED held
  /\ UNCHANGED <<flushing, stateVars, outstanding, queued, pending, poolLock, discarded>>

\* Mutant: the count is not taken back.
AllocUndoForgets(a) ==
  /\ pc[a] = "undo"
  /\ Goto(a, "wait")
  /\ UNCHANGED <<flushing, stateVars, cur, outstanding, queued, pending,
                 poolLock, held, discarded>>

AllocUndo(a) ==
  /\ pc[a] = "undo"
  /\ cur' = cur - 1
  /\ Goto(a, "wait") \/ (MayDontWait /\ Goto(a, "dec"))
  /\ UNCHANGED <<flushing, stateVars, outstanding, queued, pending, poolLock, held, discarded>>

(* Take a token before sleeping, or sleep without one.                     *)
TakeToken(a) ==
  /\ pc[a] = "wait"
  /\ \/ /\ ReadControl
        /\ Goto(a, "taken")
     \/ /\ pending = 0
        /\ Goto(a, "poll")
        /\ UNCHANGED pending
  /\ UNCHANGED <<flushing, stateVars, cur, outstanding, queued, poolLock, held, discarded>>

(* Mutant: a thread that took the flush token sleeps on it.                *)
TestTakenSleeps(a) ==
  /\ pc[a] = "taken"
  /\ Goto(a, "pollTaken")
  /\ UNCHANGED <<flushing, stateVars, cur, outstanding, queued, pending,
                 poolLock, held, discarded>>

TestTaken(a) ==
  /\ pc[a] = "taken"
  /\ Goto(a, IF flushing THEN "giveback" ELSE "pollTaken")
  /\ UNCHANGED <<flushing, stateVars, cur, outstanding, queued, pending,
                 poolLock, held, discarded>>

PollReturns(a) ==
  /\ pending > 0
  /\ \/ pc[a] = "poll" /\ Goto(a, "test")
     \/ pc[a] = "pollTaken" /\ Goto(a, "giveback")
  /\ UNCHANGED <<flushing, stateVars, cur, outstanding, queued, pending,
                 poolLock, held, discarded>>

GiveBack(a) ==
  /\ pc[a] = "giveback"
  /\ WriteControl
  /\ Goto(a, "test")
  /\ UNCHANGED <<flushing, stateVars, cur, outstanding, queued, poolLock, held, discarded>>

-----------------------------------------------------------------------------
(* gst_buffer_pool_release_buffer: keep the buffer or free it.             *)
Release(r) ==
  /\ pc[r] = "idle"
  /\ held > 0
  /\ held' = held - 1
  /\ \/ /\ queued' = queued + 1
        /\ UNCHANGED <<cur, discarded>>
     \/ /\ discarded < MaxDiscards
        /\ discarded' = discarded + 1
        /\ cur' = cur - 1
        /\ UNCHANGED queued
  /\ Goto(r, "write")
  /\ UNCHANGED <<flushing, stateVars, outstanding, pending, poolLock>>

\* Mutant: the token of a released buffer is forgotten.
WriteTokenForgets(r) ==
  /\ pc[r] = "write"
  /\ Goto(r, "dec")
  /\ UNCHANGED <<flushing, stateVars, cur, outstanding, queued, pending,
                 poolLock, held, discarded>>

WriteToken(r) ==
  /\ pc[r] = "write"
  /\ WriteControl
  /\ Goto(r, "dec")
  /\ UNCHANGED <<flushing, stateVars, cur, outstanding, queued, poolLock, held, discarded>>

(* dec_outstanding                                                         *)
DecOutstanding(t) ==
  /\ pc[t] = "dec"
  /\ outstanding' = outstanding - 1
  /\ Goto(t, IF outstanding = 1 THEN "decFlush" ELSE "idle")
  /\ UNCHANGED <<flushing, stateVars, cur, queued, pending, poolLock, held, discarded>>

LastBack(t) ==
  /\ pc[t] = "decFlush"
  /\ Goto(t, IF flushing THEN "lock" ELSE "idle")
  /\ UNCHANGED <<flushing, stateVars, cur, outstanding, queued, pending,
                 poolLock, held, discarded>>

LockToStop(t) ==
  /\ pc[t] = "lock"
  /\ poolLock = None
  /\ \/ /\ ~active /\ started
        /\ poolLock' = t
        /\ Goto(t, "stopPop")
     \/ /\ active \/ ~started
        /\ Goto(t, "idle")
        /\ UNCHANGED poolLock
  /\ UNCHANGED <<flushing, stateVars, cur, outstanding, queued, pending, held, discarded>>

-----------------------------------------------------------------------------
(* do_stop and default_stop, with the lock held.                           *)
StopPop(t) ==
  /\ pc[t] = "stopPop"
  /\ queued > 0
  /\ queued' = queued - 1
  /\ Goto(t, "stopToken")
  /\ UNCHANGED <<flushing, stateVars, cur, outstanding, pending, poolLock, held, discarded>>

StopFree(t) ==
  /\ pc[t] = "stopToken"
  /\ ReadControl
  /\ cur' = cur - 1
  /\ Goto(t, "stopPop")
  /\ UNCHANGED <<flushing, stateVars, outstanding, queued, poolLock, held, discarded>>

(* The queue is empty: stopped, and in set_active inactive, unless buffers *)
(* are missing.                                                            *)
StopDone(t) ==
  /\ pc[t] = "stopPop"
  /\ queued = 0
  /\ started' = (cur # 0)
  /\ active' = IF t \in Controllers THEN cur # 0 ELSE active
  /\ poolLock' = None
  /\ Goto(t, "idle")
  /\ UNCHANGED <<flushing, configured, conf, cur, outstanding, queued, pending,
                 held, discarded>>

-----------------------------------------------------------------------------
(* default_start: min_buffers buffers, or those before the first failure.  *)
CanAlloc(k) == conf.max = 0 \/ cur + k <= conf.max

Prealloc(k) ==
  /\ CanAlloc(k)
  /\ k < conf.min => AllocMayFail \/ ~CanAlloc(k + 1)
  /\ cur' = cur + k
  /\ queued' = queued + k
  /\ pending' = pending + k
  /\ started' = (k = conf.min)
  /\ active' = (k = conf.min)

(* gst_buffer_pool_set_active (TRUE)                                       *)
Activate(c) ==
  /\ pc[c] = "idle"
  /\ poolLock = None
  /\ configured /\ ~active
  /\ \/ /\ started
        /\ active' = TRUE
        /\ UNCHANGED <<started, cur, queued, pending>>
     \/ /\ ~started
        /\ \E k \in 0 .. conf.min : Prealloc(k)
  /\ IF active' THEN poolLock' = c /\ Goto(c, "unflush") ELSE UNCHANGED <<poolLock, pc>>
  /\ UNCHANGED <<flushing, configured, conf, outstanding, held, discarded>>

(* do_set_flushing (FALSE): get the flush token back, then clear the flag. *)
UnflushToken(c) ==
  /\ pc[c] = "unflush"
  /\ ReadControl
  /\ Goto(c, "unflushed")
  /\ UNCHANGED <<flushing, stateVars, cur, outstanding, queued, poolLock, held, discarded>>

Unflushed(c) ==
  /\ pc[c] = "unflushed"
  /\ flushing' = FALSE
  /\ poolLock' = None
  /\ Goto(c, "idle")
  /\ UNCHANGED <<stateVars, cur, outstanding, queued, pending, held, discarded>>

(* gst_buffer_pool_set_active (FALSE): set flushing first.                 *)
Deactivate(c) ==
  /\ pc[c] = "idle"
  /\ poolLock = None
  /\ active
  /\ poolLock' = c
  /\ flushing' = TRUE
  /\ Goto(c, IF flushing THEN "outstanding" ELSE "deactWrite")
  /\ UNCHANGED <<stateVars, cur, outstanding, queued, pending, held, discarded>>

\* Mutant: the waiters are not told.
FlushWriteForgets(c) ==
  /\ pc[c] \in {"deactWrite", "flushWrite"}
  /\ IF pc[c] = "deactWrite"
       THEN Goto(c, "outstanding") /\ UNCHANGED poolLock
       ELSE Goto(c, "idle") /\ poolLock' = None
  /\ UNCHANGED <<flushing, stateVars, cur, outstanding, queued, pending, held, discarded>>

(* The flush token, in set_active or in set_flushing.                      *)
FlushWrite(c) ==
  /\ pc[c] \in {"deactWrite", "flushWrite"}
  /\ WriteControl
  /\ IF pc[c] = "deactWrite"
       THEN Goto(c, "outstanding") /\ UNCHANGED poolLock
       ELSE Goto(c, "idle") /\ poolLock' = None
  /\ UNCHANGED <<flushing, stateVars, cur, outstanding, queued, held, discarded>>

StopOrLeave(c) ==
  /\ pc[c] = "outstanding"
  /\ \/ /\ outstanding = 0 /\ started
        /\ Goto(c, "stopPop")
        /\ UNCHANGED <<active, poolLock>>
     \/ /\ outstanding # 0 \/ ~started
        /\ active' = FALSE
        /\ poolLock' = None
        /\ Goto(c, "idle")
  /\ UNCHANGED <<flushing, started, configured, conf, cur, outstanding, queued,
                 pending, held, discarded>>

(* gst_buffer_pool_set_flushing                                            *)
SetFlushing(c) ==
  /\ pc[c] = "idle"
  /\ poolLock = None
  /\ active
  /\ poolLock' = c
  /\ flushing' = TRUE
  /\ Goto(c, IF flushing THEN "unflush" ELSE "flushWrite")
  /\ UNCHANGED <<stateVars, cur, outstanding, queued, pending, held, discarded>>

(* gst_buffer_pool_set_config with a configuration that differs.           *)
SetConfig(c, k) ==
  /\ pc[c] = "idle"
  /\ poolLock = None
  /\ ~(configured /\ conf = k)
  /\ ~active
  /\ outstanding = 0
  /\ conf' = k
  /\ configured' = TRUE
  /\ cur' = 0
  /\ UNCHANGED <<flushing, active, started, outstanding, queued, pending,
                 poolLock, held, pc, discarded>>

-----------------------------------------------------------------------------
AcquireStep(a) ==
  \/ TestFlushing(a) \/ PopBuffer(a) \/ ReadToken(a)
  \/ AllocCount(a) \/ AllocBuffer(a) \/ AllocUndo(a)
  \/ TakeToken(a) \/ TestTaken(a) \/ PollReturns(a) \/ GiveBack(a)

ReturnStep(t) ==
  \/ WriteToken(t) \/ DecOutstanding(t) \/ LastBack(t) \/ LockToStop(t)
  \/ StopPop(t) \/ StopFree(t) \/ StopDone(t)

ControlStep(c) ==
  \/ UnflushToken(c) \/ Unflushed(c) \/ FlushWrite(c) \/ StopOrLeave(c)
  \/ StopPop(c) \/ StopFree(c) \/ StopDone(c)

Next ==
  \/ \E a \in Acquirers : Acquire(a) \/ AcquireStep(a) \/ ReturnStep(a)
  \/ \E r \in Releasers : Release(r) \/ ReturnStep(r)
  \/ \E c \in Controllers :
       \/ Activate(c) \/ Deactivate(c) \/ SetFlushing(c) \/ ControlStep(c)
       \/ \E k \in Configs : SetConfig(c, k)

Spec == Init /\ [][Next]_vars

(* A thread that is in a call goes on; nobody has to make a call, so a     *)
(* buffer need never come back.                                            *)
FairSpec ==
  /\ Spec
  /\ \A a \in Acquirers : WF_vars(AcquireStep(a)) /\ WF_vars(ReturnStep(a))
  /\ \A r \in Releasers : WF_vars(ReturnStep(r))
  /\ \A c \in Controllers : WF_vars(ControlStep(c))

-----------------------------------------------------------------------------
(* The flush token is in the poll, or was taken out by a waiter.           *)
FlushToken ==
  IF flushing /\ At({"flushWrite", "deactWrite", "unflushed"}) = 0 THEN 1 ELSE 0

(* Every token is accounted for: one for each free buffer, the flush token *)
(* and the wait token, minus what waiters hold, plus what discarded buffers*)
(* leave behind (gstbufferpool.c:169-174, 1155-1182, 1351).                *)
TokenBalance ==
  pending + At({"taken", "pollTaken", "giveback"}) + At({"write"}) =
    queued + At({"token", "stopToken"}) + 1 + FlushToken + discarded

(* cur_buffers counts the buffers that exist, and those being allocated or *)
(* refused.                                                                *)
CurBuffersExact ==
  cur = queued + held + At({"token", "stopToken", "create", "undo"})

(* No more than max_buffers buffers ever exist, however many threads find  *)
(* the queue empty at once (gstbufferpool.c:282-284).                      *)
MaxBuffersRespected ==
  conf.max # 0 =>
    queued + held + At({"token", "stopToken", "create"}) <= conf.max

(* Flushing gets every thread out of acquire, whatever token it sleeps on  *)
(* and whoever else takes the flush token first (gstbufferpool.c:1174).    *)
FlushUnblocks ==
  \A a \in Acquirers :
    (pc[a] \in AcquirePCs /\ flushing) ~> (pc[a] \notin AcquirePCs \/ ~flushing)

(* set_active and set_flushing return: the busy waits for a token end.     *)
ControlReturns ==
  \A c \in Controllers : pc[c] # "idle" ~> pc[c] = "idle"

(* "we wait for a buffer release or flushing" (gstbufferpool.c:1155): no   *)
(* thread sleeps while a buffer is free and all tokens are where they will *)
(* stay.                                                                   *)
NoSleepWithBuffer ==
  \A a \in Acquirers :
    /\ pc[a] \in {"poll", "pollTaken"}
    /\ pending = 0
    /\ At({"write", "taken", "giveback"}) = 0
    => queued = 0
=============================================================================
