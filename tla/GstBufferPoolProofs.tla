------------------------- MODULE GstBufferPoolProofs --------------------------
(***************************************************************************)
(* The counts of GstBufferPool for any number of threads and any           *)
(* configuration: the tokens in the poll, cur_buffers and max_buffers.     *)
(***************************************************************************)
EXTENDS GstBufferPool, FiniteSetTheorems, TLAPS

(* Counts are integers here: that cur_buffers never goes below zero is a   *)
(* consequence, and only of a pool that is configured once.                *)
PoolTypes ==
  /\ flushing \in BOOLEAN /\ active \in BOOLEAN
  /\ started \in BOOLEAN /\ configured \in BOOLEAN
  /\ conf \in Configs \cup {[min |-> 0, max |-> 0]}
  /\ cur \in Int /\ outstanding \in Int
  /\ queued \in Nat /\ pending \in Nat /\ held \in Nat /\ discarded \in Nat
  /\ poolLock \in Threads \cup {None}
  /\ pc \in [Threads -> PCs]

(* The places where a thread keeps GST_BUFFER_POOL_LOCK.                   *)
Locked == {"stopPop", "stopToken", "unflush", "unflushed", "deactWrite", "outstanding",
           "flushWrite"}

(* One thread at a time has the lock, and it keeps it only while the pool  *)
(* is flushing, as an inactive pool is; only an active one stops flushing. *)
LockOne ==
  /\ \A t \in Threads : pc[t] \in Locked <=> poolLock = t
  /\ poolLock # None \/ ~active => flushing
  /\ \A t \in Threads : pc[t] \in {"unflush", "unflushed"} => active

(* The threads at the places that the counts mention.                      *)
Sleepers == At({"taken", "pollTaken", "giveback"})
Writers  == At({"write"})
Readers  == At({"token", "stopToken"})
Makers   == At({"token", "stopToken", "create"})
Counters == At({"token", "stopToken", "create", "undo"})

(* The flush token is on its way in or out.                                *)
Moving == {"flushWrite", "deactWrite", "unflushed"}

Flushers == At(Moving)

BaseInv == PoolTypes /\ LockOne

-----------------------------------------------------------------------------
LEMMA AtType ==
  ASSUME NEW P
  PROVE  /\ IsFiniteSet({t \in Threads : pc[t] \in P}) /\ At(P) \in Nat
         /\ At(P) = 0 <=> \A t \in Threads : pc[t] \notin P
<1>1. IsFiniteSet({t \in Threads : pc[t] \in P})
  BY PoolAssumption, FS_Subset
<1>2. QED
  BY <1>1, FS_CardinalityType, FS_EmptySet DEF At

LEMMA AtTypePrime ==
  ASSUME NEW P
  PROVE  At(P)' = 0 <=> \A t \in Threads : pc'[t] \notin P
<1>1. IsFiniteSet({t \in Threads : pc'[t] \in P})
  BY PoolAssumption, FS_Subset
<1>2. QED
  BY <1>1, FS_EmptySet DEF At

(* A thread that moves is counted at its new place, not at its old one.    *)
LEMMA AtMoves ==
  ASSUME NEW P, pc \in [Threads -> PCs], NEW t \in Threads, NEW p, Goto(t, p)
  PROVE  At(P)' = (At(P) + (IF p \in P THEN 1 ELSE 0)) - (IF pc[t] \in P THEN 1 ELSE 0)
<1> DEFINE S == {x \in Threads : pc[x] \in P}
           T == {x \in Threads : pc'[x] \in P}
<1>1. IsFiniteSet(S) /\ Cardinality(S) \in Nat /\ Cardinality(S) = At(P) /\ Cardinality(T) = At(P)'
  BY AtType DEF At
<1>2. \A x \in Threads : pc'[x] = IF x = t THEN p ELSE pc[x]
  BY DEF Goto
<1>3. CASE p \in P
  <2>1. T = S \cup {t}
    BY <1>2, <1>3
  <2>2. Cardinality(T) = IF t \in S THEN Cardinality(S) ELSE Cardinality(S) + 1
    BY <1>1, <2>1, FS_AddElement
  <2>3. QED
    BY <1>1, <1>3, <2>2
<1>4. CASE p \notin P
  <2>1. T = S \ {t}
    BY <1>2, <1>4
  <2>2. Cardinality(T) = IF t \in S THEN Cardinality(S) - 1 ELSE Cardinality(S)
    BY <1>1, <2>1, FS_RemoveElement
  <2>3. QED
    BY <1>1, <1>4, <2>2
<1>5. QED
  BY <1>3, <1>4

LEMMA Moves ==
  ASSUME pc \in [Threads -> PCs], NEW t \in Threads, NEW p, Goto(t, p)
  PROVE  /\ Sleepers' = (Sleepers + (IF p \in {"taken", "pollTaken", "giveback"} THEN 1 ELSE 0))
                        - (IF pc[t] \in {"taken", "pollTaken", "giveback"} THEN 1 ELSE 0)
         /\ Writers' = (Writers + (IF p \in {"write"} THEN 1 ELSE 0))
                       - (IF pc[t] \in {"write"} THEN 1 ELSE 0)
         /\ Readers' = (Readers + (IF p \in {"token", "stopToken"} THEN 1 ELSE 0))
                       - (IF pc[t] \in {"token", "stopToken"} THEN 1 ELSE 0)
         /\ Makers' = (Makers + (IF p \in {"token", "stopToken", "create"} THEN 1 ELSE 0))
                      - (IF pc[t] \in {"token", "stopToken", "create"} THEN 1 ELSE 0)
         /\ Counters' = (Counters + (IF p \in {"token", "stopToken", "create", "undo"} THEN 1 ELSE 0))
                        - (IF pc[t] \in {"token", "stopToken", "create", "undo"} THEN 1 ELSE 0)
BY AtMoves DEF Sleepers, Writers, Readers, Makers, Counters

LEMMA CountTypes ==
  /\ Sleepers \in Nat /\ Writers \in Nat /\ Readers \in Nat
  /\ Makers \in Nat /\ Counters \in Nat
  /\ Makers <= Counters
<1>1. /\ Sleepers \in Nat /\ Writers \in Nat /\ Readers \in Nat
      /\ Makers \in Nat /\ Counters \in Nat
  BY AtType DEF Sleepers, Writers, Readers, Makers, Counters
<1>2. Makers <= Counters
  <2> DEFINE M == {t \in Threads : pc[t] \in {"token", "stopToken", "create"}}
             C == {t \in Threads : pc[t] \in {"token", "stopToken", "create", "undo"}}
  <2>1. M \in SUBSET C /\ IsFiniteSet(C)
    BY AtType
  <2>2. Cardinality(M) <= Cardinality(C)
    BY <2>1, FS_Subset
  <2>3. QED
    BY <2>2 DEF Makers, Counters, At
<1>3. QED
  BY <1>1, <1>2

(* The flush token by its places.                                          *)
LEMMA FlushTokenIs ==
  /\ FlushToken = IF flushing /\ \A t \in Threads : pc[t] \notin Moving THEN 1 ELSE 0
  /\ FlushToken' = IF flushing' /\ \A t \in Threads : pc'[t] \notin Moving THEN 1 ELSE 0
BY AtType, AtTypePrime DEF FlushToken, Moving

LEMMA SameFlushToken ==
  ASSUME pc \in [Threads -> PCs], UNCHANGED flushing, NEW t \in Threads, NEW p, Goto(t, p),
         p \notin Moving, pc[t] \notin Moving
  PROVE  FlushToken' = FlushToken
<1>1. \A x \in Threads : pc'[x] \in Moving <=> pc[x] \in Moving
  BY DEF Goto
<1>2. QED
  BY <1>1, FlushTokenIs

-----------------------------------------------------------------------------
(* Types and the lock.                                                     *)
LEMMA AcquireBase ==
  ASSUME BaseInv, NEW a \in Threads, Acquire(a) \/ AcquireStep(a)
  PROVE  BaseInv'
<1> USE DEF BaseInv
<1>1. PICK p \in AcquirePCs \cup {"idle", "dec"} : Goto(a, p)
  BY DEF Acquire, AcquireStep, TestFlushing, PopBuffer, ReadToken, AllocCount, AllocBuffer,
         AllocUndo, TakeToken, TestTaken, PollReturns, GiveBack, AcquirePCs
<1>2. /\ pc[a] \in AcquirePCs \cup {"idle"}
      /\ UNCHANGED <<flushing, stateVars, poolLock, discarded>>
  BY DEF Acquire, AcquireStep, TestFlushing, PopBuffer, ReadToken, AllocCount, AllocBuffer,
         AllocUndo, TakeToken, TestTaken, PollReturns, GiveBack, AcquirePCs, stateVars
<1>3. cur' \in Int /\ outstanding' \in Int /\ queued' \in Nat /\ pending' \in Nat /\ held' \in Nat
  BY DEF Acquire, AcquireStep, TestFlushing, PopBuffer, ReadToken, AllocCount, AllocBuffer,
         AllocUndo, TakeToken, TestTaken, PollReturns, GiveBack, ReadControl, WriteControl,
         PoolTypes
<1>4. PoolTypes'
  BY <1>1, <1>2, <1>3 DEF PoolTypes, Goto, stateVars, PCs
<1>5. LockOne'
  BY <1>1, <1>2 DEF LockOne, PoolTypes, Goto, stateVars, Locked, AcquirePCs
<1>6. QED
  BY <1>4, <1>5

LEMMA ReleaseBase ==
  ASSUME BaseInv, NEW r \in Threads, Release(r)
  PROVE  BaseInv'
<1> USE DEF BaseInv
<1>1. /\ pc[r] = "idle" /\ Goto(r, "write")
      /\ UNCHANGED <<flushing, stateVars, outstanding, pending, poolLock>>
  BY DEF Release
<1>2. cur' \in Int /\ queued' \in Nat /\ held' \in Nat /\ discarded' \in Nat
  BY DEF Release, PoolTypes
<1>3. PoolTypes'
  BY <1>1, <1>2 DEF PoolTypes, Goto, stateVars, PCs
<1>4. LockOne'
  BY <1>1 DEF LockOne, PoolTypes, Goto, stateVars, Locked
<1>5. QED
  BY <1>3, <1>4

LEMMA ReturnBase ==
  ASSUME BaseInv, NEW t \in Threads, ReturnStep(t)
  PROVE  BaseInv'
<1> USE DEF BaseInv
<1>1. CASE StopDone(t)
  <2>1. /\ pc[t] = "stopPop" /\ Goto(t, "idle") /\ poolLock' = None
        /\ UNCHANGED <<flushing, configured, conf, cur, outstanding, queued, pending, held,
                       discarded>>
    BY <1>1 DEF StopDone
  <2>2. started' \in BOOLEAN /\ active' \in BOOLEAN
    <3>1. started' \in BOOLEAN
      BY <1>1 DEF StopDone
    <3>2. active' \in BOOLEAN
      BY <1>1 DEF StopDone, PoolTypes
    <3>3. QED
      BY <3>1, <3>2
  <2>3. PoolTypes'
    BY <2>1, <2>2 DEF PoolTypes, Goto, PCs
  <2>4. LockOne'
    BY <2>1, PoolAssumption DEF LockOne, PoolTypes, Goto, Locked
  <2>5. QED
    BY <2>3, <2>4
<1>2. CASE LockToStop(t)
  <2>1. /\ pc[t] = "lock" /\ poolLock = None
        /\ \/ ~active /\ poolLock' = t /\ Goto(t, "stopPop")
           \/ poolLock' = None /\ Goto(t, "idle")
        /\ UNCHANGED <<flushing, stateVars, cur, outstanding, queued, pending, held, discarded>>
    BY <1>2 DEF LockToStop
  <2>2. PoolTypes'
    BY <2>1 DEF PoolTypes, Goto, PCs, stateVars
  <2>3. LockOne'
    BY <2>1, PoolAssumption DEF LockOne, PoolTypes, Goto, Locked, stateVars
  <2>4. QED
    BY <2>2, <2>3
<1>3. CASE WriteToken(t) \/ DecOutstanding(t) \/ LastBack(t) \/ StopPop(t) \/ StopFree(t)
  <2>1. /\ UNCHANGED <<flushing, stateVars, poolLock, held, discarded>>
        /\ cur' \in Int /\ outstanding' \in Int /\ queued' \in Nat /\ pending' \in Nat
    BY <1>3
    DEF WriteToken, DecOutstanding, LastBack, StopPop, StopFree, ReadControl, WriteControl,
        PoolTypes
  <2>2. \E p \in {"dec", "decFlush", "idle", "lock", "stopToken", "stopPop"} :
          Goto(t, p) /\ (p \in Locked <=> pc[t] \in Locked)
    BY <1>3 DEF WriteToken, DecOutstanding, LastBack, StopPop, StopFree, Locked
  <2>3. PoolTypes'
    BY <2>1, <2>2 DEF PoolTypes, Goto, PCs, stateVars
  <2>4. LockOne'
    BY <2>1, <2>2 DEF LockOne, PoolTypes, Goto, stateVars
  <2>5. QED
    BY <2>3, <2>4
<1>4. QED
  BY <1>1, <1>2, <1>3 DEF ReturnStep

LEMMA ControlBase ==
  ASSUME BaseInv, NEW c \in Threads,
         UnflushToken(c) \/ Unflushed(c) \/ FlushWrite(c) \/ StopOrLeave(c) \/ Deactivate(c)
         \/ SetFlushing(c)
  PROVE  BaseInv'
<1> USE PoolAssumption DEF BaseInv
<1>1. CASE UnflushToken(c) \/ Unflushed(c)
  <2>1. /\ pc[c] \in {"unflush", "unflushed"}
        /\ UNCHANGED <<stateVars, cur, outstanding, queued, held, discarded>>
        /\ \/ /\ flushing' = FALSE /\ poolLock' = None /\ Goto(c, "idle") /\ UNCHANGED pending
           \/ /\ pending' \in Nat /\ Goto(c, "unflushed") /\ UNCHANGED <<flushing, poolLock>>
    BY <1>1 DEF UnflushToken, Unflushed, ReadControl, PoolTypes
  <2>2. PoolTypes'
    BY <2>1 DEF PoolTypes, Goto, PCs, stateVars
  <2>3. LockOne'
    BY <2>1 DEF LockOne, PoolTypes, Goto, Locked, stateVars
  <2>4. QED
    BY <2>2, <2>3
<1>2. CASE FlushWrite(c) \/ StopOrLeave(c)
  <2>1. /\ pc[c] \in {"deactWrite", "flushWrite", "outstanding"}
        /\ UNCHANGED <<flushing, started, configured, conf, cur, outstanding, queued, held,
                       discarded>>
        /\ pending' \in Nat /\ active' \in {active, FALSE}
        /\ \/ \E p \in {"outstanding", "stopPop"} : Goto(c, p) /\ UNCHANGED poolLock
           \/ Goto(c, "idle") /\ poolLock' = None
    <3>1. CASE FlushWrite(c)
      BY <3>1 DEF FlushWrite, WriteControl, PoolTypes, stateVars
    <3>2. CASE StopOrLeave(c)
      BY <3>2 DEF StopOrLeave, PoolTypes, stateVars
    <3>3. QED
      BY <1>2, <3>1, <3>2
  <2>2. PoolTypes'
    BY <2>1 DEF PoolTypes, Goto, PCs
  <2>3. LockOne'
    BY <2>1 DEF LockOne, PoolTypes, Goto, Locked
  <2>4. QED
    BY <2>2, <2>3
<1>3. CASE Deactivate(c) \/ SetFlushing(c)
  <2>1. /\ pc[c] = "idle" /\ poolLock = None /\ active
        /\ flushing' = TRUE /\ poolLock' = c
        /\ \E p \in {"outstanding", "deactWrite", "unflush", "flushWrite"} : Goto(c, p)
        /\ UNCHANGED <<stateVars, cur, outstanding, queued, pending, held, discarded>>
    BY <1>3 DEF Deactivate, SetFlushing
  <2>2. PoolTypes'
    BY <2>1 DEF PoolTypes, Goto, PCs, stateVars
  <2>3. LockOne'
    BY <2>1 DEF LockOne, PoolTypes, Goto, Locked, stateVars
  <2>4. QED
    BY <2>2, <2>3
<1>4. QED
  BY <1>1, <1>2, <1>3

(* What a start adds: as many buffers as it allocated.                     *)
LEMMA ActivateAdds ==
  ASSUME PoolTypes, NEW c \in Threads, Activate(c)
  PROVE  /\ pc[c] = "idle" /\ poolLock = None /\ configured /\ ~active
         /\ \E k \in Nat : /\ cur' = cur + k /\ queued' = queued + k /\ pending' = pending + k
                           /\ conf.max = 0 \/ k = 0 \/ cur + k <= conf.max
         /\ started' \in BOOLEAN /\ active' \in BOOLEAN
         /\ \/ active' /\ poolLock' = c /\ Goto(c, "unflush")
            \/ UNCHANGED <<active, poolLock, pc>>
         /\ UNCHANGED <<flushing, configured, conf, outstanding, held, discarded>>
<1>1. /\ pc[c] = "idle" /\ poolLock = None /\ configured /\ ~active
      /\ IF active' THEN poolLock' = c /\ Goto(c, "unflush") ELSE UNCHANGED <<poolLock, pc>>
      /\ UNCHANGED <<flushing, configured, conf, outstanding, held, discarded>>
  BY DEF Activate
<1>2. conf.min \in Nat /\ conf.max \in Nat
  BY PoolAssumption DEF PoolTypes
<1>3. CASE active' = TRUE /\ UNCHANGED <<started, cur, queued, pending>>
  <2>1. cur' = cur + 0 /\ queued' = queued + 0 /\ pending' = pending + 0
    BY <1>3 DEF PoolTypes
  <2>2. started' \in BOOLEAN
    BY <1>3 DEF PoolTypes
  <2>3. QED
    BY <1>1, <1>3, <2>1, <2>2
<1>4. CASE \E k \in 0 .. conf.min : Prealloc(k)
  <2>1. PICK k \in 0 .. conf.min : Prealloc(k)
    BY <1>4
  <2>2. k \in Nat
    BY <1>2
  <2>3. /\ cur' = cur + k /\ queued' = queued + k /\ pending' = pending + k
        /\ conf.max = 0 \/ cur + k <= conf.max
    BY <2>1 DEF Prealloc, CanAlloc
  <2>4. started' \in BOOLEAN /\ active' \in BOOLEAN
    BY <2>1 DEF Prealloc
  <2>5. active' \/ UNCHANGED active
    BY <1>1, <2>4 DEF PoolTypes
  <2>6. QED
    BY <1>1, <2>2, <2>3, <2>4, <2>5
<1>5. QED
  BY <1>3, <1>4 DEF Activate

LEMMA ConfigBase ==
  ASSUME BaseInv, NEW c \in Threads,
         Activate(c) \/ (\E k \in Configs : SetConfig(c, k)) \/ UNCHANGED vars
  PROVE  BaseInv'
<1> USE PoolAssumption DEF BaseInv
<1>1. CASE Activate(c)
  <2>1. PoolTypes'
    BY <1>1, ActivateAdds DEF PoolTypes, Goto, PCs
  <2>2. LockOne'
    BY <1>1, ActivateAdds DEF LockOne, PoolTypes, Goto, Locked
  <2>3. QED
    BY <2>1, <2>2
<1>2. CASE \E k \in Configs : SetConfig(c, k)
  <2>1. PoolTypes'
    BY <1>2 DEF SetConfig, PoolTypes
  <2>2. LockOne'
    BY <1>2 DEF SetConfig, LockOne
  <2>3. QED
    BY <2>1, <2>2
<1>3. CASE UNCHANGED vars
  BY <1>3 DEF vars, stateVars, PoolTypes, LockOne
<1>4. QED
  BY <1>1, <1>2, <1>3

LEMMA BaseNext == BaseInv /\ [Next]_vars => BaseInv'
<1> SUFFICES ASSUME BaseInv, [Next]_vars PROVE BaseInv'
  OBVIOUS
<1>1. ASSUME NEW a \in Acquirers, Acquire(a) \/ AcquireStep(a) \/ ReturnStep(a) PROVE BaseInv'
  BY <1>1, AcquireBase, ReturnBase DEF Threads
<1>2. ASSUME NEW r \in Releasers, Release(r) \/ ReturnStep(r) PROVE BaseInv'
  BY <1>2, ReleaseBase, ReturnBase DEF Threads
<1>3. ASSUME NEW c \in Controllers,
             Activate(c) \/ Deactivate(c) \/ SetFlushing(c) \/ ControlStep(c)
             \/ \E k \in Configs : SetConfig(c, k)
      PROVE BaseInv'
  <2>1. c \in Threads
    BY DEF Threads
  <2>2. CASE StopPop(c) \/ StopFree(c) \/ StopDone(c)
    BY <2>1, <2>2, ReturnBase DEF ReturnStep
  <2>3. QED
    BY <1>3, <2>1, <2>2, ControlBase, ConfigBase DEF ControlStep
<1>4. CASE UNCHANGED vars
  <2>1. CASE Threads = {}
    BY <1>4, <2>1 DEF vars, stateVars, BaseInv, PoolTypes, LockOne
  <2>2. CASE Threads # {}
    BY <1>4, <2>2, ConfigBase
  <2>3. QED
    BY <2>1, <2>2
<1>5. QED
  BY <1>1, <1>2, <1>3, <1>4 DEF Next

-----------------------------------------------------------------------------
(* The tokens.                                                             *)
Balanced ==
  pending + Sleepers + Writers = queued + Readers + 1 + FlushToken + discarded

LEMMA BalancedIs == (TokenBalance <=> Balanced) /\ (TokenBalance' <=> Balanced')
BY DEF TokenBalance, Balanced, Sleepers, Writers, Readers

LEMMA SamePlaces ==
  ASSUME UNCHANGED pc
  PROVE  UNCHANGED <<Sleepers, Writers, Readers, Makers, Counters>>
BY DEF Sleepers, Writers, Readers, Makers, Counters, At

LEMMA FlushTokenType == FlushToken \in {0, 1}
BY FlushTokenIs

LEMMA AcquireBalance ==
  ASSUME BaseInv, Balanced, NEW a \in Threads, Acquire(a) \/ AcquireStep(a)
  PROVE  Balanced'
<1> USE CountTypes, FlushTokenType DEF BaseInv
<1>1. pc \in [Threads -> PCs] /\ pending \in Nat /\ queued \in Nat /\ discarded \in Nat
  BY DEF PoolTypes
<1>2. UNCHANGED <<flushing, discarded>>
  BY DEF Acquire, AcquireStep, TestFlushing, PopBuffer, ReadToken, AllocCount, AllocBuffer,
         AllocUndo, TakeToken, TestTaken, PollReturns, GiveBack
<1>3. PICK p : /\ Goto(a, p) /\ p \notin Moving /\ pc[a] \notin Moving
               /\ \/ /\ pc[a] = "pop" /\ p = "token"
                     /\ queued > 0 /\ queued' = queued - 1 /\ UNCHANGED pending
                  \/ /\ pc[a] = "token" /\ p = "idle"
                     /\ pending > 0 /\ pending' = pending - 1 /\ UNCHANGED queued
                  \/ /\ pc[a] = "wait" /\ p = "taken"
                     /\ pending > 0 /\ pending' = pending - 1 /\ UNCHANGED queued
                  \/ /\ pc[a] = "giveback" /\ p = "test"
                     /\ pending' = pending + 1 /\ UNCHANGED queued
                  \/ /\ pc[a] \in {"taken", "pollTaken"} /\ p \in {"giveback", "pollTaken"}
                     /\ UNCHANGED <<pending, queued>>
                  \/ /\ pc[a] \notin {"taken", "pollTaken", "giveback", "write", "token", "stopToken"}
                     /\ p \notin {"taken", "pollTaken", "giveback", "write", "token", "stopToken"}
                     /\ UNCHANGED <<pending, queued>>
  <2>1. CASE Acquire(a) \/ TestFlushing(a) \/ AllocCount(a) \/ AllocBuffer(a) \/ AllocUndo(a)
    BY <2>1 DEF Acquire, TestFlushing, AllocCount, AllocBuffer, AllocUndo, Moving
  <2>2. CASE PopBuffer(a) \/ ReadToken(a) \/ TakeToken(a)
    BY <2>2 DEF PopBuffer, ReadToken, TakeToken, ReadControl, Moving
  <2>3. CASE TestTaken(a) \/ PollReturns(a) \/ GiveBack(a)
    BY <2>3 DEF TestTaken, PollReturns, GiveBack, WriteControl, Moving
  <2>4. QED
    BY <2>1, <2>2, <2>3 DEF AcquireStep
<1>4. UNCHANGED FlushToken
  BY <1>1, <1>2, <1>3, SameFlushToken
<1>5. /\ Sleepers' = (Sleepers + (IF p \in {"taken", "pollTaken", "giveback"} THEN 1 ELSE 0))
                      - (IF pc[a] \in {"taken", "pollTaken", "giveback"} THEN 1 ELSE 0)
      /\ Writers' = (Writers + (IF p \in {"write"} THEN 1 ELSE 0))
                     - (IF pc[a] \in {"write"} THEN 1 ELSE 0)
      /\ Readers' = (Readers + (IF p \in {"token", "stopToken"} THEN 1 ELSE 0))
                     - (IF pc[a] \in {"token", "stopToken"} THEN 1 ELSE 0)
  BY <1>1, <1>3, Moves
<1>6. QED
  BY <1>1, <1>2, <1>3, <1>4, <1>5 DEF Balanced

LEMMA ReturnBalance ==
  ASSUME BaseInv, Balanced, NEW t \in Threads, Release(t) \/ ReturnStep(t)
  PROVE  Balanced'
<1> USE CountTypes, FlushTokenType DEF BaseInv
<1>1. pc \in [Threads -> PCs] /\ pending \in Nat /\ queued \in Nat /\ discarded \in Nat
  BY DEF PoolTypes
<1>2. UNCHANGED flushing
  BY DEF Release, ReturnStep, WriteToken, DecOutstanding, LastBack, LockToStop, StopPop,
         StopFree, StopDone
<1>3. PICK p : /\ Goto(t, p) /\ p \notin Moving /\ pc[t] \notin Moving
               /\ \/ /\ pc[t] = "idle" /\ p = "write" /\ UNCHANGED pending
                     /\ \/ queued' = queued + 1 /\ UNCHANGED discarded
                        \/ discarded' = discarded + 1 /\ UNCHANGED queued
                  \/ /\ pc[t] = "write" /\ p = "dec"
                     /\ pending' = pending + 1 /\ UNCHANGED <<queued, discarded>>
                  \/ /\ pc[t] = "stopPop" /\ p = "stopToken"
                     /\ queued > 0 /\ queued' = queued - 1 /\ UNCHANGED <<pending, discarded>>
                  \/ /\ pc[t] = "stopToken" /\ p = "stopPop"
                     /\ pending > 0 /\ pending' = pending - 1 /\ UNCHANGED <<queued, discarded>>
                  \/ /\ pc[t] \notin {"taken", "pollTaken", "giveback", "write", "token", "stopToken"}
                     /\ p \notin {"taken", "pollTaken", "giveback", "write", "token", "stopToken"}
                     /\ UNCHANGED <<pending, queued, discarded>>
  <2>1. CASE Release(t)
    BY <2>1 DEF Release, Moving
  <2>2. CASE WriteToken(t) \/ StopPop(t) \/ StopFree(t)
    BY <2>2 DEF WriteToken, StopPop, StopFree, ReadControl, WriteControl, Moving
  <2>3. CASE DecOutstanding(t) \/ LastBack(t) \/ LockToStop(t) \/ StopDone(t)
    BY <2>3 DEF DecOutstanding, LastBack, LockToStop, StopDone, Moving
  <2>4. QED
    BY <2>1, <2>2, <2>3 DEF ReturnStep
<1>4. UNCHANGED FlushToken
  BY <1>1, <1>2, <1>3, SameFlushToken
<1>5. /\ Sleepers' = (Sleepers + (IF p \in {"taken", "pollTaken", "giveback"} THEN 1 ELSE 0))
                      - (IF pc[t] \in {"taken", "pollTaken", "giveback"} THEN 1 ELSE 0)
      /\ Writers' = (Writers + (IF p \in {"write"} THEN 1 ELSE 0))
                     - (IF pc[t] \in {"write"} THEN 1 ELSE 0)
      /\ Readers' = (Readers + (IF p \in {"token", "stopToken"} THEN 1 ELSE 0))
                     - (IF pc[t] \in {"token", "stopToken"} THEN 1 ELSE 0)
  BY <1>1, <1>3, Moves
<1>6. QED
  BY <1>1, <1>2, <1>3, <1>4, <1>5 DEF Balanced

(* The flush token goes in and out with the flag: the thread that moves it *)
(* has the lock to itself.                                                 *)
LEMMA ControlBalance ==
  ASSUME BaseInv, Balanced, NEW c \in Threads,
         UnflushToken(c) \/ Unflushed(c) \/ FlushWrite(c) \/ StopOrLeave(c) \/ Deactivate(c)
         \/ SetFlushing(c)
  PROVE  Balanced'
<1> USE CountTypes, FlushTokenType DEF BaseInv
<1>1. pc \in [Threads -> PCs] /\ pending \in Nat /\ queued \in Nat /\ discarded \in Nat
  BY DEF PoolTypes
<1>2. UNCHANGED <<queued, discarded>>
  BY DEF UnflushToken, Unflushed, FlushWrite, StopOrLeave, Deactivate, SetFlushing
<1>3. \A t \in Threads \ {c} : pc[t] \notin Moving
  <2>1. pc[c] \in Locked \/ poolLock = None
    BY DEF UnflushToken, Unflushed, FlushWrite, StopOrLeave, Deactivate, SetFlushing, Locked
  <2>2. QED
    BY <2>1, PoolAssumption DEF LockOne, Locked, Moving
<1>4. PICK p \in {"unflushed", "idle", "outstanding", "stopPop", "deactWrite", "unflush",
                  "flushWrite"} : Goto(c, p)
  BY DEF UnflushToken, Unflushed, FlushWrite, StopOrLeave, Deactivate, SetFlushing
<1>5. pc[c] \in {"unflush", "unflushed", "deactWrite", "flushWrite", "outstanding", "idle"}
  BY DEF UnflushToken, Unflushed, FlushWrite, StopOrLeave, Deactivate, SetFlushing
<1>6. UNCHANGED <<Sleepers, Writers, Readers>>
  <2>1. /\ Sleepers' = (Sleepers + (IF p \in {"taken", "pollTaken", "giveback"} THEN 1 ELSE 0))
                        - (IF pc[c] \in {"taken", "pollTaken", "giveback"} THEN 1 ELSE 0)
        /\ Writers' = (Writers + (IF p \in {"write"} THEN 1 ELSE 0))
                       - (IF pc[c] \in {"write"} THEN 1 ELSE 0)
        /\ Readers' = (Readers + (IF p \in {"token", "stopToken"} THEN 1 ELSE 0))
                       - (IF pc[c] \in {"token", "stopToken"} THEN 1 ELSE 0)
    BY <1>1, <1>4, Moves
  <2>2. QED
    BY <1>4, <1>5, <2>1
<1>7. /\ FlushToken = IF flushing /\ pc[c] \notin Moving THEN 1 ELSE 0
      /\ FlushToken' = IF flushing' /\ pc'[c] \notin Moving THEN 1 ELSE 0
  BY <1>1, <1>3, <1>4, FlushTokenIs DEF Goto
<1>8. pending' + FlushToken = pending + FlushToken' /\ pending' \in Nat
  <2>1. CASE UnflushToken(c)
    BY <1>1, <1>7, <2>1, PoolAssumption
    DEF UnflushToken, ReadControl, Goto, Moving, LockOne, Locked
  <2>2. CASE Unflushed(c)
    BY <1>1, <1>7, <2>2 DEF Unflushed, Goto, Moving
  <2>3. CASE FlushWrite(c)
    BY <1>1, <1>7, <2>3, PoolAssumption
    DEF FlushWrite, WriteControl, Goto, Moving, LockOne, Locked
  <2>4. CASE StopOrLeave(c)
    BY <1>1, <1>7, <2>4 DEF StopOrLeave, Goto, Moving
  <2>5. CASE Deactivate(c) \/ SetFlushing(c)
    BY <1>1, <1>7, <2>5 DEF Deactivate, SetFlushing, Goto, Moving, PoolTypes
  <2>6. QED
    BY <2>1, <2>2, <2>3, <2>4, <2>5
<1>9. FlushToken' \in {0, 1}
  BY <1>7
<1>10. QED
  BY <1>1, <1>2, <1>6, <1>8, <1>9 DEF Balanced

LEMMA ActivateBalance ==
  ASSUME BaseInv, Balanced, NEW c \in Threads, Activate(c)
  PROVE  Balanced'
<1> USE CountTypes, FlushTokenType DEF BaseInv
<1>1. /\ pc \in [Threads -> PCs] /\ pending \in Nat /\ queued \in Nat /\ discarded \in Nat
      /\ pc[c] = "idle"
  BY ActivateAdds DEF PoolTypes
<1>2. PICK k \in Nat : queued' = queued + k /\ pending' = pending + k
  BY ActivateAdds
<1>3. UNCHANGED <<flushing, discarded>>
  BY ActivateAdds
<1>4. UNCHANGED <<Sleepers, Writers, Readers, FlushToken>>
  <2>1. CASE Goto(c, "unflush")
    <3>1. UNCHANGED FlushToken
      BY <1>1, <1>3, <2>1, SameFlushToken DEF Moving
    <3>2. UNCHANGED <<Sleepers, Writers, Readers>>
      BY <1>1, <2>1, Moves
    <3>3. QED
      BY <3>1, <3>2
  <2>2. CASE UNCHANGED pc
    BY <1>3, <2>2, SamePlaces, FlushTokenIs
  <2>3. QED
    BY <2>1, <2>2, ActivateAdds
<1>5. QED
  BY <1>1, <1>2, <1>3, <1>4 DEF Balanced

LEMMA BalanceNext == BaseInv /\ Balanced /\ [Next]_vars => Balanced'
<1> SUFFICES ASSUME BaseInv, Balanced, [Next]_vars PROVE Balanced'
  OBVIOUS
<1>1. ASSUME UNCHANGED <<pending, queued, discarded, flushing, pc>> PROVE Balanced'
  BY <1>1, SamePlaces, FlushTokenIs DEF Balanced
<1>2. ASSUME NEW a \in Acquirers, Acquire(a) \/ AcquireStep(a) \/ ReturnStep(a) PROVE Balanced'
  BY <1>2, AcquireBalance, ReturnBalance DEF Threads
<1>3. ASSUME NEW r \in Releasers, Release(r) \/ ReturnStep(r) PROVE Balanced'
  BY <1>3, ReturnBalance DEF Threads
<1>4. ASSUME NEW c \in Controllers, NEW k \in Configs, SetConfig(c, k) PROVE Balanced'
  BY <1>1, <1>4 DEF SetConfig
<1>5. ASSUME NEW c \in Controllers,
             Activate(c) \/ Deactivate(c) \/ SetFlushing(c) \/ ControlStep(c)
      PROVE Balanced'
  <2>1. c \in Threads
    BY DEF Threads
  <2>2. CASE StopPop(c) \/ StopFree(c) \/ StopDone(c)
    BY <2>1, <2>2, ReturnBalance DEF ReturnStep
  <2>3. QED
    BY <1>5, <2>1, <2>2, ActivateBalance, ControlBalance DEF ControlStep
<1>6. CASE UNCHANGED vars
  BY <1>1, <1>6 DEF vars
<1>7. QED
  BY <1>2, <1>3, <1>4, <1>5, <1>6 DEF Next

-----------------------------------------------------------------------------
(* The buffers.  A pool that gets another configuration forgets those that *)
(* a late stop left in the queue (gstbufferpool.c:627), so what follows is *)
(* about pools that are always configured alike.                           *)
OneConfiguration == \A k, l \in Configs : k = l

Counted ==
  /\ cur = queued + held + Counters
  /\ conf.max # 0 => queued + held + Makers <= conf.max
  /\ configured => conf \in Configs
  /\ ~configured => /\ flushing /\ ~active /\ ~started
                    /\ queued = 0 /\ held = 0
                    /\ \A t \in Threads : pc[t] \in {"idle", "test", "dec", "decFlush", "lock"}

CountInv == BaseInv /\ Counted

(* What a thread at a place adds to the buffers made, and to those counted.*)
Made(q) == IF q \in {"token", "stopToken", "create"} THEN 1 ELSE 0
Charged(q) == IF q \in {"token", "stopToken", "create", "undo"} THEN 1 ELSE 0

(* A count that is the sum of three numbers stays so when what is taken    *)
(* from one is added to another.                                           *)
Sums(x, q, h, c) == x = q + h + c
Adds(x, d, y, e) == y + d = x + e
Trades(x, q, h, d, y, r, i, e) == y + q + h + d = x + r + i + e

LEMMA TradeKeepsSum ==
  ASSUME NEW x \in Int, NEW q \in Int, NEW h \in Int, NEW c \in Int, NEW d \in Int,
         NEW y \in Int, NEW r \in Int, NEW i \in Int, NEW f \in Int, NEW e \in Int,
         Sums(x, q, h, c), Adds(c, d, f, e), Trades(x, q, h, d, y, r, i, e)
  PROVE  Sums(y, r, i, f)
BY DEF Sums, Adds, Trades

(* A step of one thread: what it adds to each count.                       *)
LEMMA StepCounts ==
  ASSUME CountInv, NEW t \in Threads, NEW p, Goto(t, p),
         UNCHANGED <<conf, configured, flushing, active, started>>,
         configured \/ p \in {"idle", "test", "dec", "decFlush", "lock"},
         queued' \in Nat, held' \in Nat, cur' \in Int,
         ~configured => UNCHANGED <<queued, held>>,
         cur' + queued + held + Charged(pc[t]) = cur + queued' + held' + Charged(p),
         \/ queued' + held' + Made(p) <= queued + held + Made(pc[t])
         \/ pc[t] = "alloc" /\ p = "create" /\ UNCHANGED <<queued, held>> /\ ~MaxReached(cur)
  PROVE  Counted'
<1> USE CountTypes DEF CountInv, BaseInv
<1>1. /\ pc \in [Threads -> PCs] /\ cur \in Int /\ queued \in Nat /\ held \in Nat
      /\ conf.max \in Nat
  BY PoolAssumption DEF PoolTypes
<1>2. /\ Makers' = (Makers + Made(p)) - Made(pc[t])
      /\ Counters' = (Counters + Charged(p)) - Charged(pc[t])
  BY <1>1, Moves DEF Made, Charged
<1>3. Made(p) \in Nat /\ Made(pc[t]) \in Nat /\ Charged(p) \in Nat /\ Charged(pc[t]) \in Nat
  BY DEF Made, Charged
<1>4. cur' = queued' + held' + Counters' /\ (conf.max # 0 => queued' + held' + Makers' <= conf.max)
  <2>1. cur = queued + held + Counters /\ (conf.max # 0 => queued + held + Makers <= conf.max)
    BY DEF Counted
  <2>2. cur' = queued' + held' + Counters'
    <3>1. Counters' \in Int /\ Adds(Counters, Charged(pc[t]), Counters', Charged(p))
      BY <1>2, <1>3 DEF Adds
    <3>2. Sums(cur, queued, held, Counters)
      BY <2>1 DEF Sums
    <3>3. Trades(cur, queued, held, Charged(pc[t]), cur', queued', held', Charged(p))
      BY DEF Trades
    <3>4. Sums(cur', queued', held', Counters')
      <4> HIDE DEF CountInv, BaseInv
      <4>1. queued' \in Int /\ held' \in Int /\ cur' \in Int
        OBVIOUS
      <4>2. QED
        BY <1>1, <1>3, <3>1, <3>2, <3>3, <4>1, TradeKeepsSum
    <3>5. QED
      BY <3>4 DEF Sums
  <2>3. CASE queued' + held' + Made(p) <= queued + held + Made(pc[t])
    <3>1. queued' + held' + Makers' <= queued + held + Makers
      BY <1>1, <1>2, <1>3, <2>3
    <3>2. QED
      BY <1>1, <1>2, <1>3, <2>1, <2>2, <3>1
  <2>4. CASE pc[t] = "alloc" /\ p = "create" /\ UNCHANGED <<queued, held>> /\ ~MaxReached(cur)
    <3>1. Makers' = Makers + 1
      BY <1>2, <2>4 DEF Made
    <3>2. conf.max # 0 => queued + held + Makers < conf.max
      BY <1>1, <2>1, <2>4 DEF MaxReached
    <3>3. QED
      BY <1>1, <2>2, <2>4, <3>1, <3>2
  <2>5. QED
    BY <2>3, <2>4
<1>5. ~configured => \A x \in Threads : pc'[x] \in {"idle", "test", "dec", "decFlush", "lock"}
  BY <1>1 DEF Goto, Counted
<1>6. QED
  BY <1>4, <1>5 DEF Counted

LEMMA SameCounts ==
  ASSUME Counted, NEW t \in Threads, pc \in [Threads -> PCs], configured,
         UNCHANGED <<cur, queued, held, conf, configured>>, NEW p,
         UNCHANGED pc \/ Goto(t, p),
         p \notin {"token", "stopToken", "create", "undo"},
         pc[t] \notin {"token", "stopToken", "create", "undo"}
  PROVE  Counted'
<1> USE CountTypes
<1>1. UNCHANGED <<Makers, Counters>>
  BY Moves, SamePlaces
<1>2. QED
  BY <1>1 DEF Counted

LEMMA AcquireCounts ==
  ASSUME CountInv, NEW a \in Threads, Acquire(a) \/ AcquireStep(a)
  PROVE  Counted'
<1> USE DEF CountInv, BaseInv
<1>1. cur \in Int /\ queued \in Nat /\ held \in Nat /\ configured \in BOOLEAN
  BY DEF PoolTypes
<1>2. ~configured => flushing /\ pc[a] \in {"idle", "test", "dec", "decFlush", "lock"}
  BY DEF Counted
<1>3. CASE Acquire(a) \/ TestFlushing(a)
  BY <1>1, <1>2, <1>3, StepCounts DEF Made, Charged, Acquire, TestFlushing, stateVars
<1>4. CASE PopBuffer(a) \/ ReadToken(a)
  BY <1>1, <1>2, <1>4, StepCounts DEF Made, Charged, PopBuffer, ReadToken, stateVars
<1>5. CASE AllocCount(a)
  BY <1>1, <1>2, <1>5, StepCounts DEF Made, Charged, AllocCount, stateVars
<1>6. CASE AllocBuffer(a)
  <2>1. CASE held' = held + 1 /\ Goto(a, "idle") /\ UNCHANGED cur
    BY <1>1, <1>2, <1>6, <2>1, StepCounts DEF Made, Charged, AllocBuffer, stateVars
  <2>2. CASE cur' = cur - 1 /\ Goto(a, "dec") /\ UNCHANGED held
    BY <1>1, <1>2, <1>6, <2>2, StepCounts DEF Made, Charged, AllocBuffer, stateVars
  <2>3. QED
    BY <1>6, <2>1, <2>2 DEF AllocBuffer
<1>7. CASE AllocUndo(a)
  BY <1>1, <1>2, <1>7, StepCounts DEF Made, Charged, AllocUndo, stateVars
<1>8. CASE TakeToken(a) \/ TestTaken(a)
  BY <1>1, <1>2, <1>8, StepCounts DEF Made, Charged, TakeToken, TestTaken, stateVars
<1>9. CASE PollReturns(a) \/ GiveBack(a)
  BY <1>1, <1>2, <1>9, StepCounts DEF Made, Charged, PollReturns, GiveBack, stateVars
<1>10. QED
  BY <1>3, <1>4, <1>5, <1>6, <1>7, <1>8, <1>9 DEF AcquireStep

LEMMA ReturnCounts ==
  ASSUME CountInv, NEW t \in Threads, Release(t) \/ ReturnStep(t)
  PROVE  Counted'
<1> USE DEF CountInv, BaseInv
<1>1. cur \in Int /\ queued \in Nat /\ held \in Nat /\ configured \in BOOLEAN
  BY DEF PoolTypes
<1>2. ~configured => /\ held = 0 /\ flushing /\ ~started
                     /\ pc[t] \in {"idle", "test", "dec", "decFlush", "lock"}
  BY DEF Counted
<1>3. CASE Release(t)
  <2>1. CASE queued' = queued + 1 /\ UNCHANGED <<cur, discarded>>
    BY <1>1, <1>2, <1>3, <2>1, StepCounts DEF Made, Charged, Release, stateVars
  <2>2. CASE cur' = cur - 1 /\ UNCHANGED queued
    BY <1>1, <1>2, <1>3, <2>2, StepCounts DEF Made, Charged, Release, stateVars
  <2>3. QED
    BY <1>3, <2>1, <2>2 DEF Release
<1>4. CASE WriteToken(t) \/ DecOutstanding(t) \/ LastBack(t)
  BY <1>1, <1>2, <1>4, StepCounts DEF Made, Charged, WriteToken, DecOutstanding, LastBack, stateVars
<1>5. CASE LockToStop(t)
  BY <1>1, <1>2, <1>5, StepCounts DEF Made, Charged, LockToStop, stateVars
<1>6. CASE StopPop(t)
  BY <1>1, <1>2, <1>6, StepCounts DEF Made, Charged, StopPop, stateVars
<1>7. CASE StopFree(t)
  BY <1>1, <1>2, <1>7, StepCounts DEF Made, Charged, StopFree, stateVars
<1>8. CASE StopDone(t)
  BY <1>2, <1>8, SameCounts DEF StopDone, PoolTypes
<1>9. QED
  BY <1>3, <1>4, <1>5, <1>6, <1>7, <1>8 DEF ReturnStep

LEMMA ControlCounts ==
  ASSUME CountInv, NEW c \in Threads,
         UnflushToken(c) \/ Unflushed(c) \/ FlushWrite(c) \/ StopOrLeave(c) \/ Deactivate(c)
         \/ SetFlushing(c)
  PROVE  Counted'
<1> USE DEF CountInv, BaseInv
<1>1. configured /\ pc \in [Threads -> PCs]
  BY DEF UnflushToken, Unflushed, FlushWrite, StopOrLeave, Deactivate, SetFlushing, Counted,
         PoolTypes
<1>2. PICK p \in {"unflushed", "idle", "outstanding", "stopPop", "deactWrite", "unflush",
                  "flushWrite"} : Goto(c, p)
  BY DEF UnflushToken, Unflushed, FlushWrite, StopOrLeave, Deactivate, SetFlushing
<1>3. UNCHANGED <<cur, queued, held, conf, configured>>
  BY DEF UnflushToken, Unflushed, FlushWrite, StopOrLeave, Deactivate, SetFlushing, stateVars
<1>4. pc[c] \notin {"token", "stopToken", "create", "undo"}
  BY DEF UnflushToken, Unflushed, FlushWrite, StopOrLeave, Deactivate, SetFlushing
<1>5. QED
  BY <1>1, <1>2, <1>3, <1>4, SameCounts

LEMMA ActivateCounts ==
  ASSUME CountInv, NEW c \in Threads, Activate(c)
  PROVE  Counted'
<1> USE CountTypes DEF CountInv, BaseInv
<1>1. /\ pc[c] = "idle" /\ configured
      /\ UNCHANGED <<configured, conf, held>>
      /\ pc \in [Threads -> PCs] /\ conf.max \in Nat
      /\ cur \in Int /\ queued \in Nat /\ held \in Nat
  BY ActivateAdds, PoolAssumption DEF PoolTypes
<1>2. PICK k \in Nat : /\ cur' = cur + k /\ queued' = queued + k
                       /\ conf.max = 0 \/ k = 0 \/ cur + k <= conf.max
  BY ActivateAdds
<1>3. UNCHANGED <<Makers, Counters>>
  <2>1. CASE Goto(c, "unflush")
    BY <1>1, <2>1, Moves
  <2>2. CASE UNCHANGED pc
    BY <2>2, SamePlaces
  <2>3. QED
    BY <2>1, <2>2, ActivateAdds
<1>4. cur' = queued' + held' + Counters'
  BY <1>1, <1>2, <1>3 DEF Counted
<1>5. conf.max # 0 => queued' + held' + Makers' <= conf.max
  BY <1>1, <1>2, <1>3 DEF Counted
<1>6. QED
  BY <1>1, <1>4, <1>5 DEF Counted

(* An empty pool is configured; one that is configured keeps its numbers.  *)
LEMMA SetConfigCounts ==
  ASSUME CountInv, OneConfiguration, NEW c \in Threads, NEW k \in Configs, SetConfig(c, k)
  PROVE  Counted'
<1> USE DEF CountInv, BaseInv
<1>1. ~configured
  BY DEF SetConfig, Counted, OneConfiguration
<1>2. Makers = 0 /\ Counters = 0
  <2>1. \A t \in Threads : pc[t] \notin {"token", "stopToken", "create", "undo"}
    BY <1>1 DEF Counted
  <2>2. QED
    BY <2>1, AtType DEF Makers, Counters
<1>3. Makers' = 0 /\ Counters' = 0
  BY <1>2, SamePlaces DEF SetConfig
<1>4. conf'.max \in Nat
  BY PoolAssumption DEF SetConfig
<1>5. QED
  BY <1>1, <1>3, <1>4 DEF SetConfig, Counted

LEMMA CountNext ==
  ASSUME OneConfiguration, CountInv, [Next]_vars
  PROVE  CountInv'
<1>1. BaseInv'
  BY BaseNext DEF CountInv
<1>2. ASSUME NEW a \in Acquirers, Acquire(a) \/ AcquireStep(a) \/ ReturnStep(a) PROVE Counted'
  BY <1>2, AcquireCounts, ReturnCounts DEF Threads
<1>3. ASSUME NEW r \in Releasers, Release(r) \/ ReturnStep(r) PROVE Counted'
  BY <1>3, ReturnCounts DEF Threads
<1>4. ASSUME NEW c \in Controllers,
             Activate(c) \/ Deactivate(c) \/ SetFlushing(c) \/ ControlStep(c)
      PROVE Counted'
  <2>1. c \in Threads
    BY DEF Threads
  <2>2. CASE StopPop(c) \/ StopFree(c) \/ StopDone(c)
    BY <2>1, <2>2, ReturnCounts DEF ReturnStep
  <2>3. QED
    BY <1>4, <2>1, <2>2, ActivateCounts, ControlCounts DEF ControlStep
<1>5. ASSUME NEW c \in Controllers, NEW k \in Configs, SetConfig(c, k) PROVE Counted'
  BY <1>5, SetConfigCounts DEF Threads
<1>6. ASSUME UNCHANGED vars PROVE Counted'
  <2>1. UNCHANGED <<Makers, Counters>> /\ UNCHANGED <<cur, queued, held, conf, configured,
                                                     flushing, active, started, pc>>
    BY <1>6, SamePlaces DEF vars, stateVars
  <2>2. QED
    BY <2>1 DEF CountInv, Counted
<1>7. Counted'
  BY <1>2, <1>3, <1>4, <1>5, <1>6 DEF Next
<1>8. QED
  BY <1>1, <1>7 DEF CountInv

-----------------------------------------------------------------------------
LEMMA PoolInit == Init => BaseInv /\ Balanced /\ CountInv
<1> SUFFICES ASSUME Init PROVE BaseInv /\ Balanced /\ CountInv
  OBVIOUS
<1>1. BaseInv
  <2>1. pc \in [Threads -> PCs]
    BY DEF Init, PCs
  <2>2. PoolTypes
    <3>1. conf \in Configs \cup {[min |-> 0, max |-> 0]} /\ poolLock \in Threads \cup {None}
      BY DEF Init
    <3>2. cur \in Int /\ outstanding \in Int /\ queued \in Nat /\ pending \in Nat /\ held \in Nat
          /\ discarded \in Nat
      BY DEF Init
    <3>3. QED
      BY <2>1, <3>1, <3>2 DEF Init, PoolTypes
  <2>3. LockOne
    BY PoolAssumption DEF Init, LockOne, Locked
  <2>4. QED
    BY <2>2, <2>3 DEF BaseInv
<1>2. Sleepers = 0 /\ Writers = 0 /\ Readers = 0 /\ Makers = 0 /\ Counters = 0
  BY AtType DEF Init, Sleepers, Writers, Readers, Makers, Counters
<1>3. FlushToken = 1
  BY FlushTokenIs DEF Init, Moving
<1>4. Balanced
  BY <1>2, <1>3 DEF Init, Balanced
<1>5. Counted
  BY <1>2 DEF Init, Counted
<1>6. QED
  BY <1>1, <1>4, <1>5 DEF CountInv

(* gstbufferpool.c:169-174, 1155-1182, 1351: whatever threads sleep, flush *)
(* and stop, the poll has one token for each free buffer, the flush token  *)
(* and the wait token.                                                     *)
THEOREM TokensBalance == Spec => []TokenBalance
<1>1. BaseInv /\ Balanced /\ [Next]_vars => (BaseInv /\ Balanced)'
  BY BaseNext, BalanceNext
<1>2. Balanced => TokenBalance
  BY BalancedIs
<1>3. QED
  BY <1>1, <1>2, PoolInit, PTL DEF Spec

(* gstbufferpool.c:282-313, 1334: cur_buffers is the number of buffers in  *)
(* existence, and of those counted on the way to being made or refused.    *)
THEOREM CountIsExact ==
  ASSUME OneConfiguration
  PROVE  Spec => []CurBuffersExact
<1>1. CountInv /\ [Next]_vars => CountInv'
  BY CountNext
<1>2. CountInv => CurBuffersExact
  BY DEF CountInv, Counted, CurBuffersExact, Counters
<1>3. QED
  BY <1>1, <1>2, PoolInit, PTL DEF Spec

(* gstbufferpool.c:282-284: no more than max_buffers buffers exist, though *)
(* each thread that finds the queue empty counts before it compares.       *)
THEOREM MaxIsRespected ==
  ASSUME OneConfiguration
  PROVE  Spec => []MaxBuffersRespected
<1>1. CountInv /\ [Next]_vars => CountInv'
  BY CountNext
<1>2. CountInv => MaxBuffersRespected
  BY DEF CountInv, Counted, MaxBuffersRespected, Makers
<1>3. QED
  BY <1>1, <1>2, PoolInit, PTL DEF Spec
=============================================================================
