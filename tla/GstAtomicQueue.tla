--------------------------- MODULE GstAtomicQueue ----------------------------
(***************************************************************************)
(* gstreamer/gst/gstatomicqueue.c (without LOW_MEM): a queue of pointers   *)
(* for any number of writers and readers, without locks.  The pointers are *)
(* kept in GstAQueueMem arrays; when the last one is full a writer links a *)
(* new, larger one behind it, and readers move on to it when theirs is     *)
(* empty.                                                                  *)
(*                                                                         *)
(* A step is one atomic access to memory that threads share.  The arrays   *)
(* are numbered in the order they become queue->tail_mem; an array a       *)
(* writer allocates but cannot make visible is never seen by another       *)
(* thread and is left out.  The real smallest array has 16 slots           *)
(* (gstatomicqueue.c:85); InitSlots stands for that number.                *)
(***************************************************************************)
EXTENDS Integers, Sequences, FiniteSets

CONSTANTS
  Writers, Readers,  \* threads
  InitSlots,         \* slots of the first array, a power of two
  Pushes,            \* bound: pushes of each writer
  None               \* NULL

ASSUME QueueAssumption ==
  /\ InitSlots \in Nat \ {0}
  /\ Pushes \in Nat
  /\ None \notin Writers \X Nat

VARIABLES
  mems,      \* the arrays: size (a mask), array, head, tail_write, tail_read, next
  headMem,   \* queue->head_mem
  tailMem,   \* queue->tail_mem
  freeList,  \* the arrays on queue->free_list
  wpc, wmem, whead, wtail,  \* each writer's place, tail_mem, head and tail
  pushed,                   \* how many pushes it started
  rpc, rmem, rhead, rret,   \* each reader's place, head_mem, head and ret
  popped                    \* history: what the pops returned, in the order
                            \* of their successful exchange of mem->head

memVars    == <<mems, headMem, tailMem, freeList>>
writerVars == <<wpc, wmem, whead, wtail, pushed>>
readerVars == <<rpc, rmem, rhead, rret, popped>>
vars       == <<memVars, writerVars, readerVars>>

Item == Writers \X (1 .. Pushes)

WriterPCs == {"idle", "again", "head", "tail", "grow", "link", "cas", "store", "publish"}
ReaderPCs == {"idle", "again", "head", "tail", "next", "swing", "load", "cas"}

TypeOK ==
  /\ headMem \in DOMAIN mems
  /\ tailMem = Len(mems)
  /\ freeList = 1 .. headMem - 1
  /\ \A m \in DOMAIN mems : mems[m].next \in {0, m + 1}
  /\ wpc \in [Writers -> WriterPCs]
  /\ rpc \in [Readers -> ReaderPCs]
  /\ pushed \in [Writers -> 0 .. Pushes]
  /\ popped \in Seq([item : Item, mem : DOMAIN mems])

\* Mutant: the new array is not told where reading starts.
NewMemUnset(slots, pos) ==
  [size |-> slots - 1, array |-> [i \in 0 .. slots - 1 |-> None],
   head |-> pos, tail_write |-> pos, tail_read |-> 0, next |-> 0]

(* new_queue_mem                                                           *)
NewMem(slots, pos) ==
  [size |-> slots - 1, array |-> [i \in 0 .. slots - 1 |-> None],
   head |-> pos, tail_write |-> pos, tail_read |-> pos, next |-> 0]

Slot(m, i) == i % (mems[m].size + 1)

Init ==
  /\ mems = <<NewMem(InitSlots, 0)>>
  /\ headMem = 1 /\ tailMem = 1
  /\ freeList = {}
  /\ wpc = [w \in Writers |-> "idle"]
  /\ wmem = [w \in Writers |-> 0]
  /\ whead = [w \in Writers |-> 0]
  /\ wtail = [w \in Writers |-> 0]
  /\ pushed = [w \in Writers |-> 0]
  /\ rpc = [r \in Readers |-> "idle"]
  /\ rmem = [r \in Readers |-> 0]
  /\ rhead = [r \in Readers |-> 0]
  /\ rret = [r \in Readers |-> None]
  /\ popped = <<>>

-----------------------------------------------------------------------------
(* gst_atomic_queue_push                                                   *)
WGoto(w, pc) == wpc' = [wpc EXCEPT ![w] = pc]

(* The end of an attempt: its local variables are dead.                    *)
WDone(w, pc) ==
  /\ WGoto(w, pc)
  /\ wmem' = [wmem EXCEPT ![w] = 0]
  /\ whead' = [whead EXCEPT ![w] = 0]
  /\ wtail' = [wtail EXCEPT ![w] = 0]

(* A call starts, or starts again: read queue->tail_mem.                   *)
PushReadMem(w) ==
  /\ \/ /\ wpc[w] = "idle"
        /\ pushed[w] < Pushes
        /\ pushed' = [pushed EXCEPT ![w] = @ + 1]
     \/ wpc[w] = "again" /\ UNCHANGED pushed
  /\ wmem' = [wmem EXCEPT ![w] = tailMem]
  /\ WGoto(w, "head")
  /\ UNCHANGED <<memVars, whead, wtail, readerVars>>

PushReadHead(w) ==
  /\ wpc[w] = "head"
  /\ whead' = [whead EXCEPT ![w] = mems[wmem[w]].head]
  /\ WGoto(w, "tail")
  /\ UNCHANGED <<memVars, wmem, wtail, pushed, readerVars>>

\* Mutant: one slot too many.
NotFullOffByOne(m, head, tail) == tail - head <= mems[m].size + 1

NotFull(m, head, tail) == tail - head <= mems[m].size

PushReadTail(w) ==
  /\ wpc[w] = "tail"
  /\ LET tail == mems[wmem[w]].tail_write IN
       /\ wtail' = [wtail EXCEPT ![w] = tail]
       /\ WGoto(w, IF NotFull(wmem[w], whead[w], tail) THEN "cas" ELSE "grow")
  /\ UNCHANGED <<memVars, wmem, whead, pushed, readerVars>>

(* Full: try to make a new array visible to the other writers.             *)
PushGrow(w) ==
  /\ wpc[w] = "grow"
  /\ \/ /\ tailMem = wmem[w]
        /\ mems' = Append(mems, NewMem(2 * (mems[wmem[w]].size + 1), wtail[w]))
        /\ tailMem' = tailMem + 1
        /\ WGoto(w, "link")
        /\ UNCHANGED <<wmem, whead, wtail>>
     \/ /\ tailMem # wmem[w]
        /\ WDone(w, "again")
        /\ UNCHANGED <<mems, tailMem>>
  /\ UNCHANGED <<headMem, freeList, pushed, readerVars>>

(* Then to the readers.                                                    *)
PushLink(w) ==
  /\ wpc[w] = "link"
  /\ mems' = [mems EXCEPT ![wmem[w]].next = wmem[w] + 1]
  /\ WDone(w, "again")
  /\ UNCHANGED <<headMem, tailMem, freeList, pushed, readerVars>>

PushTakeSlot(w) ==
  /\ wpc[w] = "cas"
  /\ \/ /\ mems[wmem[w]].tail_write = wtail[w]
        /\ mems' = [mems EXCEPT ![wmem[w]].tail_write = @ + 1]
        /\ WGoto(w, "store")
        /\ UNCHANGED <<wmem, whead, wtail>>
     \/ /\ mems[wmem[w]].tail_write # wtail[w]
        /\ WDone(w, "again")
        /\ UNCHANGED mems
  /\ UNCHANGED <<headMem, tailMem, freeList, pushed, readerVars>>

PushStore(w) ==
  /\ wpc[w] = "store"
  /\ mems' = [mems EXCEPT ![wmem[w]].array[Slot(wmem[w], wtail[w])] = <<w, pushed[w]>>]
  /\ WGoto(w, "publish")
  /\ UNCHANGED <<headMem, tailMem, freeList, wmem, whead, wtail, pushed, readerVars>>

(* The busy wait for the writers of the slots before this one.             *)
PushPublish(w) ==
  /\ wpc[w] = "publish"
  /\ mems[wmem[w]].tail_read = wtail[w]
  /\ mems' = [mems EXCEPT ![wmem[w]].tail_read = @ + 1]
  /\ WDone(w, "idle")
  /\ UNCHANGED <<headMem, tailMem, freeList, pushed, readerVars>>

-----------------------------------------------------------------------------
(* gst_atomic_queue_pop and _peek: the same search for a slot.             *)
RGoto(r, pc) == rpc' = [rpc EXCEPT ![r] = pc]

RDone(r, pc) ==
  /\ RGoto(r, pc)
  /\ rmem' = [rmem EXCEPT ![r] = 0]
  /\ rhead' = [rhead EXCEPT ![r] = 0]
  /\ rret' = [rret EXCEPT ![r] = None]

(* A call starts, or starts again: read queue->head_mem.                   *)
ReadMem(r) ==
  /\ rpc[r] \in {"idle", "again"}
  /\ rmem' = [rmem EXCEPT ![r] = headMem]
  /\ RGoto(r, "head")
  /\ UNCHANGED <<memVars, writerVars, rhead, rret, popped>>

ReadHead(r) ==
  /\ rpc[r] = "head"
  /\ rhead' = [rhead EXCEPT ![r] = mems[rmem[r]].head]
  /\ RGoto(r, "tail")
  /\ UNCHANGED <<memVars, writerVars, rmem, rret, popped>>

ReadTail(r) ==
  /\ rpc[r] = "tail"
  /\ RGoto(r, IF mems[rmem[r]].tail_read # rhead[r] THEN "load" ELSE "next")
  /\ UNCHANGED <<memVars, writerVars, rmem, rhead, rret, popped>>

(* Empty: NULL when there is no next array.                                *)
ReadNext(r) ==
  /\ rpc[r] = "next"
  /\ \/ /\ mems[rmem[r]].next = 0
        /\ RDone(r, "idle")
     \/ /\ mems[rmem[r]].next # 0
        /\ RGoto(r, "swing")
        /\ UNCHANGED <<rmem, rhead, rret>>
  /\ UNCHANGED <<memVars, writerVars, popped>>

(* Move queue->head_mem on and retire the old array, or start again.       *)
ReadSwing(r) ==
  /\ rpc[r] = "swing"
  /\ \/ /\ headMem = rmem[r]
        /\ headMem' = rmem[r] + 1
        /\ freeList' = freeList \cup {rmem[r]}
     \/ /\ headMem # rmem[r]
        /\ UNCHANGED <<headMem, freeList>>
  /\ RDone(r, "again")
  /\ UNCHANGED <<mems, tailMem, writerVars, popped>>

(* A peek returns the slot as it is, a pop has to take it first.           *)
PeekLoad(r) ==
  /\ rpc[r] = "load"
  /\ RDone(r, "idle")
  /\ UNCHANGED <<memVars, writerVars, popped>>

PopLoad(r) ==
  /\ rpc[r] = "load"
  /\ rret' = [rret EXCEPT ![r] = mems[rmem[r]].array[Slot(rmem[r], rhead[r])]]
  /\ RGoto(r, "cas")
  /\ UNCHANGED <<memVars, writerVars, rmem, rhead, popped>>

Return(r) == popped' = Append(popped, [item |-> rret[r], mem |-> rmem[r]])

(* Mutant: the head is stored, not exchanged.                              *)
PopTakeAny(r) ==
  /\ rpc[r] = "cas"
  /\ mems' = [mems EXCEPT ![rmem[r]].head = rhead[r] + 1]
  /\ Return(r)
  /\ RDone(r, "idle")
  /\ UNCHANGED <<headMem, tailMem, freeList, writerVars>>

PopTake(r) ==
  /\ rpc[r] = "cas"
  /\ \/ /\ mems[rmem[r]].head = rhead[r]
        /\ mems' = [mems EXCEPT ![rmem[r]].head = @ + 1]
        /\ Return(r)
        /\ RDone(r, "idle")
     \/ /\ mems[rmem[r]].head # rhead[r]
        /\ RDone(r, "again")
        /\ UNCHANGED <<mems, popped>>
  /\ UNCHANGED <<headMem, tailMem, freeList, writerVars>>

-----------------------------------------------------------------------------
WriterStep(w) ==
  \/ PushReadMem(w) \/ PushReadHead(w) \/ PushReadTail(w)
  \/ PushGrow(w) \/ PushLink(w)
  \/ PushTakeSlot(w) \/ PushStore(w) \/ PushPublish(w)

ReaderStep(r) ==
  \/ ReadMem(r) \/ ReadHead(r) \/ ReadTail(r) \/ ReadNext(r) \/ ReadSwing(r)
  \/ PeekLoad(r) \/ PopLoad(r) \/ PopTake(r)

Next ==
  \/ \E w \in Writers : WriterStep(w)
  \/ \E r \in Readers : ReaderStep(r)

Spec == Init /\ [][Next]_vars

-----------------------------------------------------------------------------
(* The items readers can take from array m.                                *)
Visible(m) ==
  {mems[m].array[Slot(m, i)] : i \in mems[m].head .. mems[m].tail_read - 1}

(* The items whose push has returned.                                      *)
Written(w) == {<<w, n>> : n \in 1 .. IF wpc[w] = "idle" THEN pushed[w] ELSE pushed[w] - 1}

Popped == {popped[i].item : i \in DOMAIN popped}

(* No pop returns what another pop returned: a reader whose slot was taken,*)
(* and even reused, between the load and the exchange starts again         *)
(* (gstatomicqueue.c:315-317).                                             *)
NoDuplicates == \A i, j \in DOMAIN popped : popped[i].item = popped[j].item => i = j

(* Items of one writer come out of an array in the order they went in      *)
(* (gstatomicqueue.c:377, 388).                                            *)
WriterOrder ==
  \A i, j \in DOMAIN popped :
    LET a == popped[i]
        b == popped[j]
    IN  i < j /\ a.mem = b.mem /\ a.item[1] = b.item[1] => a.item[2] < b.item[2]

(* The busy wait of a push ends: the slot tail_read stands at belongs to a *)
(* writer that is still on its way to publish it (gstatomicqueue.c:383).   *)
BusyWaitEnds ==
  \A w \in Writers :
    wpc[w] = "publish" =>
      \E v \in Writers :
        /\ wpc[v] \in {"store", "publish"}
        /\ wmem[v] = wmem[w]
        /\ wtail[v] = mems[wmem[w]].tail_read

(* "a queue that can be used from multiple threads" (gstatomicqueue.c:36): *)
(* an item whose push returned is popped or can still be reached from      *)
(* queue->head_mem.                                                        *)
NothingLost ==
  \A w \in Writers :
    Written(w) \subseteq Popped \cup UNION {Visible(m) : m \in headMem .. Len(mems)}
=============================================================================
