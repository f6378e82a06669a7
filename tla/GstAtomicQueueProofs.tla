------------------------- MODULE GstAtomicQueueProofs -------------------------
(***************************************************************************)
(* The atomic queue for any number of threads, pushes and slots: no pop    *)
(* returns what another one did, the items of a writer leave an array in   *)
(* the order they came, and a busy wait has somebody to wait for.          *)
(***************************************************************************)
EXTENDS GstAtomicQueue, SequenceTheorems, TLAPS

Items == Writers \X Nat
Cells == Items \cup {None}
Arrays == UNION {[0 .. n -> Cells] : n \in Nat}
MemRecord == [size : Nat, array : Arrays, head : Nat, tail_write : Nat,
              tail_read : Nat, next : Nat]
Returned == [item : Items, mem : Nat]
Mems == DOMAIN mems

(* A writer between its exchange of tail_write and that of tail_read.      *)
Holding == {"store", "publish"}
Holds(w, m, i) == wpc[w] \in Holding /\ wmem[w] = m /\ wtail[w] = i

MemTypes ==
  /\ mems \in Seq(MemRecord)
  /\ headMem \in Mems /\ tailMem = Len(mems)
  /\ \A m \in Mems :
       /\ mems[m].array \in [0 .. mems[m].size -> Cells]
       /\ mems[m].next # 0 => m + 1 \in Mems

WriterTypes ==
  /\ wpc \in [Writers -> WriterPCs] /\ wmem \in [Writers -> Nat]
  /\ whead \in [Writers -> Nat] /\ wtail \in [Writers -> Nat]
  /\ pushed \in [Writers -> Nat]

ReaderTypes ==
  /\ rpc \in [Readers -> ReaderPCs] /\ rmem \in [Readers -> Nat]
  /\ rhead \in [Readers -> Nat] /\ rret \in [Readers -> Cells]

(* The three indices of an array, and the slots between them.              *)
Ordered(m) ==
  /\ mems[m].head <= mems[m].tail_read
  /\ mems[m].tail_read <= mems[m].tail_write
  /\ mems[m].tail_write <= mems[m].head + mems[m].size + 1

(* What a writer has read may be old, but only in one direction.           *)
WriterSees(w) ==
  /\ wpc[w] \notin {"idle", "again"} => wmem[w] \in Mems
  /\ wpc[w] \in {"tail", "cas"} => whead[w] <= mems[wmem[w]].head
  /\ wpc[w] = "cas" =>
       /\ wtail[w] <= mems[wmem[w]].tail_write
       /\ wtail[w] - whead[w] <= mems[wmem[w]].size
  /\ wpc[w] = "link" => wmem[w] + 1 \in Mems
  /\ wpc[w] \in Holding =>
       /\ mems[wmem[w]].tail_read <= wtail[w]
       /\ wtail[w] < mems[wmem[w]].tail_write

(* The same of a reader.                                                   *)
ReaderSees(r) ==
  /\ rpc[r] \notin {"idle", "again"} => rmem[r] \in Mems
  /\ rpc[r] \in {"tail", "load", "cas"} => rhead[r] <= mems[rmem[r]].head
  /\ rpc[r] \in {"load", "cas"} /\ rhead[r] = mems[rmem[r]].head =>
       rhead[r] < mems[rmem[r]].tail_read
  /\ rpc[r] = "swing" => rmem[r] + 1 \in Mems

(* Each slot taken but not published has one writer, and only one.         *)
OneHolder ==
  \A v, w \in Writers :
    /\ wpc[v] \in Holding /\ wpc[w] \in Holding
    /\ wmem[v] = wmem[w] /\ wtail[v] = wtail[w]
    => v = w

SlotsHeld ==
  \A m \in Mems : \A i \in Nat :
    mems[m].tail_read <= i /\ i < mems[m].tail_write =>
      \E w \in Writers : Holds(w, m, i)

SlotInv ==
  /\ MemTypes /\ WriterTypes /\ ReaderTypes
  /\ \A m \in Mems : Ordered(m)
  /\ \A w \in Writers : WriterSees(w)
  /\ \A r \in Readers : ReaderSees(r)
  /\ OneHolder /\ SlotsHeld

-----------------------------------------------------------------------------
(* What a step does to the arrays.                                         *)
Sames(m, n) ==
  /\ mems'[n].size = mems[m].size /\ mems'[n].next = mems[m].next

LEMMA MemFields ==
  ASSUME NEW s \in Seq(MemRecord), NEW m \in DOMAIN s
  PROVE  /\ m \in Nat /\ s[m] \in MemRecord
         /\ s[m].size \in Nat /\ s[m].array \in Arrays /\ s[m].head \in Nat
         /\ s[m].tail_write \in Nat /\ s[m].tail_read \in Nat
         /\ s[m].next \in Nat
<1>1. m \in Nat /\ s[m] \in MemRecord
  BY LenProperties
<1> QED
  BY <1>1 DEF MemRecord

LEMMA Replaced ==
  ASSUME mems \in Seq(MemRecord), NEW m \in Mems, NEW e \in MemRecord,
         mems' = [mems EXCEPT ![m] = e]
  PROVE  /\ mems' \in Seq(MemRecord) /\ Len(mems') = Len(mems) /\ Mems' = Mems
         /\ mems'[m] = e
         /\ \A k \in Mems \ {m} : mems'[k] = mems[k]
BY DEF Mems

(* Indices only grow, and arrays are only added.                           *)
Grows ==
  /\ Mems \subseteq Mems'
  /\ \A m \in Mems :
       /\ mems'[m].size = mems[m].size
       /\ mems[m].head <= mems'[m].head
       /\ mems[m].tail_read <= mems'[m].tail_read
       /\ mems[m].tail_write <= mems'[m].tail_write

LEMMA WriterStill ==
  ASSUME SlotInv, Grows, mems' \in Seq(MemRecord), NEW w \in Writers,
         wpc'[w] = wpc[w], wmem'[w] = wmem[w], whead'[w] = whead[w],
         wtail'[w] = wtail[w],
         wpc[w] \in Holding => mems'[wmem[w]].tail_read <= wtail[w]
  PROVE  WriterSees(w)'
<1>1. CASE wpc[w] \in {"idle", "again"}
  BY <1>1 DEF WriterSees, Holding
<1>2. CASE wpc[w] \notin {"idle", "again"}
  <2>1. WriterSees(w) /\ wmem[w] \in Mems /\ wmem[w] \in Mems'
    BY <1>2 DEF SlotInv, WriterSees, Grows
  <2>2. /\ mems[wmem[w]].head \in Nat /\ mems'[wmem[w]].head \in Nat
        /\ mems[wmem[w]].tail_write \in Nat /\ mems'[wmem[w]].tail_write \in Nat
        /\ whead[w] \in Nat /\ wtail[w] \in Nat
    BY <2>1, MemFields DEF SlotInv, MemTypes, WriterTypes, Mems
  <2>3. /\ mems'[wmem[w]].size = mems[wmem[w]].size
        /\ mems[wmem[w]].head <= mems'[wmem[w]].head
        /\ mems[wmem[w]].tail_read <= mems'[wmem[w]].tail_read
        /\ mems[wmem[w]].tail_write <= mems'[wmem[w]].tail_write
        /\ wmem[w] + 1 \in Mems => wmem[w] + 1 \in Mems'
    BY <2>1 DEF Grows
  <2> QED
    BY <2>1, <2>2, <2>3, SMTT(30) DEF WriterSees, Holding
<1> QED
  BY <1>1, <1>2

LEMMA ReaderStill ==
  ASSUME SlotInv, Grows, mems' \in Seq(MemRecord), NEW r \in Readers,
         rpc'[r] = rpc[r], rmem'[r] = rmem[r], rhead'[r] = rhead[r]
  PROVE  ReaderSees(r)'
<1>1. CASE rpc[r] \in {"idle", "again"}
  BY <1>1 DEF ReaderSees
<1>2. CASE rpc[r] \notin {"idle", "again"}
  <2>1. ReaderSees(r) /\ rmem[r] \in Mems /\ rmem[r] \in Mems'
    BY <1>2 DEF SlotInv, ReaderSees, Grows
  <2>2. /\ mems[rmem[r]].head \in Nat /\ mems'[rmem[r]].head \in Nat
        /\ mems[rmem[r]].tail_read \in Nat /\ mems'[rmem[r]].tail_read \in Nat
        /\ rhead[r] \in Nat
    BY <2>1, MemFields DEF SlotInv, MemTypes, ReaderTypes, Mems
  <2>3. /\ mems'[rmem[r]].size = mems[rmem[r]].size
        /\ mems[rmem[r]].head <= mems'[rmem[r]].head
        /\ mems[rmem[r]].tail_read <= mems'[rmem[r]].tail_read
        /\ mems[rmem[r]].tail_write <= mems'[rmem[r]].tail_write
        /\ rmem[r] + 1 \in Mems => rmem[r] + 1 \in Mems'
    BY <2>1 DEF Grows
  <2> QED
    BY <2>1, <2>2, <2>3 DEF ReaderSees, Holding
<1> QED
  BY <1>1, <1>2

-----------------------------------------------------------------------------
Others(w) ==
  \A v \in Writers \ {w} : /\ wpc'[v] = wpc[v] /\ wmem'[v] = wmem[v]
                           /\ whead'[v] = whead[v] /\ wtail'[v] = wtail[v]

ReadersStay == UNCHANGED <<rpc, rmem, rhead, rret>>

(* A writer that leaves the arrays alone.                                  *)
LEMMA WriterMoves ==
  ASSUME SlotInv, NEW w \in Writers, WriterTypes', Others(w), ReadersStay,
         UNCHANGED <<mems, headMem, tailMem>>,
         wpc[w] \notin Holding, wpc'[w] \notin Holding, WriterSees(w)'
  PROVE  SlotInv'
<1> USE DEF SlotInv
<1>1. Grows /\ mems' \in Seq(MemRecord)
  <2>1. \A m \in Mems : mems[m].head \in Nat /\ mems[m].tail_read \in Nat
                        /\ mems[m].tail_write \in Nat
    BY MemFields DEF MemTypes, Mems
  <2> QED
    BY <2>1 DEF MemTypes, Grows, Mems
<1>2. MemTypes' /\ ReaderTypes' /\ \A m \in Mems' : Ordered(m)'
  BY DEF MemTypes, ReaderTypes, Ordered, Mems, ReadersStay
<1>3. \A v \in Writers : WriterSees(v)'
  <2>1. ASSUME NEW v \in Writers, v # w PROVE WriterSees(v)'
    BY <1>1, <2>1, WriterStill DEF Others, WriterSees, Holding
  <2> QED
    BY <2>1
<1>4. \A r \in Readers : ReaderSees(r)'
  BY <1>1, ReaderStill DEF ReadersStay
<1>5. OneHolder'
  BY DEF OneHolder, Others
<1>6. SlotsHeld'
  BY DEF SlotsHeld, Holds, Others, Mems
<1> QED
  BY <1>2, <1>3, <1>4, <1>5, <1>6

(* A reader that leaves the arrays alone.                                  *)
LEMMA ReaderMoves ==
  ASSUME SlotInv, NEW r \in Readers, ReaderTypes', headMem' \in Mems,
         \A s \in Readers \ {r} : /\ rpc'[s] = rpc[s] /\ rmem'[s] = rmem[s]
                                  /\ rhead'[s] = rhead[s],
         UNCHANGED <<mems, tailMem, writerVars>>,
         ReaderSees(r)'
  PROVE  SlotInv'
<1> USE DEF SlotInv
<1>1. Grows /\ mems' \in Seq(MemRecord)
  <2>1. \A m \in Mems : mems[m].head \in Nat /\ mems[m].tail_read \in Nat
                        /\ mems[m].tail_write \in Nat
    BY MemFields DEF MemTypes, Mems
  <2> QED
    BY <2>1 DEF MemTypes, Grows, Mems
<1>2. MemTypes' /\ WriterTypes' /\ \A m \in Mems' : Ordered(m)'
  BY DEF MemTypes, WriterTypes, Ordered, Mems, writerVars
<1>3. \A v \in Writers : WriterSees(v)'
  BY DEF WriterSees, writerVars, Mems
<1>4. \A s \in Readers : ReaderSees(s)'
  BY <1>1, ReaderStill
<1>5. OneHolder' /\ SlotsHeld'
  BY DEF OneHolder, SlotsHeld, Holds, writerVars, Mems
<1> QED
  BY <1>2, <1>3, <1>4, <1>5

-----------------------------------------------------------------------------
LEMMA WriterDone ==
  ASSUME WriterTypes, NEW w \in Writers, NEW pc \in WriterPCs, WDone(w, pc),
         pushed' \in [Writers -> Nat]
  PROVE  WriterTypes' /\ Others(w) /\ wpc'[w] = pc
BY DEF WriterTypes, WDone, WGoto, Others

LEMMA PushReadMemSlot ==
  ASSUME SlotInv, NEW w \in Writers, PushReadMem(w)
  PROVE  SlotInv'
<1>1. /\ wpc[w] \in {"idle", "again"} /\ wmem' = [wmem EXCEPT ![w] = tailMem]
      /\ wpc' = [wpc EXCEPT ![w] = "head"]
      /\ UNCHANGED <<mems, headMem, tailMem, whead, wtail>> /\ ReadersStay
  BY DEF PushReadMem, WGoto, memVars, readerVars, ReadersStay
<1>2. tailMem \in Mems /\ tailMem \in Nat
  BY LenProperties DEF SlotInv, MemTypes, Mems
<1>3. pushed' \in [Writers -> Nat]
  BY DEF PushReadMem, SlotInv, WriterTypes
<1>4. WriterTypes' /\ Others(w)
  BY <1>1, <1>2, <1>3 DEF SlotInv, WriterTypes, WriterPCs, Others
<1>5. wpc'[w] = "head" /\ wmem'[w] = tailMem
  BY <1>1 DEF SlotInv, WriterTypes
<1>6. WriterSees(w)'
  BY <1>1, <1>2, <1>5 DEF WriterSees, Holding, Mems
<1> QED
  BY <1>1, <1>4, <1>5, <1>6, WriterMoves DEF Holding

LEMMA PushReadHeadSlot ==
  ASSUME SlotInv, NEW w \in Writers, PushReadHead(w)
  PROVE  SlotInv'
<1>1. /\ wpc[w] = "head" /\ whead' = [whead EXCEPT ![w] = mems[wmem[w]].head]
      /\ wpc' = [wpc EXCEPT ![w] = "tail"]
      /\ UNCHANGED <<mems, headMem, tailMem, wmem, wtail, pushed>> /\ ReadersStay
  BY DEF PushReadHead, WGoto, memVars, readerVars, ReadersStay
<1>2. wmem[w] \in Mems
  BY <1>1 DEF SlotInv, WriterSees
<1>3. mems[wmem[w]].head \in Nat
  BY <1>2, MemFields DEF SlotInv, MemTypes, Mems
<1>4. WriterTypes' /\ Others(w)
  BY <1>1, <1>3 DEF SlotInv, WriterTypes, WriterPCs, Others
<1>5. wpc'[w] = "tail" /\ whead'[w] = mems[wmem[w]].head
  BY <1>1 DEF SlotInv, WriterTypes
<1>6. WriterSees(w)'
  BY <1>1, <1>2, <1>3, <1>5 DEF WriterSees, Holding, Mems
<1> QED
  BY <1>1, <1>4, <1>5, <1>6, WriterMoves DEF Holding

LEMMA PushReadTailSlot ==
  ASSUME SlotInv, NEW w \in Writers, PushReadTail(w)
  PROVE  SlotInv'
<1> DEFINE tail == mems[wmem[w]].tail_write
           pc == IF NotFull(wmem[w], whead[w], tail) THEN "cas" ELSE "grow"
<1>1. /\ wpc[w] = "tail" /\ wtail' = [wtail EXCEPT ![w] = tail]
      /\ wpc' = [wpc EXCEPT ![w] = pc]
      /\ UNCHANGED <<mems, headMem, tailMem, wmem, whead, pushed>> /\ ReadersStay
  BY DEF PushReadTail, WGoto, memVars, readerVars, ReadersStay
<1>2. wmem[w] \in Mems /\ whead[w] <= mems[wmem[w]].head
  BY <1>1 DEF SlotInv, WriterSees
<1>3. tail \in Nat
  BY <1>2, MemFields DEF SlotInv, MemTypes, Mems
<1>4. pc \in {"cas", "grow"} /\ (pc = "cas" => tail - whead[w] <= mems[wmem[w]].size)
  BY DEF NotFull
<1> HIDE DEF pc, tail
<1>5. WriterTypes' /\ Others(w)
  BY <1>1, <1>3, <1>4 DEF SlotInv, WriterTypes, WriterPCs, Others
<1>6. wpc'[w] = pc /\ wtail'[w] = tail
  BY <1>1 DEF SlotInv, WriterTypes
<1>7. tail <= mems[wmem[w]].tail_write
  BY <1>3 DEF tail
<1>8. WriterSees(w)'
  BY <1>1, <1>2, <1>4, <1>6, <1>7 DEF WriterSees, Holding, Mems
<1> QED
  BY <1>1, <1>4, <1>5, <1>6, <1>8, WriterMoves DEF Holding

(* A writer that has lost a race starts again.                             *)
LEMMA Again ==
  ASSUME SlotInv, NEW w \in Writers, WDone(w, "again"), ReadersStay,
         UNCHANGED <<mems, headMem, tailMem, pushed>>, wpc[w] \notin Holding
  PROVE  SlotInv'
<1>1. WriterTypes' /\ Others(w) /\ wpc'[w] = "again"
  BY WriterDone DEF SlotInv, WriterPCs, WriterTypes
<1>2. WriterSees(w)'
  BY <1>1 DEF WriterSees, Holding
<1> QED
  BY <1>1, <1>2, WriterMoves DEF Holding

-----------------------------------------------------------------------------
(* A writer that changes the array it works on.                            *)
LEMMA WriterUpdates ==
  ASSUME SlotInv, NEW w \in Writers, NEW m \in Mems, NEW e \in MemRecord,
         mems' = [mems EXCEPT ![m] = e], UNCHANGED <<headMem, tailMem>>,
         ReadersStay, WriterTypes', Others(w),
         e.size = mems[m].size, e.head = mems[m].head,
         e.array \in [0 .. e.size -> Cells], e.next # 0 => m + 1 \in Mems,
         mems[m].tail_read <= e.tail_read, mems[m].tail_write <= e.tail_write,
         e.tail_read <= e.tail_write, e.tail_write <= e.head + e.size + 1,
         \A v \in Writers \ {w} : wpc[v] \in Holding /\ wmem[v] = m =>
                                    e.tail_read <= wtail[v],
         WriterSees(w)', OneHolder', SlotsHeld'
  PROVE  SlotInv'
<1> USE DEF SlotInv
<1>1. /\ mems' \in Seq(MemRecord) /\ Len(mems') = Len(mems) /\ Mems' = Mems
      /\ mems'[m] = e /\ \A k \in Mems \ {m} : mems'[k] = mems[k]
  BY Replaced DEF MemTypes
<1>2. \A k \in Mems : mems[k].head \in Nat /\ mems[k].tail_read \in Nat
                      /\ mems[k].tail_write \in Nat /\ mems[k].size \in Nat
  BY MemFields DEF MemTypes, Mems
<1>3. e.head \in Nat /\ e.tail_read \in Nat /\ e.tail_write \in Nat
  BY DEF MemRecord
<1>4. Grows
  BY <1>1, <1>2, <1>3, SMTT(30) DEF Grows
<1>5. MemTypes'
  BY <1>1 DEF MemTypes
<1>6. \A k \in Mems' : Ordered(k)'
  <2>1. Ordered(m)'
    BY <1>1, <1>2, <1>3 DEF Ordered
  <2>2. ASSUME NEW k \in Mems, k # m PROVE Ordered(k)'
    BY <1>1, <2>2 DEF Ordered
  <2> QED
    BY <1>1, <2>1, <2>2
<1>7. \A v \in Writers : WriterSees(v)'
  <2>1. ASSUME NEW v \in Writers, v # w PROVE WriterSees(v)'
    <3>1. wpc[v] \in Holding => mems'[wmem[v]].tail_read <= wtail[v]
      <4>1. CASE wmem[v] = m
        BY <1>1, <2>1, <4>1
      <4>2. CASE wmem[v] # m
        BY <1>1, <2>1, <4>2 DEF WriterSees, Holding
      <4> QED
        BY <4>1, <4>2
    <3> QED
      BY <1>1, <1>4, <2>1, <3>1, WriterStill DEF Others
  <2> QED
    BY <2>1
<1>8. ReaderTypes' /\ \A r \in Readers : ReaderSees(r)'
  BY <1>1, <1>4, ReaderStill DEF ReadersStay, ReaderTypes
<1> QED
  BY <1>5, <1>6, <1>7, <1>8

(* Where a writer is that has read the array it works on.                  *)
LEMMA WriterAt ==
  ASSUME SlotInv, NEW w \in Writers, wpc[w] \notin {"idle", "again"}
  PROVE  /\ wmem[w] \in Mems /\ wtail[w] \in Nat /\ whead[w] \in Nat
         /\ mems[wmem[w]] \in MemRecord /\ Ordered(wmem[w])
         /\ mems[wmem[w]].size \in Nat /\ mems[wmem[w]].head \in Nat
         /\ mems[wmem[w]].tail_write \in Nat /\ mems[wmem[w]].tail_read \in Nat
         /\ mems[wmem[w]].array \in [0 .. mems[wmem[w]].size -> Cells]
         /\ mems[wmem[w]].next # 0 => wmem[w] + 1 \in Mems
         /\ wmem[w] \in Nat
BY MemFields DEF SlotInv, MemTypes, WriterSees, WriterTypes, Mems

LEMMA PushLinkSlot ==
  ASSUME SlotInv, NEW w \in Writers, PushLink(w)
  PROVE  SlotInv'
<1> DEFINE m == wmem[w]
           e == [mems[m] EXCEPT !.next = m + 1]
<1>1. wpc[w] = "link" /\ WDone(w, "again") /\ mems' = [mems EXCEPT ![m] = e]
      /\ UNCHANGED <<headMem, tailMem, pushed>> /\ ReadersStay
  BY DEF PushLink, readerVars, ReadersStay
<1>2. m \in Mems /\ mems[m] \in MemRecord /\ m + 1 \in Mems /\ m \in Nat
  BY <1>1, WriterAt DEF SlotInv, WriterSees
<1>3. /\ e \in MemRecord /\ e.size = mems[m].size /\ e.head = mems[m].head
      /\ e.array = mems[m].array /\ e.tail_read = mems[m].tail_read
      /\ e.tail_write = mems[m].tail_write
  BY <1>2 DEF MemRecord
<1>4. /\ mems[m].tail_read \in Nat /\ mems[m].tail_write \in Nat
      /\ mems[m].array \in [0 .. mems[m].size -> Cells] /\ Ordered(m)
  BY <1>1, WriterAt
<1> HIDE DEF e
<1>5. WriterTypes' /\ Others(w) /\ wpc'[w] = "again"
  BY <1>1, WriterDone DEF SlotInv, WriterPCs, WriterTypes
<1>6. /\ Mems' = Mems
      /\ \A k \in Mems : mems'[k].tail_read = mems[k].tail_read
                         /\ mems'[k].tail_write = mems[k].tail_write
  <2>1. Mems' = Mems /\ mems'[m] = e /\ \A k \in Mems \ {m} : mems'[k] = mems[k]
    BY <1>1, <1>2, <1>3, Replaced DEF SlotInv, MemTypes
  <2> QED
    BY <1>2, <1>3, <2>1
<1>7. WriterSees(w)'
  BY <1>5 DEF WriterSees, Holding
<1>8. OneHolder'
  BY <1>1, <1>5 DEF SlotInv, OneHolder, Others, Holding
<1>9. SlotsHeld'
  BY <1>1, <1>5, <1>6 DEF SlotInv, SlotsHeld, Holds, Others, Holding
<1>10. \A v \in Writers \ {w} : wpc[v] \in Holding /\ wmem[v] = m =>
                                   e.tail_read <= wtail[v]
  BY <1>3 DEF SlotInv, WriterSees, Holding
<1>11. /\ mems[m].tail_write <= e.tail_write /\ e.tail_read <= e.tail_write
       /\ mems[m].tail_read <= e.tail_read
       /\ e.tail_write <= e.head + e.size + 1
       /\ e.array \in [0 .. e.size -> Cells] /\ (e.next # 0 => m + 1 \in Mems)
  BY <1>2, <1>3, <1>4 DEF Ordered
<1> QED
  BY <1>1, <1>2, <1>3, <1>5, <1>7, <1>8, <1>9, <1>10, <1>11, WriterUpdates

LEMMA PushTakeSlotSlot ==
  ASSUME SlotInv, NEW w \in Writers, PushTakeSlot(w)
  PROVE  SlotInv'
<1> DEFINE m == wmem[w]
           t == wtail[w]
           e == [mems[m] EXCEPT !.tail_write = @ + 1]
<1>0. CASE mems[m].tail_write # t
  BY <1>0, Again DEF PushTakeSlot, readerVars, ReadersStay, Holding
<1>1. CASE mems[m].tail_write = t
  <2>1. /\ wpc[w] = "cas" /\ mems[m].tail_write = t
        /\ mems' = [mems EXCEPT ![m] = e]
        /\ wpc' = [wpc EXCEPT ![w] = "store"]
        /\ UNCHANGED <<headMem, tailMem, wmem, whead, wtail, pushed>>
        /\ ReadersStay
    BY <1>1 DEF PushTakeSlot, WGoto, readerVars, ReadersStay
  <2>2. /\ m \in Mems /\ mems[m] \in MemRecord /\ Ordered(m) /\ t \in Nat
        /\ mems[m].size \in Nat /\ mems[m].head \in Nat /\ whead[w] \in Nat
        /\ mems[m].tail_write \in Nat /\ mems[m].tail_read \in Nat
        /\ mems[m].array \in [0 .. mems[m].size -> Cells]
        /\ mems[m].next # 0 => m + 1 \in Mems
    BY <2>1, WriterAt
  <2>3. /\ e \in MemRecord /\ e.size = mems[m].size /\ e.head = mems[m].head
        /\ e.array = mems[m].array /\ e.tail_read = mems[m].tail_read
        /\ e.tail_write = t + 1 /\ e.next = mems[m].next
    BY <2>1, <2>2, SMTT(30) DEF MemRecord
  <2> HIDE DEF e
  <2>4. whead[w] <= mems[m].head /\ t - whead[w] <= mems[m].size
    BY <2>1 DEF SlotInv, WriterSees
  <2>5. t + 1 <= mems[m].head + mems[m].size + 1
    BY <2>2, <2>4, SMTT(30)
  <2>6. /\ Mems' = Mems /\ mems'[m] = e
        /\ \A k \in Mems \ {m} : mems'[k] = mems[k]
    BY <2>1, <2>2, <2>3, Replaced DEF SlotInv, MemTypes
  <2>7. WriterTypes' /\ Others(w) /\ wpc'[w] = "store"
    BY <2>1 DEF SlotInv, WriterTypes, WriterPCs, Others
  <2>8. mems[m].tail_read <= t
    BY <2>1, <2>2 DEF Ordered
  <2>9. WriterSees(w)'
    BY <2>1, <2>2, <2>3, <2>6, <2>7, <2>8 DEF WriterSees, Holding
  <2>10. \A v \in Writers \ {w} : wpc[v] \in Holding /\ wmem[v] = m =>
                                    mems[m].tail_read <= wtail[v] /\ wtail[v] # t
    BY <2>1, <2>2 DEF SlotInv, WriterSees, WriterTypes
  <2>11. OneHolder'
    <3> SUFFICES ASSUME NEW u \in Writers, NEW v \in Writers,
                        wpc'[u] \in Holding, wpc'[v] \in Holding,
                        wmem'[u] = wmem'[v], wtail'[u] = wtail'[v], u # v
                 PROVE  FALSE
      BY DEF OneHolder
    <3>1. u # w => wpc[u] \in Holding
      BY <2>7 DEF Others
    <3>2. v # w => wpc[v] \in Holding
      BY <2>7 DEF Others
    <3> QED
      BY <2>1, <2>10, <3>1, <3>2 DEF SlotInv, OneHolder
  <2>12. SlotsHeld'
    <3> SUFFICES ASSUME NEW k \in Mems, NEW i \in Nat,
                        mems'[k].tail_read <= i, i < mems'[k].tail_write
                 PROVE  \E v \in Writers : Holds(v, k, i)'
      BY <2>6 DEF SlotsHeld
    <3>1. CASE k = m /\ i = t
      BY <2>1, <2>7, <3>1 DEF Holds, Holding
    <3>2. CASE ~(k = m /\ i = t)
      <4>1. mems[k].tail_read <= i /\ i < mems[k].tail_write
        BY <2>1, <2>2, <2>3, <2>6, <3>2
      <4>2. PICK v \in Writers : Holds(v, k, i)
        BY <4>1 DEF SlotInv, SlotsHeld
      <4>3. v # w
        BY <2>1, <4>2 DEF Holds, Holding
      <4> QED
        BY <2>7, <4>2, <4>3 DEF Holds, Others
    <3> QED
      BY <3>1, <3>2
  <2>13. /\ mems[m].tail_write <= e.tail_write /\ e.tail_read <= e.tail_write
         /\ mems[m].tail_read <= e.tail_read
         /\ e.tail_write <= e.head + e.size + 1
         /\ e.array \in [0 .. e.size -> Cells] /\ (e.next # 0 => m + 1 \in Mems)
    BY <2>1, <2>2, <2>3, <2>5, <2>8
  <2>14. \A v \in Writers \ {w} : wpc[v] \in Holding /\ wmem[v] = m =>
                                    e.tail_read <= wtail[v]
    BY <2>3, <2>10
  <2> QED
    BY <2>1, <2>2, <2>3, <2>7, <2>9, <2>11, <2>12, <2>13, <2>14, WriterUpdates
<1> QED
  BY <1>0, <1>1

(* What a store and a publication change in the arrays.                    *)
KeepsOthers(m) ==
  /\ Mems' = Mems /\ mems' \in Seq(MemRecord)
  /\ \A k \in Mems \ {m} : mems'[k] = mems[k]
  /\ mems'[m].size = mems[m].size /\ mems'[m].tail_write = mems[m].tail_write

LEMMA PushStoreSlot ==
  ASSUME SlotInv, NEW w \in Writers, PushStore(w)
  PROVE  /\ SlotInv' /\ KeepsOthers(wmem[w]) /\ Others(w) /\ ReadersStay
         /\ wpc[w] = "store" /\ wpc'[w] = "publish"
         /\ UNCHANGED <<wmem, wtail, pushed, popped>>
         /\ mems'[wmem[w]].head = mems[wmem[w]].head
         /\ mems'[wmem[w]].tail_read = mems[wmem[w]].tail_read
         /\ mems'[wmem[w]].array =
              [mems[wmem[w]].array EXCEPT ![Slot(wmem[w], wtail[w])] = <<w, pushed[w]>>]
<1> DEFINE m == wmem[w]
           a == [mems[m].array EXCEPT ![Slot(m, wtail[w])] = <<w, pushed[w]>>]
           e == [mems[m] EXCEPT !.array = a]
<1>1. /\ wpc[w] = "store" /\ mems' = [mems EXCEPT ![m] = e]
      /\ wpc' = [wpc EXCEPT ![w] = "publish"]
      /\ UNCHANGED <<headMem, tailMem, wmem, whead, wtail, pushed, popped>>
      /\ ReadersStay
  BY DEF PushStore, WGoto, readerVars, ReadersStay
<1>2. /\ m \in Mems /\ mems[m] \in MemRecord /\ Ordered(m)
      /\ mems[m].size \in Nat /\ mems[m].head \in Nat
      /\ mems[m].tail_write \in Nat /\ mems[m].tail_read \in Nat
      /\ mems[m].array \in [0 .. mems[m].size -> Cells]
      /\ mems[m].next # 0 => m + 1 \in Mems
  BY <1>1, WriterAt
<1>3. <<w, pushed[w]>> \in Cells
  BY DEF SlotInv, WriterTypes, Cells, Items
<1>4. a \in [0 .. mems[m].size -> Cells] /\ a \in Arrays
  BY <1>2, <1>3 DEF Arrays
<1> HIDE DEF a
<1>5. /\ e \in MemRecord /\ e.size = mems[m].size /\ e.head = mems[m].head
      /\ e.array = a /\ e.tail_read = mems[m].tail_read
      /\ e.tail_write = mems[m].tail_write /\ e.next = mems[m].next
  BY <1>2, <1>4 DEF MemRecord
<1> HIDE DEF e
<1>6. /\ Mems' = Mems /\ mems'[m] = e /\ mems' \in Seq(MemRecord)
      /\ \A k \in Mems \ {m} : mems'[k] = mems[k]
  BY <1>1, <1>2, <1>5, Replaced DEF SlotInv, MemTypes
<1>7. \A k \in Mems : mems'[k].tail_read = mems[k].tail_read
                      /\ mems'[k].tail_write = mems[k].tail_write
  BY <1>2, <1>5, <1>6
<1>8. WriterTypes' /\ Others(w) /\ wpc'[w] = "publish"
  BY <1>1 DEF SlotInv, WriterTypes, WriterPCs, Others
<1>9. \A v \in Writers : wpc'[v] \in Holding <=> wpc[v] \in Holding
  BY <1>1, <1>8 DEF Others, Holding
<1>10. WriterSees(w)'
  BY <1>1, <1>2, <1>6, <1>7, <1>8 DEF SlotInv, WriterSees, Holding
<1>11. OneHolder' /\ SlotsHeld'
  BY <1>1, <1>6, <1>7, <1>9 DEF SlotInv, OneHolder, SlotsHeld, Holds
<1>12. \A v \in Writers \ {w} : wpc[v] \in Holding /\ wmem[v] = m =>
                                  e.tail_read <= wtail[v]
  BY <1>5 DEF SlotInv, WriterSees, Holding
<1>13. /\ mems[m].tail_write <= e.tail_write /\ e.tail_read <= e.tail_write
       /\ mems[m].tail_read <= e.tail_read
       /\ e.tail_write <= e.head + e.size + 1
       /\ e.array \in [0 .. e.size -> Cells] /\ (e.next # 0 => m + 1 \in Mems)
  BY <1>2, <1>4, <1>5 DEF Ordered
<1>14. SlotInv'
  BY <1>1, <1>2, <1>5, <1>8, <1>10, <1>11, <1>12, <1>13, WriterUpdates
<1>15. KeepsOthers(m)
  BY <1>5, <1>6 DEF KeepsOthers
<1> QED
  BY <1>1, <1>5, <1>6, <1>8, <1>14, <1>15 DEF a

LEMMA PushPublishSlot ==
  ASSUME SlotInv, NEW w \in Writers, PushPublish(w)
  PROVE  /\ SlotInv' /\ KeepsOthers(wmem[w]) /\ Others(w) /\ ReadersStay
         /\ wpc[w] = "publish" /\ wpc'[w] = "idle"
         /\ UNCHANGED <<pushed, popped>>
         /\ mems[wmem[w]].tail_read = wtail[w]
         /\ mems'[wmem[w]].head = mems[wmem[w]].head
         /\ mems'[wmem[w]].tail_read = mems[wmem[w]].tail_read + 1
         /\ mems'[wmem[w]].array = mems[wmem[w]].array
<1> DEFINE m == wmem[w]
           t == wtail[w]
           e == [mems[m] EXCEPT !.tail_read = @ + 1]
<1>1. /\ wpc[w] = "publish" /\ mems[m].tail_read = t
      /\ mems' = [mems EXCEPT ![m] = e] /\ WDone(w, "idle")
      /\ UNCHANGED <<headMem, tailMem, pushed, popped>>
      /\ ReadersStay
  BY DEF PushPublish, readerVars, ReadersStay
<1>2. /\ m \in Mems /\ mems[m] \in MemRecord /\ Ordered(m) /\ t \in Nat
      /\ mems[m].size \in Nat /\ mems[m].head \in Nat
      /\ mems[m].tail_write \in Nat /\ mems[m].tail_read \in Nat
      /\ mems[m].array \in [0 .. mems[m].size -> Cells]
      /\ mems[m].next # 0 => m + 1 \in Mems
  BY <1>1, WriterAt
<1>3. /\ e \in MemRecord /\ e.size = mems[m].size /\ e.head = mems[m].head
      /\ e.array = mems[m].array /\ e.tail_read = t + 1
      /\ e.tail_write = mems[m].tail_write /\ e.next = mems[m].next
  <2>1. mems[m].tail_read + 1 \in Nat
    BY <1>2
  <2>2. /\ e \in MemRecord /\ e.size = mems[m].size /\ e.head = mems[m].head
        /\ e.array = mems[m].array /\ e.tail_read = mems[m].tail_read + 1
        /\ e.tail_write = mems[m].tail_write /\ e.next = mems[m].next
    BY <1>2, <2>1 DEF MemRecord
  <2> QED
    BY <1>1, <2>2
<1> HIDE DEF e
<1>4. /\ Mems' = Mems /\ mems'[m] = e /\ mems' \in Seq(MemRecord)
      /\ \A k \in Mems \ {m} : mems'[k] = mems[k]
  BY <1>1, <1>2, <1>3, Replaced DEF SlotInv, MemTypes
<1>5. WriterTypes' /\ Others(w) /\ wpc'[w] = "idle"
  BY <1>1, WriterDone DEF SlotInv, WriterPCs, WriterTypes
<1>6. WriterSees(w)'
  BY <1>5 DEF WriterSees, Holding
<1>7. t < mems[m].tail_write
  BY <1>1 DEF SlotInv, WriterSees, Holding
<1>8. \A v \in Writers \ {w} : wpc[v] \in Holding /\ wmem[v] = m =>
                                 e.tail_read <= wtail[v]
  <2> SUFFICES ASSUME NEW v \in Writers, v # w, wpc[v] \in Holding, wmem[v] = m
               PROVE  e.tail_read <= wtail[v]
    OBVIOUS
  <2>1. t <= wtail[v] /\ wtail[v] \in Nat
    BY <1>1 DEF SlotInv, WriterSees, WriterTypes
  <2>2. t # wtail[v]
    BY <1>1 DEF SlotInv, OneHolder, Holding
  <2> QED
    BY <1>2, <1>3, <2>1, <2>2
<1>9. OneHolder'
  BY <1>5 DEF SlotInv, OneHolder, Others, Holding
<1>10. SlotsHeld'
  <2> SUFFICES ASSUME NEW k \in Mems, NEW i \in Nat,
                      mems'[k].tail_read <= i, i < mems'[k].tail_write
               PROVE  \E v \in Writers : Holds(v, k, i)'
    BY <1>4 DEF SlotsHeld
  <2>1. mems[k].tail_read <= i /\ i < mems[k].tail_write /\ ~(k = m /\ i = t)
    BY <1>1, <1>2, <1>3, <1>4
  <2>2. PICK v \in Writers : Holds(v, k, i)
    BY <2>1 DEF SlotInv, SlotsHeld
  <2>3. v # w
    BY <2>1, <2>2 DEF Holds
  <2> QED
    BY <1>5, <2>2, <2>3 DEF Holds, Others
<1>11. /\ mems[m].tail_write <= e.tail_write /\ e.tail_read <= e.tail_write
       /\ mems[m].tail_read <= e.tail_read
       /\ e.tail_write <= e.head + e.size + 1
       /\ e.array \in [0 .. e.size -> Cells] /\ (e.next # 0 => m + 1 \in Mems)
  BY <1>1, <1>2, <1>3, <1>7 DEF Ordered
<1>12. SlotInv'
  BY <1>1, <1>2, <1>3, <1>5, <1>6, <1>8, <1>9, <1>10, <1>11, WriterUpdates
<1>13. KeepsOthers(m)
  BY <1>3, <1>4 DEF KeepsOthers
<1> QED
  BY <1>1, <1>3, <1>4, <1>5, <1>12, <1>13

-----------------------------------------------------------------------------
LEMMA NewMemFields ==
  ASSUME NEW n \in Nat \ {0}, NEW pos \in Nat
  PROVE  LET e == NewMem(n, pos) IN
           /\ e \in MemRecord /\ e.array \in [0 .. e.size -> Cells] /\ e.next = 0
           /\ e.size \in Nat
           /\ e.head = pos /\ e.tail_read = pos /\ e.tail_write = pos
<1> DEFINE a == [i \in 0 .. n - 1 |-> None]
           e == NewMem(n, pos)
<1>1. n - 1 \in Nat
  OBVIOUS
<1>2. a \in [0 .. n - 1 -> Cells] /\ a \in Arrays
  BY <1>1 DEF Cells, Arrays
<1> HIDE DEF a
<1>3. e = [size |-> n - 1, array |-> a, head |-> pos, tail_write |-> pos,
           tail_read |-> pos, next |-> 0]
  BY DEF NewMem, a
<1> HIDE DEF e
<1> QED
  BY <1>1, <1>2, <1>3 DEF MemRecord, e

(* The new array is behind the others, and nothing is in it.               *)
Appends(e) ==
  /\ mems' \in Seq(MemRecord)
  /\ Mems' = Mems \cup {Len(mems) + 1} /\ Len(mems) + 1 \notin Mems
  /\ \A k \in Mems : mems'[k] = mems[k]
  /\ mems'[Len(mems) + 1] = e

LEMMA Appended ==
  ASSUME mems \in Seq(MemRecord), NEW e \in MemRecord, mems' = Append(mems, e)
  PROVE  Appends(e) /\ Len(mems') = Len(mems) + 1 /\ Len(mems) \in Nat
<1>1. Len(mems) \in Nat /\ Mems = 1 .. Len(mems)
  BY LenProperties DEF Mems
<1>2. /\ mems' \in Seq(MemRecord) /\ Len(mems') = Len(mems) + 1
      /\ \A k \in 1 .. Len(mems) : mems'[k] = mems[k]
      /\ mems'[Len(mems) + 1] = e
  BY AppendProperties
<1>3. Mems' = 1 .. Len(mems) + 1
  BY <1>2, LenProperties DEF Mems
<1> QED
  BY <1>1, <1>2, <1>3 DEF Appends

LEMMA PushGrowSlot ==
  ASSUME SlotInv, NEW w \in Writers, PushGrow(w)
  PROVE  /\ SlotInv' /\ Others(w) /\ wpc[w] = "grow" /\ wpc'[w] \in {"again", "link"}
         /\ UNCHANGED <<pushed, popped>> /\ ReadersStay
         /\ \/ UNCHANGED mems
            \/ \E e \in MemRecord : Appends(e) /\ e.head = e.tail_read
<1> USE DEF SlotInv
<1> DEFINE m == wmem[w]
           e == NewMem(2 * (mems[m].size + 1), wtail[w])
<1>0. wpc[w] = "grow" /\ UNCHANGED <<headMem, pushed, popped>> /\ ReadersStay
  BY DEF PushGrow, readerVars, ReadersStay
<1>1. CASE tailMem # m
  <2>1. WDone(w, "again") /\ UNCHANGED <<mems, tailMem>>
    BY <1>1 DEF PushGrow
  <2>2. SlotInv'
    BY <1>0, <2>1, Again DEF Holding
  <2>3. Others(w) /\ wpc'[w] = "again"
    BY <1>0, <2>1, WriterDone DEF WriterPCs, WriterTypes
  <2> QED
    BY <1>0, <2>1, <2>2, <2>3
<1>2. CASE tailMem = m
  <2>1. /\ mems' = Append(mems, e) /\ tailMem' = tailMem + 1
        /\ wpc' = [wpc EXCEPT ![w] = "link"] /\ UNCHANGED <<wmem, whead, wtail>>
    BY <1>2 DEF PushGrow, WGoto
  <2>2. m \in Mems /\ mems[m].size \in Nat /\ wtail[w] \in Nat
    BY <1>0, WriterAt
  <2>3. 2 * (mems[m].size + 1) \in Nat \ {0}
    BY <2>2
  <2>4. /\ e \in MemRecord /\ e.array \in [0 .. e.size -> Cells] /\ e.next = 0
        /\ e.size \in Nat
        /\ e.head = wtail[w] /\ e.tail_read = wtail[w] /\ e.tail_write = wtail[w]
    BY <2>2, <2>3, NewMemFields
  <2> HIDE DEF e
  <2>5. /\ Appends(e) /\ Len(mems') = Len(mems) + 1 /\ Len(mems) \in Nat
    BY <2>1, <2>4, Appended DEF MemTypes
  <2>6. Mems = 1 .. Len(mems)
    BY LenProperties DEF MemTypes, Mems
  <2>7. MemTypes'
    BY <1>0, <2>1, <2>4, <2>5, <2>6 DEF MemTypes, Appends
  <2>8. \A k \in Mems : mems[k].head \in Nat /\ mems[k].tail_read \in Nat
                        /\ mems[k].tail_write \in Nat
    BY MemFields DEF MemTypes, Mems
  <2>9. Grows
    BY <2>5, <2>8 DEF Grows, Appends
  <2>10. \A k \in Mems' : Ordered(k)'
    <3> SUFFICES ASSUME NEW k \in Mems' PROVE Ordered(k)'
      OBVIOUS
    <3>1. CASE k = Len(mems) + 1
      <4>1. wtail[w] <= wtail[w] /\ wtail[w] <= wtail[w] + e.size + 1
        BY <2>2, <2>4
      <4>2. mems'[k] = e
        BY <2>5, <3>1 DEF Appends
      <4> QED
        BY <2>4, <4>1, <4>2 DEF Ordered
    <3>2. CASE k \in Mems
      BY <2>5, <3>2 DEF Ordered, Appends
    <3> QED
      BY <2>5, <3>1, <3>2 DEF Appends
  <2>11. WriterTypes' /\ Others(w) /\ wpc'[w] = "link"
    BY <2>1, <1>0 DEF WriterTypes, WriterPCs, Others
  <2>12. \A v \in Writers : wpc'[v] \in Holding <=> wpc[v] \in Holding
    BY <1>0, <2>11 DEF Others, Holding
  <2>13. \A v \in Writers : WriterSees(v)'
    <3>1. ASSUME NEW v \in Writers, v # w PROVE WriterSees(v)'
      <4>1. wpc[v] \in Holding => mems'[wmem[v]].tail_read <= wtail[v]
        BY <2>5 DEF WriterSees, Holding, Appends
      <4> QED
        BY <2>5, <2>9, <2>11, <3>1, <4>1, WriterStill DEF Others, Appends
    <3>2. wmem[w] + 1 \in Mems'
      BY <1>2, <2>5 DEF Appends, MemTypes
    <3>3. WriterSees(w)'
      BY <2>1, <2>2, <2>5, <2>11, <3>2 DEF WriterSees, Holding, Appends
    <3> QED
      BY <3>1, <3>3
  <2>14. ReaderTypes' /\ \A r \in Readers : ReaderSees(r)'
    BY <1>0, <2>5, <2>9, ReaderStill DEF ReadersStay, ReaderTypes, Appends
  <2>15. OneHolder'
    BY <2>1, <2>12 DEF OneHolder
  <2>16. SlotsHeld'
    <3>1. ASSUME NEW k \in Mems, NEW i \in Nat,
                 mems'[k].tail_read <= i, i < mems'[k].tail_write
          PROVE  \E v \in Writers : Holds(v, k, i)'
      <4>1. mems[k].tail_read <= i /\ i < mems[k].tail_write
        BY <2>5, <3>1 DEF Appends
      <4>2. PICK v \in Writers : Holds(v, k, i)
        BY <4>1 DEF SlotsHeld
      <4>3. Holds(v, k, i)'
        BY <2>1, <2>12, <4>2 DEF Holds
      <4> QED
        BY <4>3
    <3>2. ASSUME NEW i \in Nat PROVE ~(wtail[w] <= i /\ i < wtail[w])
      BY <2>2
    <3> QED
      BY <2>4, <2>5, <3>1, <3>2 DEF SlotsHeld, Appends
  <2>17. e.head = e.tail_read
    BY <2>4
  <2> QED
    BY <1>0, <2>4, <2>5, <2>7, <2>10, <2>11, <2>13, <2>14, <2>15, <2>16, <2>17
<1> QED
  BY <1>1, <1>2

-----------------------------------------------------------------------------
OtherReaders(r) ==
  \A s \in Readers \ {r} : /\ rpc'[s] = rpc[s] /\ rmem'[s] = rmem[s]
                           /\ rhead'[s] = rhead[s] /\ rret'[s] = rret[s]

LEMMA ReaderAt ==
  ASSUME SlotInv, NEW r \in Readers, rpc[r] \notin {"idle", "again"}
  PROVE  /\ rmem[r] \in Mems /\ rmem[r] \in Nat /\ rhead[r] \in Nat
         /\ mems[rmem[r]] \in MemRecord /\ Ordered(rmem[r])
         /\ mems[rmem[r]].size \in Nat /\ mems[rmem[r]].head \in Nat
         /\ mems[rmem[r]].tail_write \in Nat /\ mems[rmem[r]].tail_read \in Nat
         /\ mems[rmem[r]].array \in [0 .. mems[rmem[r]].size -> Cells]
         /\ mems[rmem[r]].next # 0 => rmem[r] + 1 \in Mems
BY MemFields DEF SlotInv, MemTypes, ReaderSees, ReaderTypes, Mems

LEMMA ReaderDone ==
  ASSUME ReaderTypes, NEW r \in Readers, NEW pc \in {"idle", "again"}, RDone(r, pc)
  PROVE  ReaderTypes' /\ OtherReaders(r) /\ rpc'[r] = pc
<1>1. pc \in ReaderPCs /\ None \in Cells
  BY DEF ReaderPCs, Cells
<1> QED
  BY <1>1 DEF ReaderTypes, RDone, RGoto, OtherReaders

(* A call of pop or peek ends, or starts again.                            *)
LEMMA ReaderEnds ==
  ASSUME SlotInv, NEW r \in Readers, NEW pc \in {"idle", "again"}, RDone(r, pc),
         headMem' \in Mems, UNCHANGED <<mems, tailMem, writerVars>>
  PROVE  SlotInv'
<1>1. ReaderTypes' /\ OtherReaders(r) /\ rpc'[r] = pc
  BY ReaderDone DEF SlotInv
<1>2. ReaderSees(r)'
  BY <1>1 DEF ReaderSees
<1> QED
  BY <1>1, <1>2, ReaderMoves DEF OtherReaders

LEMMA ReadMemSlot ==
  ASSUME SlotInv, NEW r \in Readers, ReadMem(r)
  PROVE  SlotInv' /\ OtherReaders(r) /\ rpc'[r] = "head"
<1>1. /\ rmem' = [rmem EXCEPT ![r] = headMem] /\ rpc' = [rpc EXCEPT ![r] = "head"]
      /\ UNCHANGED <<mems, headMem, tailMem, writerVars, rhead, rret>>
  BY DEF ReadMem, RGoto, memVars
<1>2. headMem \in Mems /\ headMem \in Nat
  BY LenProperties DEF SlotInv, MemTypes, Mems
<1>3. ReaderTypes' /\ OtherReaders(r)
  BY <1>1, <1>2 DEF SlotInv, ReaderTypes, ReaderPCs, OtherReaders
<1>4. rpc'[r] = "head" /\ rmem'[r] = headMem
  BY <1>1 DEF SlotInv, ReaderTypes
<1>5. ReaderSees(r)'
  BY <1>1, <1>2, <1>4 DEF ReaderSees, Mems
<1> QED
  BY <1>1, <1>2, <1>3, <1>4, <1>5, ReaderMoves DEF OtherReaders

LEMMA ReadHeadSlot ==
  ASSUME SlotInv, NEW r \in Readers, ReadHead(r)
  PROVE  SlotInv' /\ OtherReaders(r) /\ rpc'[r] = "tail"
<1>1. /\ rpc[r] = "head" /\ rhead' = [rhead EXCEPT ![r] = mems[rmem[r]].head]
      /\ rpc' = [rpc EXCEPT ![r] = "tail"]
      /\ UNCHANGED <<mems, headMem, tailMem, writerVars, rmem, rret>>
  BY DEF ReadHead, RGoto, memVars
<1>2. rmem[r] \in Mems /\ mems[rmem[r]].head \in Nat
  BY <1>1, ReaderAt
<1>3. ReaderTypes' /\ OtherReaders(r)
  BY <1>1, <1>2 DEF SlotInv, ReaderTypes, ReaderPCs, OtherReaders
<1>4. rpc'[r] = "tail" /\ rhead'[r] = mems[rmem[r]].head
  BY <1>1 DEF SlotInv, ReaderTypes
<1>5. ReaderSees(r)'
  BY <1>1, <1>2, <1>4 DEF ReaderSees, Mems
<1>6. headMem' \in Mems
  BY <1>1 DEF SlotInv, MemTypes
<1> QED
  BY <1>1, <1>3, <1>4, <1>5, <1>6, ReaderMoves DEF OtherReaders

LEMMA ReadTailSlot ==
  ASSUME SlotInv, NEW r \in Readers, ReadTail(r)
  PROVE  SlotInv' /\ OtherReaders(r) /\ rpc'[r] \in {"load", "next"}
<1> DEFINE pc == IF mems[rmem[r]].tail_read # rhead[r] THEN "load" ELSE "next"
<1>1. /\ rpc[r] = "tail" /\ rpc' = [rpc EXCEPT ![r] = pc]
      /\ UNCHANGED <<mems, headMem, tailMem, writerVars, rmem, rhead, rret>>
  BY DEF ReadTail, RGoto, memVars
<1>2. /\ rmem[r] \in Mems /\ mems[rmem[r]].head \in Nat /\ rhead[r] \in Nat
      /\ mems[rmem[r]].tail_read \in Nat
      /\ mems[rmem[r]].head <= mems[rmem[r]].tail_read
  BY <1>1, ReaderAt DEF Ordered
<1>3. pc = "load" => mems[rmem[r]].tail_read # rhead[r]
  OBVIOUS
<1>4. pc \in {"load", "next"}
  OBVIOUS
<1> HIDE DEF pc
<1>5. ReaderTypes' /\ OtherReaders(r)
  BY <1>1, <1>4 DEF SlotInv, ReaderTypes, ReaderPCs, OtherReaders
<1>6. rpc'[r] = pc
  BY <1>1 DEF SlotInv, ReaderTypes
<1>7. rhead[r] <= mems[rmem[r]].head
  BY <1>1 DEF SlotInv, ReaderSees
<1>8. ReaderSees(r)'
  BY <1>1, <1>2, <1>3, <1>4, <1>6, <1>7 DEF ReaderSees, Mems
<1>9. headMem' \in Mems
  BY <1>1 DEF SlotInv, MemTypes
<1> QED
  BY <1>1, <1>4, <1>5, <1>6, <1>8, <1>9, ReaderMoves DEF OtherReaders

LEMMA ReadNextSlot ==
  ASSUME SlotInv, NEW r \in Readers, ReadNext(r)
  PROVE  SlotInv' /\ OtherReaders(r) /\ rpc'[r] \in {"idle", "swing"}
<1>1. rpc[r] = "next" /\ UNCHANGED <<mems, headMem, tailMem, writerVars>>
  BY DEF ReadNext, memVars
<1>2. headMem' \in Mems
  BY <1>1 DEF SlotInv, MemTypes
<1>3. rmem[r] \in Mems /\ (mems[rmem[r]].next # 0 => rmem[r] + 1 \in Mems)
  BY <1>1, ReaderAt
<1>4. CASE mems[rmem[r]].next = 0
  <2>1. RDone(r, "idle")
    BY <1>4 DEF ReadNext
  <2> QED
    BY <1>1, <1>2, <2>1, ReaderDone, ReaderEnds DEF SlotInv
<1>5. CASE mems[rmem[r]].next # 0
  <2>1. rpc' = [rpc EXCEPT ![r] = "swing"] /\ UNCHANGED <<rmem, rhead, rret>>
    BY <1>5 DEF ReadNext, RGoto
  <2>2. ReaderTypes' /\ OtherReaders(r) /\ rpc'[r] = "swing"
    BY <2>1 DEF SlotInv, ReaderTypes, ReaderPCs, OtherReaders
  <2>3. ReaderSees(r)'
    BY <1>1, <1>3, <1>5, <2>1, <2>2 DEF ReaderSees, Mems
  <2> QED
    BY <1>1, <1>2, <2>2, <2>3, ReaderMoves DEF OtherReaders
<1> QED
  BY <1>4, <1>5

LEMMA ReadSwingSlot ==
  ASSUME SlotInv, NEW r \in Readers, ReadSwing(r)
  PROVE  SlotInv' /\ OtherReaders(r) /\ rpc'[r] = "again"
<1>1. rpc[r] = "swing" /\ RDone(r, "again") /\ UNCHANGED <<mems, tailMem, writerVars>>
      /\ headMem' \in {headMem, rmem[r] + 1}
  BY DEF ReadSwing
<1>2. headMem' \in Mems
  BY <1>1 DEF SlotInv, MemTypes, ReaderSees
<1> QED
  BY <1>1, <1>2, ReaderDone, ReaderEnds DEF SlotInv

LEMMA PeekLoadSlot ==
  ASSUME SlotInv, NEW r \in Readers, PeekLoad(r)
  PROVE  SlotInv' /\ OtherReaders(r) /\ rpc'[r] = "idle"
<1>1. RDone(r, "idle") /\ UNCHANGED <<mems, headMem, tailMem, writerVars>>
  BY DEF PeekLoad, memVars
<1>2. headMem' \in Mems
  BY <1>1 DEF SlotInv, MemTypes
<1> QED
  BY <1>1, <1>2, ReaderDone, ReaderEnds DEF SlotInv

(* A position modulo the size is a slot of the array.                      *)
LEMMA SlotInArray ==
  ASSUME SlotInv, NEW m \in Mems, NEW i \in Nat
  PROVE  Slot(m, i) \in 0 .. mems[m].size
         /\ mems[m].array[Slot(m, i)] \in Cells
<1>1. mems[m].size \in Nat
  BY MemFields DEF SlotInv, MemTypes, Mems
<1>2. ASSUME NEW n \in Nat PROVE i % (n + 1) \in 0 .. n
  BY SMT
<1>3. Slot(m, i) \in 0 .. mems[m].size
  BY <1>1, <1>2 DEF Slot
<1> QED
  BY <1>3 DEF SlotInv, MemTypes

LEMMA PopLoadSlot ==
  ASSUME SlotInv, NEW r \in Readers, PopLoad(r)
  PROVE  /\ SlotInv' /\ OtherReaders(r) /\ rpc'[r] = "cas"
         /\ rret'[r] = mems[rmem[r]].array[Slot(rmem[r], rhead[r])]
         /\ UNCHANGED <<rmem, rhead>>
<1> DEFINE v == mems[rmem[r]].array[Slot(rmem[r], rhead[r])]
<1>1. /\ rpc[r] = "load" /\ rret' = [rret EXCEPT ![r] = v]
      /\ rpc' = [rpc EXCEPT ![r] = "cas"]
      /\ UNCHANGED <<mems, headMem, tailMem, writerVars, rmem, rhead>>
  BY DEF PopLoad, RGoto, memVars
<1>2. rmem[r] \in Mems /\ v \in Cells
  BY <1>1, ReaderAt, SlotInArray
<1> HIDE DEF v
<1>3. ReaderTypes' /\ OtherReaders(r)
  BY <1>1, <1>2 DEF SlotInv, ReaderTypes, ReaderPCs, OtherReaders
<1>4. rpc'[r] = "cas" /\ rret'[r] = v
  BY <1>1 DEF SlotInv, ReaderTypes
<1>5. ReaderSees(r)'
  BY <1>1, <1>2, <1>4 DEF SlotInv, ReaderSees, Mems
<1>6. headMem' \in Mems
  BY <1>1 DEF SlotInv, MemTypes
<1>7. SlotInv'
  BY <1>1, <1>3, <1>5, <1>6, ReaderMoves DEF OtherReaders
<1> QED
  BY <1>1, <1>3, <1>4, <1>7 DEF v

(* The exchange of head: the reader has the slot, or starts again.         *)
LEMMA PopTakeSlot ==
  ASSUME SlotInv, NEW r \in Readers, PopTake(r)
  PROVE  /\ SlotInv' /\ OtherReaders(r) /\ rpc'[r] \in {"idle", "again"}
         /\ UNCHANGED writerVars /\ rpc[r] = "cas"
         /\ \/ UNCHANGED <<mems, popped>>
            \/ /\ mems[rmem[r]].head = rhead[r]
               /\ KeepsOthers(rmem[r])
               /\ mems'[rmem[r]].head = mems[rmem[r]].head + 1
               /\ mems'[rmem[r]].tail_read = mems[rmem[r]].tail_read
               /\ mems'[rmem[r]].array = mems[rmem[r]].array
               /\ Return(r)
<1> USE DEF SlotInv
<1> DEFINE m == rmem[r]
           e == [mems[m] EXCEPT !.head = @ + 1]
<1>0. rpc[r] = "cas" /\ UNCHANGED <<headMem, tailMem, writerVars>>
  BY DEF PopTake
<1>1. CASE mems[m].head # rhead[r]
  <2>1. RDone(r, "again") /\ UNCHANGED <<mems, popped>>
    BY <1>1 DEF PopTake
  <2>2. headMem' \in Mems
    BY <1>0 DEF MemTypes
  <2> QED
    BY <1>0, <2>1, <2>2, ReaderDone, ReaderEnds
<1>2. CASE mems[m].head = rhead[r]
  <2>1. mems' = [mems EXCEPT ![m] = e] /\ Return(r) /\ RDone(r, "idle")
    BY <1>2 DEF PopTake
  <2>2. /\ m \in Mems /\ mems[m] \in MemRecord /\ Ordered(m)
        /\ mems[m].size \in Nat /\ mems[m].head \in Nat
        /\ mems[m].tail_write \in Nat /\ mems[m].tail_read \in Nat
        /\ mems[m].array \in [0 .. mems[m].size -> Cells]
        /\ mems[m].next # 0 => m + 1 \in Mems
    BY <1>0, ReaderAt
  <2>3. /\ e \in MemRecord /\ e.size = mems[m].size
        /\ e.head = mems[m].head + 1
        /\ e.array = mems[m].array /\ e.tail_read = mems[m].tail_read
        /\ e.tail_write = mems[m].tail_write /\ e.next = mems[m].next
    <3>1. mems[m].head + 1 \in Nat
      BY <2>2
    <3> QED
      BY <2>2, <3>1 DEF MemRecord
  <2> HIDE DEF e
  <2>4. /\ Mems' = Mems /\ mems'[m] = e /\ mems' \in Seq(MemRecord)
        /\ \A k \in Mems \ {m} : mems'[k] = mems[k] /\ Len(mems') = Len(mems)
    BY <2>1, <2>2, <2>3, Replaced, SMTT(30) DEF MemTypes
  <2>5. mems[m].head < mems[m].tail_read
    BY <1>0, <1>2 DEF ReaderSees
  <2>6. Len(mems') = Len(mems)
    BY <2>1, <2>2, <2>3, Replaced DEF MemTypes
  <2>7. MemTypes'
    BY <1>0, <2>2, <2>3, <2>4, <2>6 DEF MemTypes
  <2>8. \A k \in Mems : mems[k].head \in Nat /\ mems[k].tail_read \in Nat
                        /\ mems[k].tail_write \in Nat
    BY MemFields DEF MemTypes, Mems
  <2>9. Grows
    BY <2>2, <2>3, <2>4, <2>8, SMTT(30) DEF Grows
  <2>10. \A k \in Mems' : Ordered(k)'
    <3> SUFFICES ASSUME NEW k \in Mems PROVE Ordered(k)'
      BY <2>4
    <3>1. CASE k = m
      <4>1. /\ e.head <= e.tail_read /\ e.tail_read <= e.tail_write
            /\ e.tail_write <= e.head + e.size + 1
        BY <2>2, <2>3, <2>5, SMTT(30) DEF Ordered
      <4> QED
        BY <2>4, <3>1, <4>1 DEF Ordered
    <3>2. CASE k # m
      BY <2>4, <3>2 DEF Ordered
    <3> QED
      BY <3>1, <3>2
  <2>11. \A k \in Mems : mems'[k].tail_read = mems[k].tail_read
                         /\ mems'[k].tail_write = mems[k].tail_write
    BY <2>2, <2>3, <2>4
  <2>12. \A v \in Writers : WriterSees(v)'
    <3> SUFFICES ASSUME NEW v \in Writers PROVE WriterSees(v)'
      OBVIOUS
    <3>1. wpc[v] \in Holding => mems'[wmem[v]].tail_read <= wtail[v]
      BY <2>11 DEF WriterSees, Holding
    <3> QED
      BY <1>0, <2>4, <2>9, <3>1, WriterStill DEF writerVars
  <2>13. WriterTypes' /\ OneHolder' /\ SlotsHeld'
    <3>1. WriterTypes' /\ OneHolder'
      BY <1>0 DEF WriterTypes, OneHolder, writerVars
    <3>2. \A v \in Writers, k \in Mems, i \in Nat : Holds(v, k, i)' <=> Holds(v, k, i)
      BY <1>0 DEF Holds, writerVars
    <3>3. SlotsHeld'
      BY <2>4, <2>11, <3>2 DEF SlotsHeld
    <3> QED
      BY <3>1, <3>3
  <2>14. ReaderTypes' /\ OtherReaders(r) /\ rpc'[r] = "idle"
    BY <2>1, ReaderDone
  <2>15. \A s \in Readers : ReaderSees(s)'
    <3>1. ASSUME NEW s \in Readers, s # r PROVE ReaderSees(s)'
      BY <2>4, <2>9, <2>14, <3>1, ReaderStill DEF OtherReaders
    <3>2. ReaderSees(r)'
      BY <2>14 DEF ReaderSees
    <3> QED
      BY <3>1, <3>2
  <2>16. KeepsOthers(m)
    BY <2>3, <2>4 DEF KeepsOthers
  <2> QED
    BY <1>0, <1>2, <2>1, <2>3, <2>4, <2>7, <2>10, <2>12, <2>13, <2>14, <2>15, <2>16
<1> QED
  BY <1>1, <1>2

-----------------------------------------------------------------------------
LEMMA SlotInit == Init => SlotInv
<1> SUFFICES ASSUME Init PROVE SlotInv
  OBVIOUS
<1> DEFINE e == NewMem(InitSlots, 0)
<1>1. /\ e \in MemRecord /\ e.array \in [0 .. e.size -> Cells] /\ e.next = 0
      /\ e.size \in Nat /\ e.head = 0 /\ e.tail_read = 0 /\ e.tail_write = 0
  BY QueueAssumption, NewMemFields
<1>2. mems = <<e>>
  BY DEF Init
<1> HIDE DEF e
<1>3. mems \in Seq(MemRecord) /\ Len(mems) = 1 /\ Mems = {1} /\ mems[1] = e
  BY <1>1, <1>2 DEF Mems
<1>4. MemTypes /\ \A m \in Mems : Ordered(m)
  BY <1>1, <1>3 DEF Init, MemTypes, Ordered
<1>5. None \in Cells /\ "idle" \in WriterPCs /\ "idle" \in ReaderPCs
  BY DEF Cells, WriterPCs, ReaderPCs
<1>6. WriterTypes /\ ReaderTypes
  BY <1>5 DEF Init, WriterTypes, ReaderTypes
<1>7. \A w \in Writers : WriterSees(w)
  BY DEF Init, WriterSees, Holding
<1>8. \A r \in Readers : ReaderSees(r)
  BY DEF Init, ReaderSees
<1>9. OneHolder /\ SlotsHeld
  BY <1>1, <1>3 DEF Init, OneHolder, SlotsHeld, Holding
<1> QED
  BY <1>4, <1>6, <1>7, <1>8, <1>9 DEF SlotInv

LEMMA WriterSlot ==
  ASSUME SlotInv, NEW w \in Writers, WriterStep(w)
  PROVE  SlotInv'
BY PushReadMemSlot, PushReadHeadSlot, PushReadTailSlot, PushGrowSlot,
   PushLinkSlot, PushTakeSlotSlot, PushStoreSlot, PushPublishSlot DEF WriterStep

LEMMA ReaderSlot ==
  ASSUME SlotInv, NEW r \in Readers, ReaderStep(r)
  PROVE  SlotInv'
BY ReadMemSlot, ReadHeadSlot, ReadTailSlot, ReadNextSlot, ReadSwingSlot,
   PeekLoadSlot, PopLoadSlot, PopTakeSlot DEF ReaderStep

LEMMA SlotStays == SlotInv /\ UNCHANGED vars => SlotInv'
BY DEF vars, memVars, writerVars, readerVars, SlotInv, MemTypes, WriterTypes,
       ReaderTypes, Ordered, WriterSees, ReaderSees, OneHolder, SlotsHeld,
       Holds, Mems

(* The arrays, and what threads know of them, in every reachable state.    *)
THEOREM SlotInvariance == Spec => []SlotInv
<1>1. SlotInv /\ [Next]_vars => SlotInv'
  BY WriterSlot, ReaderSlot, SlotStays DEF Next
<1> QED
  BY SlotInit, <1>1, PTL DEF Spec

(* gstatomicqueue.c:383-388: the slot that a busy wait is for belongs to a *)
(* writer on its way to publish it.                                        *)
THEOREM BusyWaits == Spec => []BusyWaitEnds
<1>1. SlotInv => BusyWaitEnds
  <2> SUFFICES ASSUME SlotInv, NEW w \in Writers, wpc[w] = "publish"
               PROVE  \E v \in Writers : Holds(v, wmem[w], mems[wmem[w]].tail_read)
    BY DEF BusyWaitEnds, Holds, Holding
  <2>1. /\ wmem[w] \in Mems /\ mems[wmem[w]].tail_read \in Nat
        /\ mems[wmem[w]].tail_write \in Nat /\ wtail[w] \in Nat
    BY WriterAt
  <2>2. /\ mems[wmem[w]].tail_read <= wtail[w]
        /\ wtail[w] < mems[wmem[w]].tail_write
    BY DEF SlotInv, WriterSees, Holding
  <2> QED
    BY <2>1, <2>2 DEF SlotInv, SlotsHeld
<1> QED
  BY <1>1, SlotInvariance, PTL

-----------------------------------------------------------------------------
(* What the queue holds, as a function A from places L (an array and a     *)
(* position) to items, next to what was popped, P, and the number of items *)
(* each writer has stored, S.                                              *)
Known(L, A, P, S) ==
  /\ L \subseteq Nat \X Nat /\ A \in [L -> Items]
  /\ P \in Seq(Returned) /\ S \in [Writers -> Int]
  /\ \A p \in L : A[p][2] <= S[A[p][1]]
  /\ \A k \in DOMAIN P : P[k].item[2] <= S[P[k].item[1]]

Distinct(L, A, P) ==
  /\ \A p, q \in L : A[p] = A[q] => p = q
  /\ \A p \in L : \A k \in DOMAIN P : P[k].item # A[p]
  /\ \A j, k \in DOMAIN P : P[j].item = P[k].item => j = k

(* Per array and writer, numbers grow with positions, and what was popped  *)
(* comes before what is left.                                              *)
InOrder(L, A, P) ==
  /\ \A p, q \in L : p[1] = q[1] /\ A[p][1] = A[q][1] /\ p[2] < q[2] =>
       A[p][2] < A[q][2]
  /\ \A p \in L : \A k \in DOMAIN P :
       P[k].mem = p[1] /\ P[k].item[1] = A[p][1] => P[k].item[2] < A[p][2]
  /\ \A j, k \in DOMAIN P :
       j < k /\ P[j].mem = P[k].mem /\ P[j].item[1] = P[k].item[1] =>
         P[j].item[2] < P[k].item[2]

ContentOK(L, A, P, S) == Known(L, A, P, S) /\ Distinct(L, A, P) /\ InOrder(L, A, P)

(* One more item, behind those its writer has in that array.               *)
LEMMA StoreContent ==
  ASSUME NEW L, NEW A, NEW P, NEW S, ContentOK(L, A, P, S),
         NEW p \in Nat \X Nat, p \notin L, NEW w \in Writers,
         NEW B, B \in [L \cup {p} -> Items], B[p] = <<w, S[w] + 1>>,
         \A q \in L : B[q] = A[q],
         \A q \in L : q[1] = p[1] /\ A[q][1] = w => q[2] < p[2],
         NEW T, T \in [Writers -> Int], T[w] = S[w] + 1,
         \A v \in Writers \ {w} : T[v] = S[v]
  PROVE  ContentOK(L \cup {p}, B, P, T)
<1> USE DEF ContentOK
<1>1. /\ S \in [Writers -> Int] /\ A \in [L -> Items] /\ S[w] \in Int
      /\ L \subseteq Nat \X Nat /\ P \in Seq(Returned)
  BY DEF Known
<1>2. \A q \in L : /\ A[q][1] \in Writers /\ A[q][2] \in Nat
                   /\ A[q][2] <= S[A[q][1]] /\ q[2] \in Nat
  BY <1>1 DEF Known, Items
<1>3. \A k \in DOMAIN P : /\ P[k].item[1] \in Writers /\ P[k].item[2] \in Nat
                          /\ P[k].item[2] <= S[P[k].item[1]]
                          /\ P[k].item \in Items
  <2> SUFFICES ASSUME NEW k \in DOMAIN P
               PROVE  /\ P[k].item[1] \in Writers /\ P[k].item[2] \in Nat
                      /\ P[k].item[2] <= S[P[k].item[1]] /\ P[k].item \in Items
    OBVIOUS
  <2>1. P[k] \in Returned
    BY <1>1
  <2> QED
    BY <2>1 DEF Known, Returned, Items
<1>4. B[p][1] = w /\ B[p][2] = S[w] + 1
  OBVIOUS
<1>5. \A v \in Writers : S[v] \in Int /\ T[v] \in Int /\ S[v] <= T[v]
  <2> SUFFICES ASSUME NEW v \in Writers
               PROVE  S[v] \in Int /\ T[v] \in Int /\ S[v] <= T[v]
    OBVIOUS
  <2>1. S[v] \in Int /\ T[v] \in Int
    BY <1>1
  <2>2. CASE v = w
    BY <1>1, <2>1, <2>2
  <2>3. CASE v # w
    BY <2>1, <2>3
  <2> QED
    BY <2>1, <2>2, <2>3
<1>6. Known(L \cup {p}, B, P, T)
  <2>1. \A q \in L \cup {p} : B[q][2] <= T[B[q][1]]
    BY <1>2, <1>4, <1>5
  <2>2. \A k \in DOMAIN P : P[k].item[2] <= T[P[k].item[1]]
    BY <1>3, <1>5
  <2> QED
    BY <1>1, <2>1, <2>2 DEF Known
<1>7. \A q \in L : A[q] # B[p]
  BY <1>1, <1>2, <1>4
<1>8. \A k \in DOMAIN P : P[k].item # B[p]
  BY <1>1, <1>3, <1>4
<1>9. Distinct(L \cup {p}, B, P)
  BY <1>7, <1>8 DEF Distinct
<1>10. InOrder(L \cup {p}, B, P)
  <2>1. ASSUME NEW q \in L \cup {p}, NEW u \in L \cup {p}, q[1] = u[1],
               B[q][1] = B[u][1], q[2] < u[2]
        PROVE  B[q][2] < B[u][2]
    <3>1. CASE q \in L /\ u \in L
      BY <2>1, <3>1 DEF InOrder
    <3>2. CASE q \in L /\ u = p
      BY <1>1, <1>2, <1>4, <2>1, <3>2
    <3>3. CASE q = p /\ u \in L
      BY <1>2, <1>4, <2>1, <3>3
    <3>4. CASE q = p /\ u = p
      BY <2>1, <3>4
    <3> QED
      BY <3>1, <3>2, <3>3, <3>4
  <2>2. ASSUME NEW q \in L \cup {p}, NEW k \in DOMAIN P, P[k].mem = q[1],
               P[k].item[1] = B[q][1]
        PROVE  P[k].item[2] < B[q][2]
    <3>1. CASE q \in L
      BY <2>2, <3>1 DEF InOrder
    <3>2. CASE q = p
      BY <1>1, <1>3, <1>4, <2>2, <3>2
    <3> QED
      BY <3>1, <3>2
  <2> QED
    BY <2>1, <2>2 DEF InOrder
<1> QED
  BY <1>6, <1>9, <1>10

(* The first item of an array is popped.                                   *)
LEMMA TakeContent ==
  ASSUME NEW L, NEW A, NEW P, NEW S, ContentOK(L, A, P, S),
         NEW p \in L, \A q \in L \ {p} : q[1] = p[1] => p[2] < q[2],
         NEW B, B \in [L \ {p} -> Items], \A q \in L \ {p} : B[q] = A[q],
         NEW Q, Q = Append(P, [item |-> A[p], mem |-> p[1]])
  PROVE  ContentOK(L \ {p}, B, Q, S)
<1> USE DEF ContentOK
<1> DEFINE x == [item |-> A[p], mem |-> p[1]]
           n == Len(P) + 1
<1>1. /\ L \subseteq Nat \X Nat /\ A \in [L -> Items] /\ P \in Seq(Returned)
      /\ S \in [Writers -> Int]
  BY DEF Known
<1>2. x \in Returned
  BY <1>1 DEF Returned
<1>3. x.item = A[p] /\ x.mem = p[1]
  OBVIOUS
<1> HIDE DEF x
<1>4. /\ Q \in Seq(Returned) /\ DOMAIN Q = DOMAIN P \cup {n} /\ Q[n] = x
      /\ n \in Nat /\ \A k \in DOMAIN P : Q[k] = P[k] /\ k \in Nat /\ k < n
  BY <1>1, <1>2, AppendProperties, LenProperties DEF x
<1> HIDE DEF n
<1>5. Known(L \ {p}, B, Q, S)
  <2>1. \A k \in DOMAIN Q : Q[k].item[2] <= S[Q[k].item[1]]
    BY <1>3, <1>4 DEF Known
  <2> QED
    BY <1>1, <1>4, <2>1 DEF Known
<1>6. Distinct(L \ {p}, B, Q)
  <2>1. \A q \in L \ {p} : \A k \in DOMAIN Q : Q[k].item # B[q]
    BY <1>3, <1>4 DEF Distinct
  <2>2. \A j, k \in DOMAIN Q : Q[j].item = Q[k].item => j = k
    BY <1>3, <1>4 DEF Distinct
  <2> QED
    BY <2>1, <2>2 DEF Distinct
<1>7. InOrder(L \ {p}, B, Q)
  <2>1. ASSUME NEW q \in L \ {p}, NEW k \in DOMAIN Q, Q[k].mem = q[1],
               Q[k].item[1] = B[q][1]
        PROVE  Q[k].item[2] < B[q][2]
    <3>1. CASE k \in DOMAIN P
      BY <1>4, <2>1, <3>1 DEF InOrder
    <3>2. CASE k = n
      BY <1>3, <1>4, <2>1, <3>2 DEF InOrder
    <3> QED
      BY <1>4, <3>1, <3>2
  <2>2. ASSUME NEW j \in DOMAIN Q, NEW k \in DOMAIN Q, j < k,
               Q[j].mem = Q[k].mem, Q[j].item[1] = Q[k].item[1]
        PROVE  Q[j].item[2] < Q[k].item[2]
    <3>1. j \in DOMAIN P
      BY <1>4, <2>2
    <3>2. CASE k \in DOMAIN P
      BY <1>4, <2>2, <3>1, <3>2 DEF InOrder
    <3>3. CASE k = n
      BY <1>3, <1>4, <2>2, <3>1, <3>3 DEF InOrder
    <3> QED
      BY <1>4, <3>2, <3>3
  <2> QED
    BY <2>1, <2>2 DEF InOrder
<1> QED
  BY <1>5, <1>6, <1>7

-----------------------------------------------------------------------------
(* The places of the arrays whose item was stored and not yet popped: the  *)
(* slots up to tail_read, and later ones that wait to be published.        *)
Stowed(m, i) == \E w \in Writers : wpc[w] = "publish" /\ wmem[w] = m /\ wtail[w] = i

Filled(m, i) ==
  mems[m].head <= i /\ (i < mems[m].tail_read \/ Stowed(m, i))

Live == {p \in Mems \X Nat : Filled(p[1], p[2])}
At(p) == mems[p[1]].array[Slot(p[1], p[2])]
Held == [p \in Live |-> At(p)]
Stored == [w \in Writers |-> IF wpc[w] \in {"idle", "publish"} THEN pushed[w]
                             ELSE pushed[w] - 1]

OwnItem(w) == wpc[w] = "publish" => At(<<wmem[w], wtail[w]>>) = <<w, pushed[w]>>

(* A slot that was loaded and is still the head has not been used again.   *)
StillThere(r) ==
  rpc[r] = "cas" /\ rhead[r] = mems[rmem[r]].head => rret[r] = At(<<rmem[r], rhead[r]>>)

ContentInv ==
  /\ SlotInv /\ ContentOK(Live, Held, popped, Stored)
  /\ \A w \in Writers : OwnItem(w)
  /\ \A r \in Readers : StillThere(r)

LEMMA OwnIsLive ==
  ASSUME SlotInv, NEW w \in Writers, wpc[w] = "publish"
  PROVE  <<wmem[w], wtail[w]>> \in Live
<1>1. /\ wmem[w] \in Mems /\ mems[wmem[w]].head <= mems[wmem[w]].tail_read
      /\ mems[wmem[w]].tail_read <= wtail[w]
      /\ mems[wmem[w]].head \in Nat /\ mems[wmem[w]].tail_read \in Nat
      /\ wtail[w] \in Nat
  BY WriterAt DEF SlotInv, WriterSees, Holding, Ordered
<1>2. Filled(wmem[w], wtail[w])
  BY <1>1 DEF Filled, Stowed
<1> QED
  BY <1>1, <1>2 DEF Live

LEMMA HeadIsLive ==
  ASSUME SlotInv, NEW r \in Readers, rpc[r] = "cas", rhead[r] = mems[rmem[r]].head
  PROVE  <<rmem[r], rhead[r]>> \in Live
<1>1. /\ rmem[r] \in Mems /\ rhead[r] < mems[rmem[r]].tail_read
      /\ mems[rmem[r]].head \in Nat /\ mems[rmem[r]].tail_read \in Nat
  BY ReaderAt DEF SlotInv, ReaderSees
<1>2. Filled(rmem[r], rhead[r])
  BY <1>1 DEF Filled
<1> QED
  BY <1>1, <1>2 DEF Live

LEMMA LiveIsPair ==
  ASSUME MemTypes, NEW p \in Live
  PROVE  p \in Nat \X Nat /\ p[1] \in Mems /\ p[2] \in Nat /\ p = <<p[1], p[2]>>
BY LenProperties DEF Live, MemTypes, Mems

(* The arrays keep what they hold.                                         *)
Keeps ==
  /\ Mems \subseteq Mems'
  /\ \A m \in Mems : /\ mems'[m].head = mems[m].head
                     /\ mems'[m].tail_read = mems[m].tail_read
                     /\ mems'[m].array = mems[m].array
                     /\ mems'[m].size = mems[m].size
  /\ \A m \in Mems' \ Mems : mems'[m].head = mems'[m].tail_read

LEMMA KeepsAt ==
  ASSUME Keeps, NEW p, p[1] \in Mems
  PROVE  At(p)' = At(p)
BY DEF Keeps, At, Slot

LEMMA SameContent ==
  ASSUME ContentInv, Live' = Live, \A p \in Live : At(p)' = At(p), Stored' = Stored,
         popped' = popped
  PROVE  ContentOK(Live', Held', popped', Stored')
<1>1. Held' = Held
  BY DEF Held
<1> QED
  BY <1>1 DEF ContentInv

(* A writer that neither stores nor publishes.                             *)
LEMMA WriterAway ==
  ASSUME ContentInv, SlotInv', NEW w \in Writers, Others(w), ReadersStay, Keeps,
         wpc[w] # "publish", wpc'[w] # "publish",
         \A v \in Writers \ {w} : pushed'[v] = pushed[v],
         Stored'[w] = Stored[w], popped' = popped
  PROVE  ContentInv'
<1> USE DEF ContentInv
<1>1. \A m, i : Stowed(m, i)' <=> Stowed(m, i)
  BY DEF Stowed, Others
<1>2. \A m \in Mems' \ Mems, i \in Nat : ~ Filled(m, i)'
  <2> SUFFICES ASSUME NEW m \in Mems' \ Mems, NEW i \in Nat, Filled(m, i)'
               PROVE  FALSE
    OBVIOUS
  <2>1. ~ Stowed(m, i)
    BY WriterAt DEF Stowed
  <2>2. mems'[m].head \in Nat /\ mems'[m].head = mems'[m].tail_read
    BY MemFields DEF SlotInv, MemTypes, Mems, Keeps
  <2> QED
    BY <1>1, <2>1, <2>2 DEF Filled
<1>3. \A m \in Mems, i \in Nat : Filled(m, i)' <=> Filled(m, i)
  BY <1>1 DEF Filled, Keeps
<1>4. Live' = Live
  BY <1>2, <1>3 DEF Live, Keeps
<1>5. \A p \in Live : At(p)' = At(p)
  BY KeepsAt, LiveIsPair DEF SlotInv
<1>6. Stored' = Stored
  <2>1. \A v \in Writers : Stored'[v] = Stored[v]
    BY DEF Stored, Others
  <2> QED
    BY <2>1 DEF Stored
<1>7. ASSUME NEW v \in Writers PROVE OwnItem(v)'
  BY <1>5, OwnIsLive DEF OwnItem, Others
<1>8. ASSUME NEW r \in Readers PROVE StillThere(r)'
  <2> SUFFICES ASSUME rpc[r] = "cas", rhead[r] = mems'[rmem[r]].head
               PROVE  rret[r] = At(<<rmem[r], rhead[r]>>)'
    BY DEF StillThere, ReadersStay
  <2>1. rhead[r] = mems[rmem[r]].head
    BY ReaderAt DEF Keeps
  <2> QED
    BY <1>5, <2>1, HeadIsLive DEF StillThere, ReadersStay
<1> QED
  BY <1>4, <1>5, <1>6, <1>7, <1>8, SameContent

(* A reader that takes nothing.                                            *)
LEMMA ReaderAway ==
  ASSUME ContentInv, SlotInv', NEW r \in Readers, OtherReaders(r),
         UNCHANGED <<mems, writerVars, popped>>, StillThere(r)'
  PROVE  ContentInv'
<1> USE DEF ContentInv
<1>1. Live' = Live /\ Stored' = Stored /\ \A p \in Live : At(p)' = At(p)
  BY DEF Live, Stored, At, Filled, Stowed, Slot, writerVars, Mems
<1>2. \A w \in Writers : OwnItem(w)'
  BY DEF OwnItem, At, Slot, writerVars
<1>3. \A s \in Readers : StillThere(s)'
  BY DEF StillThere, OtherReaders, At, Slot
<1> QED
  BY <1>1, <1>2, <1>3, SameContent

-----------------------------------------------------------------------------
LEMMA Multiple ==
  ASSUME NEW n \in Nat \ {0}, NEW i \in Nat
  PROVE  i \div n \in Int /\ i = n * (i \div n) + (i % n)
BY SMT

LEMMA NextMultiple ==
  ASSUME NEW n \in Nat \ {0}, NEW a \in Int, NEW b \in Int, a < b
  PROVE  n * b >= n * a + n
BY SMT

(* Positions less than the size apart have slots of their own.             *)
LEMMA SlotsDiffer ==
  ASSUME NEW n \in Nat \ {0}, NEW i \in Nat, NEW j \in Nat, i < j, j < i + n
  PROVE  i % n # j % n
<1> SUFFICES ASSUME i % n = j % n PROVE FALSE
  OBVIOUS
<1> DEFINE a == i \div n
           b == j \div n
           r == i % n
<1>1. a \in Int /\ b \in Int /\ i = n * a + r /\ j = n * b + r
  BY Multiple
<1>2. r \in 0 .. n - 1
  BY SMT
<1>3. n * a \in Int /\ n * b \in Int
  BY <1>1
<1> HIDE DEF a, b, r
<1>4. ~ (a < b)
  BY <1>1, <1>2, <1>3, NextMultiple
<1>5. ~ (b < a)
  BY <1>1, <1>2, <1>3, NextMultiple
<1>6. a = b
  BY <1>1, <1>4, <1>5
<1> QED
  BY <1>1, <1>3, <1>6

(* All items of an array lie below tail_write and at most its size apart.  *)
LEMMA LiveBelow ==
  ASSUME SlotInv, NEW p \in Live
  PROVE  /\ mems[p[1]].head <= p[2] /\ p[2] < mems[p[1]].tail_write
         /\ p[1] \in Mems /\ p[2] \in Nat
         /\ mems[p[1]].head \in Nat /\ mems[p[1]].tail_write \in Nat
         /\ mems[p[1]].size \in Nat
<1>1. /\ p[1] \in Mems /\ p[2] \in Nat /\ Filled(p[1], p[2])
  BY DEF Live
<1>2. /\ mems[p[1]].head \in Nat /\ mems[p[1]].tail_write \in Nat
      /\ mems[p[1]].tail_read \in Nat /\ mems[p[1]].size \in Nat
  BY <1>1, MemFields DEF SlotInv, MemTypes, Mems
<1>3. Stowed(p[1], p[2]) => p[2] < mems[p[1]].tail_write
  BY DEF Stowed, SlotInv, WriterSees, Holding
<1>4. mems[p[1]].tail_read <= mems[p[1]].tail_write
  BY <1>1 DEF SlotInv, Ordered
<1> QED
  BY <1>1, <1>2, <1>3, <1>4 DEF Filled

LEMMA Apart ==
  ASSUME NEW h \in Nat, NEW e \in Nat, NEW s \in Nat, NEW i \in Nat, NEW j \in Nat,
         e <= h + s + 1, h <= i, i < e, h <= j, j < e
  PROVE  i < j + (s + 1) /\ j < i + (s + 1) /\ s + 1 \in Nat \ {0}
OBVIOUS

LEMMA StoreKeeps ==
  ASSUME ContentInv, NEW w \in Writers, PushStore(w)
  PROVE  ContentInv'
<1> USE DEF ContentInv
<1> SUFFICES ASSUME NEW m, NEW t, m = wmem[w], t = wtail[w] PROVE ContentInv'
  OBVIOUS
<1> DEFINE p == <<m, t>>
           x == <<w, pushed[w]>>
<1>1. /\ SlotInv' /\ KeepsOthers(m) /\ Others(w) /\ ReadersStay
      /\ wpc[w] = "store" /\ wpc'[w] = "publish"
      /\ UNCHANGED <<wmem, wtail, pushed, popped>>
      /\ mems'[m].head = mems[m].head
      /\ mems'[m].tail_read = mems[m].tail_read
      /\ mems'[m].array = [mems[m].array EXCEPT ![Slot(m, t)] = x]
  BY PushStoreSlot
<1>2. /\ m \in Mems /\ m \in Nat /\ t \in Nat /\ mems[m].size \in Nat
      /\ mems[m].head \in Nat /\ mems[m].tail_read \in Nat
      /\ mems[m].tail_write \in Nat
      /\ mems[m].array \in [0 .. mems[m].size -> Cells]
      /\ mems[m].head <= mems[m].tail_read
      /\ mems[m].tail_write <= mems[m].head + mems[m].size + 1
  BY <1>1, WriterAt DEF Ordered
<1>3. mems[m].tail_read <= t /\ t < mems[m].tail_write
  BY <1>1 DEF SlotInv, WriterSees, Holding
<1>4. Slot(m, t) \in 0 .. mems[m].size
  BY <1>2, SlotInArray
<1>5. \A v \in Writers : wpc[v] = "publish" => ~ (wmem[v] = m /\ wtail[v] = t)
  BY <1>1 DEF SlotInv, OneHolder, Holding
<1>6. p \notin Live
  <2>1. ~ Stowed(m, t)
    BY <1>5 DEF Stowed
  <2> QED
    BY <1>2, <1>3, <2>1 DEF Live, Filled
<1>7. \A k, i : Stowed(k, i)' <=> Stowed(k, i) \/ (k = m /\ i = t)
  BY <1>1 DEF Stowed, Others
<1>8. Live' = Live \cup {p}
  <2>1. \A k \in Mems, i \in Nat :
          Filled(k, i)' <=> Filled(k, i) \/ (k = m /\ i = t)
    BY <1>1, <1>2, <1>3, <1>7, SMTT(30) DEF Filled, KeepsOthers
  <2>2. ASSUME NEW q \in Mems \X Nat
        PROVE  Filled(q[1], q[2])' <=> Filled(q[1], q[2]) \/ q = p
    BY <2>1
  <2>3. p \in Mems \X Nat /\ Mems' = Mems
    BY <1>1, <1>2 DEF KeepsOthers
  <2> QED
    BY <2>2, <2>3 DEF Live
<1>9. At(p)' = x
  BY <1>1, <1>2, <1>4 DEF At, Slot, KeepsOthers
<1>10. \A q \in Live : At(q)' = At(q)
  <2> SUFFICES ASSUME NEW q \in Live PROVE At(q)' = At(q)
    OBVIOUS
  <2>1. q \in Nat \X Nat /\ q[1] \in Mems /\ q[2] \in Nat /\ q = <<q[1], q[2]>>
    BY LiveIsPair DEF SlotInv
  <2>2. CASE q[1] # m
    BY <1>1, <2>1, <2>2 DEF At, Slot, KeepsOthers
  <2>3. CASE q[1] = m
    <3>1. q[2] # t
      BY <1>6, <2>1, <2>3
    <3>2. mems[m].head <= q[2] /\ q[2] < mems[m].tail_write
      BY <2>3, LiveBelow
    <3>3. Slot(m, q[2]) # Slot(m, t)
      <4> DEFINE n == mems[m].size + 1
                 i == q[2]
      <4>1. n \in Nat \ {0} /\ i \in Nat /\ i < t + n /\ t < i + n /\ i # t
        <5>1. mems[m].head <= t
          BY <1>2, <1>3
        <5> QED
          BY <1>2, <1>3, <2>1, <3>1, <3>2, <5>1, Apart
      <4>2. Slot(m, q[2]) = i % n /\ Slot(m, t) = t % n
        BY DEF Slot
      <4> HIDE DEF n, i
      <4>3. CASE i < t
        BY <1>2, <4>1, <4>2, <4>3, SlotsDiffer
      <4>4. CASE t < i
        BY <1>2, <4>1, <4>2, <4>4, SlotsDiffer
      <4> QED
        BY <1>2, <4>1, <4>3, <4>4
    <3>4. Slot(m, q[2])' = Slot(m, q[2])
      BY <1>1 DEF Slot, KeepsOthers
    <3>5. mems'[m].array[Slot(m, q[2])] = mems[m].array[Slot(m, q[2])]
      BY <1>1, <1>2, <3>3
    <3> QED
      BY <1>1, <2>3, <3>4, <3>5 DEF At, Slot, KeepsOthers
  <2> QED
    BY <2>2, <2>3
<1>11. \A v \in Writers : pushed[v] \in Nat
  BY DEF SlotInv, WriterTypes
<1>12. /\ Stored \in [Writers -> Int] /\ Stored' \in [Writers -> Int]
       /\ Stored[w] = pushed[w] - 1 /\ Stored'[w] = pushed[w]
       /\ \A v \in Writers \ {w} : Stored'[v] = Stored[v]
  BY <1>1, <1>11 DEF Stored, Others
<1>13. \A q \in Live : q[1] = m /\ Held[q][1] = w => q[2] < t
  <2> SUFFICES ASSUME NEW q \in Live, q[1] = m, Held[q][1] = w PROVE q[2] < t
    OBVIOUS
  <2>1. q \in Nat \X Nat /\ q[2] \in Nat /\ q = <<m, q[2]>> /\ Filled(m, q[2])
    BY LiveIsPair DEF SlotInv, Live
  <2>2. ~ Stowed(m, q[2])
    <3> SUFFICES ASSUME NEW v \in Writers, wpc[v] = "publish", wmem[v] = m,
                        wtail[v] = q[2]
                 PROVE  FALSE
      BY DEF Stowed
    <3>1. Held[q] = <<v, pushed[v]>>
      BY <2>1 DEF OwnItem, Held
    <3> QED
      BY <1>1, <3>1
  <2> QED
    BY <1>2, <1>3, <2>1, <2>2 DEF Filled
<1>14. Held' \in [Live \cup {p} -> Items] /\ Held'[p] = x
       /\ \A q \in Live : Held'[q] = Held[q]
  <2>1. Held' = [q \in Live \cup {p} |-> At(q)']
    BY <1>8 DEF Held
  <2>2. x \in Items
    BY <1>11 DEF Items
  <2>3. \A q \in Live : Held[q] \in Items /\ Held[q] = At(q)
    BY DEF Held, ContentOK, Known
  <2> HIDE DEF p, x
  <2>4. \A q \in Live \cup {p} : At(q)' \in Items
    BY <1>9, <1>10, <2>2, <2>3
  <2>5. \A q \in Live \cup {p} : Held'[q] = At(q)'
    BY <2>1
  <2> QED
    BY <1>9, <1>10, <2>1, <2>3, <2>4, <2>5
<1>15. ContentOK(Live', Held', popped', Stored')
  <2>1. x = <<w, Stored[w] + 1>> /\ Stored'[w] = Stored[w] + 1
    BY <1>11, <1>12
  <2>2. p \in Nat \X Nat /\ p[1] = m /\ p[2] = t
    BY <1>2
  <2> HIDE DEF p, x
  <2>3. \A q \in Live : q[1] = p[1] /\ Held[q][1] = w => q[2] < p[2]
    BY <1>13, <2>2
  <2>4. Held'[p] = <<w, Stored[w] + 1>>
    BY <1>14, <2>1
  <2>5. ContentOK(Live, Held, popped, Stored)
    OBVIOUS
  <2> HIDE DEF ContentInv
  <2>6. ASSUME NEW L, NEW A, NEW S, NEW B, NEW T, L = Live, A = Held, S = Stored,
               B = Held', T = Stored'
        PROVE  ContentOK(L \cup {p}, B, popped, T)
    BY <1>6, <1>12, <1>14, <2>1, <2>2, <2>3, <2>4, <2>5, <2>6, StoreContent, SMTT(30)
  <2> QED
    BY <1>1, <1>8, <2>6
<1>16. \A v \in Writers : OwnItem(v)'
  <2>1. OwnItem(w)'
    BY <1>1, <1>9 DEF OwnItem
  <2>2. ASSUME NEW v \in Writers, v # w PROVE OwnItem(v)'
    BY <1>1, <1>10, <2>2, OwnIsLive DEF OwnItem, Others
  <2> QED
    BY <2>1, <2>2
<1>17. ASSUME NEW r \in Readers PROVE StillThere(r)'
  <2> SUFFICES ASSUME rpc[r] = "cas", rhead[r] = mems'[rmem[r]].head
               PROVE  rret[r] = At(<<rmem[r], rhead[r]>>)'
    BY <1>1 DEF StillThere, ReadersStay
  <2>1. rhead[r] = mems[rmem[r]].head
    BY <1>1, ReaderAt DEF KeepsOthers
  <2> QED
    BY <1>1, <1>10, <2>1, HeadIsLive DEF StillThere, ReadersStay
<1> QED
  BY <1>1, <1>15, <1>16, <1>17

LEMMA PublishKeeps ==
  ASSUME ContentInv, NEW w \in Writers, PushPublish(w)
  PROVE  ContentInv'
<1> USE DEF ContentInv
<1> SUFFICES ASSUME NEW m, NEW t, m = wmem[w], t = wtail[w] PROVE ContentInv'
  OBVIOUS
<1>1. /\ SlotInv' /\ KeepsOthers(m) /\ Others(w) /\ ReadersStay
      /\ wpc[w] = "publish" /\ wpc'[w] = "idle"
      /\ UNCHANGED <<pushed, popped>> /\ mems[m].tail_read = t
      /\ mems'[m].head = mems[m].head
      /\ mems'[m].tail_read = mems[m].tail_read + 1
      /\ mems'[m].array = mems[m].array
  BY PushPublishSlot
<1>2. /\ m \in Mems /\ m \in Nat /\ t \in Nat /\ mems[m].head \in Nat
      /\ mems[m].head <= mems[m].tail_read
  BY <1>1, WriterAt DEF Ordered
<1>3. \A k, i : Stowed(k, i) <=> Stowed(k, i)' \/ (k = m /\ i = t)
  BY <1>1 DEF Stowed, Others
<1>4. \A k \in Mems, i \in Nat : Filled(k, i)' <=> Filled(k, i)
  <2> SUFFICES ASSUME NEW k \in Mems, NEW i \in Nat
               PROVE  Filled(k, i)' <=> Filled(k, i)
    OBVIOUS
  <2>1. CASE k = m
    <3>1. i < t + 1 <=> i < t \/ i = t
      BY <1>2
    <3> QED
      BY <1>1, <1>2, <1>3, <2>1, <3>1 DEF Filled
  <2>2. CASE k # m
    BY <1>1, <1>3, <2>2 DEF Filled, KeepsOthers
  <2> QED
    BY <2>1, <2>2
<1>5. Live' = Live
  BY <1>1, <1>4 DEF Live, KeepsOthers
<1>6. \A q \in Live : At(q)' = At(q)
  <2> SUFFICES ASSUME NEW q \in Live PROVE At(q)' = At(q)
    OBVIOUS
  <2>1. q[1] \in Mems
    BY LiveIsPair DEF SlotInv
  <2> QED
    BY <1>1, <2>1 DEF At, Slot, KeepsOthers
<1>7. Stored' = Stored
  <2>1. \A v \in Writers : Stored'[v] = Stored[v]
    BY <1>1 DEF Stored, Others
  <2> QED
    BY <2>1 DEF Stored
<1>8. ASSUME NEW v \in Writers PROVE OwnItem(v)'
  BY <1>1, <1>6, OwnIsLive DEF OwnItem, Others
<1>9. ASSUME NEW r \in Readers PROVE StillThere(r)'
  <2> SUFFICES ASSUME rpc[r] = "cas", rhead[r] = mems'[rmem[r]].head
               PROVE  rret[r] = At(<<rmem[r], rhead[r]>>)'
    BY <1>1 DEF StillThere, ReadersStay
  <2>1. rhead[r] = mems[rmem[r]].head
    BY <1>1, ReaderAt DEF KeepsOthers
  <2> QED
    BY <1>1, <1>6, <2>1, HeadIsLive DEF StillThere, ReadersStay
<1> QED
  BY <1>1, <1>5, <1>6, <1>7, <1>8, <1>9, SameContent

LEMMA TakeKeeps ==
  ASSUME ContentInv, NEW r \in Readers, PopTake(r)
  PROVE  ContentInv'
<1> USE DEF ContentInv
<1> SUFFICES ASSUME NEW m, NEW h, m = rmem[r], h = rhead[r] PROVE ContentInv'
  OBVIOUS
<1> DEFINE p == <<m, h>>
<1>1. /\ SlotInv' /\ OtherReaders(r) /\ rpc'[r] \in {"idle", "again"}
      /\ UNCHANGED writerVars /\ rpc[r] = "cas"
  BY PopTakeSlot
<1>2. StillThere(r)'
  BY <1>1 DEF StillThere
<1>3. CASE UNCHANGED <<mems, popped>>
  BY <1>1, <1>2, <1>3, ReaderAway
<1>4. CASE /\ mems[m].head = h /\ KeepsOthers(m)
           /\ mems'[m].head = mems[m].head + 1
           /\ mems'[m].tail_read = mems[m].tail_read
           /\ mems'[m].array = mems[m].array
           /\ Return(r)
  <2>1. /\ m \in Mems /\ m \in Nat /\ h \in Nat
    BY <1>1, ReaderAt
  <2>2. p \in Live /\ rret[r] = At(p)
    BY <1>1, <1>4, HeadIsLive DEF StillThere
  <2>3. \A k, i : Stowed(k, i)' <=> Stowed(k, i)
    BY <1>1 DEF Stowed, writerVars
  <2>4. \A k \in Mems, i \in Nat :
          Filled(k, i)' <=> Filled(k, i) /\ ~ (k = m /\ i = h)
    <3> SUFFICES ASSUME NEW k \in Mems, NEW i \in Nat
                 PROVE  Filled(k, i)' <=> Filled(k, i) /\ ~ (k = m /\ i = h)
      OBVIOUS
    <3>1. CASE k = m
      <4>1. h + 1 <= i <=> h <= i /\ i # h
        BY <2>1
      <4> QED
        BY <1>4, <2>3, <3>1, <4>1 DEF Filled
    <3>2. CASE k # m
      BY <1>4, <2>3, <3>2 DEF Filled, KeepsOthers
    <3> QED
      BY <3>1, <3>2
  <2>5. Live' = Live \ {p}
    <3>1. ASSUME NEW q \in Mems \X Nat
          PROVE  Filled(q[1], q[2])' <=> Filled(q[1], q[2]) /\ q # p
      BY <2>4
    <3>2. Mems' = Mems
      BY <1>4 DEF KeepsOthers
    <3> QED
      BY <3>1, <3>2 DEF Live
  <2>6. \A q \in Live : At(q)' = At(q)
    <3> SUFFICES ASSUME NEW q \in Live PROVE At(q)' = At(q)
      OBVIOUS
    <3>1. q[1] \in Mems
      BY LiveIsPair DEF SlotInv
    <3> QED
      BY <1>4, <3>1 DEF At, Slot, KeepsOthers
  <2>7. \A q \in Live \ {p} : q[1] = p[1] => p[2] < q[2]
    <3> SUFFICES ASSUME NEW q \in Live, q # p, q[1] = m PROVE h < q[2]
      OBVIOUS
    <3>1. q \in Nat \X Nat /\ q[2] \in Nat /\ q = <<m, q[2]>>
      BY LiveIsPair DEF SlotInv
    <3>2. h <= q[2]
      BY <1>4, LiveBelow
    <3> QED
      BY <2>1, <3>1, <3>2
  <2>8. /\ Held' \in [Live \ {p} -> Items] /\ Held[p] = At(p)
        /\ \A q \in Live \ {p} : Held'[q] = Held[q]
    <3>1. Held' = [q \in Live \ {p} |-> At(q)']
      BY <2>5 DEF Held
    <3>2. \A q \in Live : Held[q] \in Items /\ Held[q] = At(q)
      BY DEF Held, ContentOK, Known
    <3> HIDE DEF p
    <3>3. \A q \in Live \ {p} : At(q)' \in Items /\ Held'[q] = At(q)'
      BY <2>6, <3>1, <3>2
    <3> QED
      BY <2>2, <2>6, <3>1, <3>2, <3>3
  <2>9. popped' = Append(popped, [item |-> Held[p], mem |-> p[1]])
    BY <1>4, <2>2, <2>8 DEF Return
  <2>10. ContentOK(Live', Held', popped', Stored')
    <3>1. ContentOK(Live, Held, popped, Stored)
      OBVIOUS
    <3>2. Stored' = Stored
      BY <1>1 DEF Stored, writerVars
    <3> HIDE DEF ContentInv, p
    <3>3. ASSUME NEW L, NEW A, NEW P, NEW S, NEW B, NEW Q, L = Live, A = Held,
                 P = popped, S = Stored, B = Held', Q = popped'
          PROVE  ContentOK(L \ {p}, B, Q, S)
      BY <2>2, <2>7, <2>8, <2>9, <3>1, <3>3, TakeContent
    <3> QED
      BY <2>5, <3>2, <3>3
  <2>11. ASSUME NEW v \in Writers PROVE OwnItem(v)'
    BY <1>1, <2>6, OwnIsLive DEF OwnItem, writerVars
  <2>12. ASSUME NEW s \in Readers, s # r PROVE StillThere(s)'
    <3> SUFFICES ASSUME rpc[s] = "cas", rhead[s] = mems'[rmem[s]].head
                 PROVE  rret[s] = At(<<rmem[s], rhead[s]>>)'
      BY <1>1, <2>12 DEF StillThere, OtherReaders
    <3>1. rmem[s] # m
      <4> SUFFICES ASSUME rmem[s] = m PROVE FALSE
        OBVIOUS
      <4>1. rhead[s] <= mems[m].head /\ rhead[s] \in Nat
        BY ReaderAt DEF SlotInv, ReaderSees
      <4> QED
        BY <1>4, <2>1, <4>1
    <3>2. rhead[s] = mems[rmem[s]].head
      BY <1>4, <3>1, ReaderAt DEF KeepsOthers
    <3> QED
      BY <1>1, <2>6, <2>12, <3>2, HeadIsLive DEF StillThere, OtherReaders
  <2> QED
    BY <1>1, <1>2, <2>10, <2>11, <2>12
<1> QED
  BY <1>3, <1>4, PopTakeSlot

-----------------------------------------------------------------------------
LEMMA SameMemsKeep ==
  ASSUME mems' = mems
  PROVE  Keeps
BY DEF Keeps, Mems

LEMMA PushReadMemKeeps ==
  ASSUME ContentInv, NEW w \in Writers, PushReadMem(w)
  PROVE  ContentInv'
<1> USE DEF ContentInv
<1>1. /\ SlotInv' /\ mems' = mems /\ ReadersStay /\ popped' = popped
      /\ wpc' = [wpc EXCEPT ![w] = "head"] /\ wmem' = [wmem EXCEPT ![w] = tailMem]
      /\ UNCHANGED <<whead, wtail>> /\ wpc[w] \in {"idle", "again"}
  BY PushReadMemSlot DEF PushReadMem, WGoto, memVars, readerVars, ReadersStay
<1>2. WriterTypes
  BY DEF SlotInv
<1>3. Others(w) /\ wpc'[w] = "head"
  BY <1>1, <1>2 DEF WriterTypes, Others
<1>4. /\ \A v \in Writers \ {w} : pushed'[v] = pushed[v]
      /\ wpc[w] = "idle" => pushed'[w] = pushed[w] + 1
      /\ wpc[w] = "again" => pushed'[w] = pushed[w]
  BY <1>2 DEF WriterTypes, PushReadMem
<1>5. pushed[w] \in Nat
  BY <1>2 DEF WriterTypes
<1>6. Stored'[w] = Stored[w]
  BY <1>1, <1>3, <1>4, <1>5 DEF Stored
<1> QED
  BY <1>1, <1>3, <1>4, <1>6, SameMemsKeep, WriterAway

(* The other steps of a push leave its count of items as it is.            *)
LEMMA WriterGoes ==
  ASSUME ContentInv, SlotInv', NEW w \in Writers, Others(w), ReadersStay, Keeps,
         wpc[w] \notin {"idle", "publish"}, wpc'[w] \notin {"idle", "publish"},
         UNCHANGED <<pushed, popped>>
  PROVE  ContentInv'
<1>1. Stored'[w] = Stored[w]
  BY DEF Stored
<1> QED
  BY <1>1, WriterAway

LEMMA PushReadHeadKeeps ==
  ASSUME ContentInv, NEW w \in Writers, PushReadHead(w)
  PROVE  ContentInv'
<1>1. SlotInv' /\ WriterTypes
  BY PushReadHeadSlot DEF ContentInv, SlotInv
<1>2. /\ mems' = mems /\ ReadersStay /\ Others(w) /\ wpc[w] = "head"
      /\ wpc'[w] = "tail" /\ UNCHANGED <<pushed, popped>>
  BY <1>1 DEF PushReadHead, WGoto, WriterTypes, Others, memVars, readerVars,
              ReadersStay
<1> QED
  BY <1>1, <1>2, SameMemsKeep, WriterGoes

LEMMA PushReadTailKeeps ==
  ASSUME ContentInv, NEW w \in Writers, PushReadTail(w)
  PROVE  ContentInv'
<1>1. SlotInv' /\ WriterTypes
  BY PushReadTailSlot DEF ContentInv, SlotInv
<1>2. /\ mems' = mems /\ ReadersStay /\ Others(w) /\ wpc[w] = "tail"
      /\ wpc'[w] \in {"cas", "grow"} /\ UNCHANGED <<pushed, popped>>
  BY <1>1 DEF PushReadTail, WGoto, WriterTypes, Others, memVars, readerVars,
              ReadersStay
<1> QED
  BY <1>1, <1>2, SameMemsKeep, WriterGoes

LEMMA PushGrowKeeps ==
  ASSUME ContentInv, NEW w \in Writers, PushGrow(w)
  PROVE  ContentInv'
<1>1. /\ SlotInv' /\ Others(w) /\ wpc[w] = "grow" /\ wpc'[w] \in {"again", "link"}
      /\ UNCHANGED <<pushed, popped>> /\ ReadersStay
      /\ \/ UNCHANGED mems
         \/ \E e \in MemRecord : Appends(e) /\ e.head = e.tail_read
  BY PushGrowSlot DEF ContentInv
<1>2. Keeps
  <2>1. CASE UNCHANGED mems
    BY <2>1, SameMemsKeep
  <2>2. ASSUME NEW e \in MemRecord, Appends(e), e.head = e.tail_read
        PROVE  Keeps
    BY <2>2 DEF Appends, Keeps
  <2> QED
    BY <1>1, <2>1, <2>2
<1> QED
  BY <1>1, <1>2, WriterGoes

LEMMA PushLinkKeeps ==
  ASSUME ContentInv, NEW w \in Writers, PushLink(w)
  PROVE  ContentInv'
<1>1. SlotInv' /\ WriterTypes /\ mems \in Seq(MemRecord)
  BY PushLinkSlot DEF ContentInv, SlotInv, MemTypes
<1>2. /\ ReadersStay /\ WDone(w, "again") /\ wpc[w] = "link"
      /\ UNCHANGED <<pushed, popped>>
      /\ mems' = [mems EXCEPT ![wmem[w]] = [mems[wmem[w]] EXCEPT !.next = wmem[w] + 1]]
  BY DEF PushLink, readerVars, ReadersStay
<1>3. Others(w) /\ wpc'[w] = "again"
  BY <1>1, <1>2, WriterDone DEF WriterTypes, WriterPCs
<1>4. wmem[w] \in Mems /\ mems[wmem[w]] \in MemRecord
  BY <1>2, WriterAt DEF ContentInv
<1>5. Keeps
  BY <1>1, <1>2, <1>4 DEF Keeps, Mems, MemRecord
<1> QED
  BY <1>1, <1>2, <1>3, <1>5, WriterGoes

LEMMA PushTakeSlotKeeps ==
  ASSUME ContentInv, NEW w \in Writers, PushTakeSlot(w)
  PROVE  ContentInv'
<1>1. SlotInv' /\ WriterTypes /\ mems \in Seq(MemRecord)
  BY PushTakeSlotSlot DEF ContentInv, SlotInv, MemTypes
<1>2. ReadersStay /\ wpc[w] = "cas" /\ UNCHANGED <<pushed, popped>>
  BY DEF PushTakeSlot, readerVars, ReadersStay
<1>3. wmem[w] \in Mems /\ mems[wmem[w]] \in MemRecord
  BY <1>2, WriterAt DEF ContentInv
<1>4. CASE mems[wmem[w]].tail_write = wtail[w]
  <2>1. /\ mems' = [mems EXCEPT ![wmem[w]] = [mems[wmem[w]] EXCEPT !.tail_write = @ + 1]]
        /\ wpc' = [wpc EXCEPT ![w] = "store"] /\ UNCHANGED <<wmem, whead, wtail>>
    BY <1>4 DEF PushTakeSlot, WGoto
  <2>2. Others(w) /\ wpc'[w] = "store"
    BY <1>1, <2>1 DEF WriterTypes, Others
  <2>3. Keeps
    BY <1>1, <1>3, <2>1 DEF Keeps, Mems, MemRecord
  <2> QED
    BY <1>1, <1>2, <2>2, <2>3, WriterGoes
<1>5. CASE mems[wmem[w]].tail_write # wtail[w]
  <2>1. WDone(w, "again") /\ mems' = mems
    BY <1>5 DEF PushTakeSlot
  <2>2. Others(w) /\ wpc'[w] = "again"
    BY <1>1, <1>2, <2>1, WriterDone DEF WriterTypes, WriterPCs
  <2> QED
    BY <1>1, <1>2, <2>1, <2>2, SameMemsKeep, WriterGoes
<1> QED
  BY <1>4, <1>5

LEMMA ReaderKeeps ==
  ASSUME ContentInv, NEW r \in Readers, ReaderStep(r)
  PROVE  ContentInv'
<1> USE DEF ContentInv
<1>1. ASSUME SlotInv', OtherReaders(r), rpc'[r] # "cas",
             UNCHANGED <<mems, writerVars, popped>>
      PROVE  ContentInv'
  <2>1. StillThere(r)'
    BY <1>1 DEF StillThere
  <2> QED
    BY <1>1, <2>1, ReaderAway
<1>2. CASE ReadMem(r)
  BY <1>1, <1>2, ReadMemSlot DEF ReadMem, memVars
<1>3. CASE ReadHead(r)
  BY <1>1, <1>3, ReadHeadSlot DEF ReadHead, memVars
<1>4. CASE ReadTail(r)
  BY <1>1, <1>4, ReadTailSlot DEF ReadTail, memVars
<1>5. CASE ReadNext(r)
  BY <1>1, <1>5, ReadNextSlot DEF ReadNext, memVars
<1>6. CASE ReadSwing(r)
  BY <1>1, <1>6, ReadSwingSlot DEF ReadSwing, memVars
<1>7. CASE PeekLoad(r)
  BY <1>1, <1>7, PeekLoadSlot DEF PeekLoad, memVars
<1>8. CASE PopLoad(r)
  <2>1. /\ SlotInv' /\ OtherReaders(r) /\ rpc'[r] = "cas"
        /\ rret'[r] = mems[rmem[r]].array[Slot(rmem[r], rhead[r])]
        /\ UNCHANGED <<rmem, rhead>>
    BY <1>8, PopLoadSlot
  <2>2. UNCHANGED <<mems, writerVars, popped>>
    BY <1>8 DEF PopLoad, memVars
  <2>3. StillThere(r)'
    BY <2>1, <2>2 DEF StillThere, At, Slot
  <2> QED
    BY <2>1, <2>2, <2>3, ReaderAway
<1>9. CASE PopTake(r)
  BY <1>9, TakeKeeps
<1> QED
  BY <1>2, <1>3, <1>4, <1>5, <1>6, <1>7, <1>8, <1>9 DEF ReaderStep

LEMMA ContentInit == Init => ContentInv
<1> SUFFICES ASSUME Init PROVE ContentInv
  OBVIOUS
<1>1. SlotInv
  BY SlotInit
<1>2. Mems = {1} /\ mems[1].head = 0 /\ mems[1].tail_read = 0
  <2>1. NewMem(InitSlots, 0).head = 0 /\ NewMem(InitSlots, 0).tail_read = 0
    BY DEF NewMem
  <2> QED
    BY <2>1 DEF Init, Mems
<1>3. Live = {}
  <2>1. \A m, i : ~ Stowed(m, i)
    BY DEF Init, Stowed
  <2> QED
    BY <1>2, <2>1 DEF Live, Filled
<1>4. Stored \in [Writers -> Int] /\ Held \in [Live -> Items]
  BY <1>3 DEF Init, Stored, Held
<1>5. popped \in Seq(Returned) /\ DOMAIN popped = {}
  BY DEF Init
<1>6. ContentOK(Live, Held, popped, Stored)
  BY <1>3, <1>4, <1>5 DEF ContentOK, Known, Distinct, InOrder
<1>7. \A w \in Writers : OwnItem(w)
  BY DEF Init, OwnItem
<1>8. \A r \in Readers : StillThere(r)
  BY DEF Init, StillThere
<1> QED
  BY <1>1, <1>6, <1>7, <1>8 DEF ContentInv

LEMMA ContentStays == ContentInv /\ UNCHANGED vars => ContentInv'
<1> SUFFICES ASSUME ContentInv, UNCHANGED vars PROVE ContentInv'
  OBVIOUS
<1> USE DEF ContentInv, vars, memVars, writerVars, readerVars
<1>1. SlotInv'
  BY SlotStays
<1>2. Live' = Live /\ Stored' = Stored /\ \A p \in Live : At(p)' = At(p)
  BY DEF Live, Stored, At, Filled, Stowed, Slot, Mems
<1>3. /\ \A w \in Writers : OwnItem(w)'
      /\ \A r \in Readers : StillThere(r)'
  BY DEF OwnItem, StillThere, At, Slot
<1> QED
  BY <1>1, <1>2, <1>3, SameContent

(* What the arrays hold and what was popped, in every reachable state.     *)
THEOREM ContentInvariance == Spec => []ContentInv
<1>1. ASSUME ContentInv, NEW w \in Writers, WriterStep(w) PROVE ContentInv'
  BY <1>1, PushReadMemKeeps, PushReadHeadKeeps, PushReadTailKeeps, PushGrowKeeps,
     PushLinkKeeps, PushTakeSlotKeeps, StoreKeeps, PublishKeeps DEF WriterStep
<1>2. ContentInv /\ [Next]_vars => ContentInv'
  BY <1>1, ReaderKeeps, ContentStays DEF Next
<1> QED
  BY ContentInit, <1>2, PTL DEF Spec

(* gstatomicqueue.c:315-317: a reader whose slot was taken, and even used  *)
(* again, between the load and the exchange starts again.                  *)
THEOREM PoppedOnce == Spec => []NoDuplicates
<1>1. ContentInv => NoDuplicates
  BY DEF ContentInv, ContentOK, Distinct, NoDuplicates
<1> QED
  BY <1>1, ContentInvariance, PTL

(* gstatomicqueue.c:377, 388: the items of a writer leave an array in the  *)
(* order they went in.                                                     *)
THEOREM OrderKept == Spec => []WriterOrder
<1>1. ContentInv => WriterOrder
  BY DEF ContentInv, ContentOK, InOrder, WriterOrder
<1> QED
  BY <1>1, ContentInvariance, PTL
=============================================================================
