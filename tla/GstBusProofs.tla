----------------------------- MODULE GstBusProofs -----------------------------
(***************************************************************************)
(* The safety of GstBus for any number of posters, consumers and messages: *)
(* who owns a message, what a flush leaves behind, and that the tokens     *)
(* always match the messages.                                              *)
(***************************************************************************)
EXTENDS GstBus, FiniteSetTheorems, SequenceTheorems, TLAPS

(* Where a poster has its message still in a local variable, where it      *)
(* waits, or is about to wait, for its delivery, and when it is the only   *)
(* one to have it.                                                         *)
Carrying == {"handler", "push", "send", "ring", "wait", "woken"}
Awaiting == {"send", "ring", "wait", "woken"}
Owning(p) ==
  ppc[p] \in {"handler", "push", "send"} \/ (ppc[p] = "woken" /\ pmsg[p] \notin early)

(* Messages that are allocated, or were freed under those who had them.    *)
Alive == inUse \cup early

OnQueue == ToSet(queue)

NoRepeats(q) == \A i, j \in DOMAIN q : q[i] = q[j] => i = j

PostersOwn ==
  /\ \A p \in Posters : pmsg[p] # None <=> ppc[p] \in Carrying
  /\ \A p, q \in Posters : pmsg[p] # None /\ pmsg[p] = pmsg[q] => p = q
  /\ \A p \in Posters : pmsg[p] # None => pmsg[p] \in inUse
  /\ \A p \in Posters : pmsg[p] \in early => ppc[p] = "woken"
  /\ \A p \in Posters : Owning(p) =>
       /\ pmsg[p] \notin OnQueue
       /\ \A c \in Takers : pmsg[p] # hand[c] /\ pmsg[p] \notin held[c]

(* A message has the ASYNC_DELIVERY flag while its poster waits for it.    *)
AsyncAwaited ==
  \A m \in Messages : m \in async <=> \E p \in Posters : ppc[p] \in Awaiting /\ pmsg[p] = m

QueueOwns ==
  /\ OnQueue \subseteq Alive
  /\ NoRepeats(queue)
  /\ \A c \in Takers : hand[c] \notin OnQueue /\ OnQueue \cap held[c] = {}

TakersOwn ==
  /\ \A c \in Takers : held[c] \subseteq Alive /\ (hand[c] # None => hand[c] \in Alive)
  /\ \A c, d \in Takers : hand[c] # None => hand[c] \notin held[d] /\ (hand[c] = hand[d] => c = d)
  /\ \A c, d \in Takers : c # d => held[c] \cap held[d] = {}

(* While the bus is flushing, nobody gets past the check in gst_bus_post.  *)
LateOnly ==
  flushing =>
    /\ \A p \in Posters : ppc[p] \in {"handler", "push", "send"} => pmsg[p] \in late
    /\ objLock = None => OnQueue \subseteq late

OwnInv == TypeOK /\ PostersOwn /\ AsyncAwaited /\ QueueOwns /\ TakersOwn

-----------------------------------------------------------------------------
(* What a push and a pop do to the messages on the queue.                  *)
LEMMA AppendOne ==
  ASSUME NEW S, NEW q \in Seq(S), NEW m \in S
  PROVE  /\ Append(q, m) \in Seq(S)
         /\ Len(Append(q, m)) = Len(q) + 1
         /\ ToSet(Append(q, m)) = ToSet(q) \cup {m}
         /\ NoRepeats(q) /\ m \notin ToSet(q) => NoRepeats(Append(q, m))
<1>1. /\ Append(q, m) \in Seq(S) /\ Len(q) \in Nat
      /\ DOMAIN q = 1 .. Len(q) /\ DOMAIN Append(q, m) = 1 .. Len(q) + 1
      /\ Len(Append(q, m)) = Len(q) + 1
      /\ \A i \in 1 .. Len(q) : Append(q, m)[i] = q[i]
      /\ Append(q, m)[Len(q) + 1] = m
  OBVIOUS
<1>2. 1 .. Len(q) + 1 = 1 .. Len(q) \cup {Len(q) + 1}
  BY <1>1
<1>3. ToSet(Append(q, m)) = ToSet(q) \cup {m}
  BY <1>1, <1>2 DEF ToSet
<1>4. NoRepeats(q) /\ m \notin ToSet(q) => NoRepeats(Append(q, m))
  BY <1>1, <1>2 DEF ToSet, NoRepeats
<1>5. QED
  BY <1>1, <1>3, <1>4

LEMMA TakeOne ==
  ASSUME NEW S, NEW q \in Seq(S), q # <<>>, NoRepeats(q)
  PROVE  /\ Tail(q) \in Seq(S)
         /\ Len(q) = Len(Tail(q)) + 1
         /\ Head(q) \in S /\ Head(q) \in ToSet(q)
         /\ ToSet(Tail(q)) = ToSet(q) \ {Head(q)}
         /\ NoRepeats(Tail(q))
<1>1. /\ Tail(q) \in Seq(S) /\ Len(q) \in Nat /\ Len(q) > 0
      /\ DOMAIN q = 1 .. Len(q) /\ DOMAIN Tail(q) = 1 .. Len(q) - 1
      /\ Len(Tail(q)) = Len(q) - 1
      /\ Head(q) = q[1]
      /\ \A i \in 1 .. Len(q) - 1 : Tail(q)[i] = q[i + 1]
  BY EmptySeq, HeadTailProperties
<1>2. Head(q) \in S /\ Head(q) \in ToSet(q)
  BY <1>1 DEF ToSet
<1>3. NoRepeats(Tail(q))
  BY <1>1 DEF NoRepeats
<1>4. ASSUME NEW x PROVE x \in ToSet(Tail(q)) <=> x \in ToSet(q) \ {Head(q)}
  <2>1. ASSUME x \in ToSet(Tail(q)) PROVE x \in ToSet(q) \ {Head(q)}
    <3>1. PICK i \in 1 .. Len(q) - 1 : x = q[i + 1]
      BY <1>1, <2>1 DEF ToSet
    <3>2. i + 1 \in 1 .. Len(q) /\ i + 1 # 1
      BY <1>1
    <3>3. QED
      BY <1>1, <3>1, <3>2 DEF ToSet, NoRepeats
  <2>2. ASSUME x \in ToSet(q) \ {Head(q)} PROVE x \in ToSet(Tail(q))
    <3>1. PICK i \in 1 .. Len(q) : x = q[i]
      BY <1>1, <2>2 DEF ToSet
    <3>2. i # 1
      BY <1>1, <2>2, <3>1
    <3>3. i - 1 \in 1 .. Len(q) - 1 /\ Tail(q)[i - 1] = q[i]
      BY <1>1, <3>2
    <3>4. QED
      BY <1>1, <3>1, <3>3 DEF ToSet
  <2>3. QED
    BY <2>1, <2>2
<1>5. QED
  BY <1>1, <1>2, <1>3, <1>4

LEMMA OwnInit == Init => OwnInv
<1> SUFFICES ASSUME Init PROVE OwnInv
  OBVIOUS
<1> USE BusAssumption DEF Init
<1>1. OnQueue = {} /\ NoRepeats(queue) /\ queue \in Seq(Messages)
  BY DEF OnQueue, ToSet, NoRepeats
<1>2. TypeOK
  BY <1>1 DEF TypeOK, PostPCs, TakePCs, Takers
<1>3. PostersOwn /\ AsyncAwaited
  BY DEF PostersOwn, AsyncAwaited, Carrying, Awaiting, Owning
<1>4. QueueOwns /\ TakersOwn
  BY <1>1 DEF QueueOwns, TakersOwn
<1>5. QED
  BY <1>2, <1>3, <1>4 DEF OwnInv

-----------------------------------------------------------------------------
(* The posters.                                                            *)
LEMMA PostOwn ==
  ASSUME OwnInv, NEW p \in Posters, NEW m \in Messages, Post(p, m)
  PROVE  OwnInv'
<1> USE BusAssumption DEF OwnInv, Alive, Post, busVars, takeVars, PosterGoto
<1>1. CASE flushing
  BY <1>1
  DEF TypeOK, PostersOwn, AsyncAwaited, QueueOwns, TakersOwn, OnQueue, Owning
<1>2. CASE ~flushing
  <2>1. /\ ppc' = [ppc EXCEPT ![p] = "handler"]
        /\ pmsg' = [pmsg EXCEPT ![p] = m]
        /\ inUse' = inUse \cup {m}
    BY <1>2
  <2>2. TypeOK'
    BY <2>1 DEF TypeOK, PostPCs
  <2>3. PostersOwn'
    BY <2>1 DEF TypeOK, PostersOwn, QueueOwns, TakersOwn, OnQueue, Carrying, Owning
  <2>4. AsyncAwaited'
    BY <2>1, SMTT(30) DEF TypeOK, AsyncAwaited, Awaiting
  <2>5. QueueOwns' /\ TakersOwn'
    BY <2>1 DEF QueueOwns, TakersOwn, OnQueue
  <2>6. QED
    BY <2>2, <2>3, <2>4, <2>5
<1>3. QED
  BY <1>1, <1>2

LEMMA SyncHandlerOwn ==
  ASSUME OwnInv, NEW p \in Posters, SyncHandler(p)
  PROVE  OwnInv'
<1> USE BusAssumption DEF OwnInv, Alive, busVars, takeVars, PosterGoto
<1>1. /\ ppc[p] = "handler" /\ pmsg[p] \in Messages /\ pmsg[p] \in inUse
      /\ pmsg[p] \notin async
  BY DEF SyncHandler, PostersOwn, AsyncAwaited, Carrying, Awaiting, TypeOK
<1>2. UNCHANGED <<queue, tokens, flushing, objLock, qLock, cpc, hand, noWait, held, early>>
  BY DEF SyncHandler
<1>3. CASE /\ ppc' = [ppc EXCEPT ![p] = "idle"]
           /\ pmsg' = [pmsg EXCEPT ![p] = None]
           /\ inUse' = inUse \ {pmsg[p]}
           /\ late' = late \ {pmsg[p]}
           /\ UNCHANGED async
  <2>1. TypeOK'
    BY <1>1, <1>2, <1>3 DEF TypeOK, PostPCs
  <2>2. PostersOwn'
    BY <1>1, <1>2, <1>3 DEF TypeOK, PostersOwn, OnQueue, Carrying, Owning
  <2>3. AsyncAwaited'
    BY <1>1, <1>2, <1>3 DEF TypeOK, AsyncAwaited, Awaiting
  <2>4. QueueOwns' /\ TakersOwn'
    BY <1>1, <1>2, <1>3 DEF QueueOwns, TakersOwn, OnQueue, PostersOwn, Owning
  <2>5. QED
    BY <2>1, <2>2, <2>3, <2>4
<1>4. CASE /\ ppc' = [ppc EXCEPT ![p] = "push"]
           /\ UNCHANGED <<pmsg, inUse, async, late>>
  <2>1. TypeOK'
    BY <1>1, <1>2, <1>4 DEF TypeOK, PostPCs
  <2>2. PostersOwn'
    BY <1>1, <1>2, <1>4 DEF TypeOK, PostersOwn, OnQueue, Carrying, Owning
  <2>3. AsyncAwaited'
    BY <1>1, <1>2, <1>4 DEF TypeOK, AsyncAwaited, Awaiting
  <2>4. QueueOwns' /\ TakersOwn'
    BY <1>2, <1>4 DEF QueueOwns, TakersOwn, OnQueue
  <2>5. QED
    BY <2>1, <2>2, <2>3, <2>4
<1>5. CASE /\ ppc' = [ppc EXCEPT ![p] = "send"]
           /\ async' = async \cup {pmsg[p]}
           /\ UNCHANGED <<pmsg, inUse, late>>
  <2>1. TypeOK'
    BY <1>1, <1>2, <1>5 DEF TypeOK, PostPCs
  <2>2. PostersOwn'
    BY <1>1, <1>2, <1>5 DEF TypeOK, PostersOwn, OnQueue, Carrying, Owning
  <2>3. AsyncAwaited'
    BY <1>1, <1>2, <1>5 DEF TypeOK, AsyncAwaited, Awaiting
  <2>4. QueueOwns' /\ TakersOwn'
    BY <1>2, <1>5 DEF QueueOwns, TakersOwn, OnQueue
  <2>5. QED
    BY <2>1, <2>2, <2>3, <2>4
<1>6. QED
  <2>1. ppc \in [Posters -> PostPCs]
    BY DEF TypeOK
  <2>2. QED
    BY <1>3, <1>4, <1>5, <2>1 DEF SyncHandler

LEMMA PushOwn ==
  ASSUME OwnInv, NEW p \in Posters, Push(p)
  PROVE  OwnInv'
<1> USE BusAssumption DEF OwnInv, Alive, takeVars, PosterGoto
<1>1. /\ ppc[p] \in {"push", "send"} /\ pmsg[p] \in Messages /\ pmsg[p] \in inUse
      /\ pmsg[p] \notin OnQueue
      /\ \A c \in Takers : pmsg[p] # hand[c] /\ pmsg[p] \notin held[c]
  BY DEF Push, PostersOwn, Carrying, Owning, TypeOK
<1>2. /\ queue' = Append(queue, pmsg[p])
      /\ UNCHANGED <<tokens, flushing, objLock, qLock, inUse, async, cpc, hand, noWait, held, late,
                     early>>
  BY DEF Push
<1>3. /\ queue' \in Seq(Messages)
      /\ OnQueue' = OnQueue \cup {pmsg[p]}
      /\ NoRepeats(queue) => NoRepeats(queue')
  BY <1>1, <1>2, AppendOne DEF TypeOK, OnQueue
<1>4. QueueOwns' /\ TakersOwn'
  BY <1>1, <1>2, <1>3 DEF QueueOwns, TakersOwn
<1>5. CASE /\ ppc[p] = "push"
           /\ ppc' = [ppc EXCEPT ![p] = "write"]
           /\ pmsg' = [pmsg EXCEPT ![p] = None]
  <2>1. TypeOK'
    BY <1>2, <1>3, <1>5 DEF TypeOK, PostPCs
  <2>2. PostersOwn'
    BY <1>1, <1>2, <1>3, <1>5 DEF TypeOK, PostersOwn, Carrying, Owning
  <2>3. AsyncAwaited'
    BY <1>2, <1>5, SMTT(30) DEF TypeOK, AsyncAwaited, Awaiting
  <2>4. QED
    BY <1>4, <2>1, <2>2, <2>3
<1>6. CASE ppc[p] = "send" /\ ppc' = [ppc EXCEPT ![p] = "ring"] /\ UNCHANGED pmsg
  <2>1. TypeOK'
    BY <1>2, <1>3, <1>6 DEF TypeOK, PostPCs
  <2>2. PostersOwn'
    BY <1>1, <1>2, <1>3, <1>6 DEF TypeOK, PostersOwn, Carrying, Owning
  <2>3. AsyncAwaited'
    BY <1>2, <1>6 DEF TypeOK, AsyncAwaited, Awaiting
  <2>4. QED
    BY <1>4, <2>1, <2>2, <2>3
<1>7. QED
  BY <1>5, <1>6 DEF Push

LEMMA WriteOwn ==
  ASSUME OwnInv, NEW p \in Posters, Write(p)
  PROVE  OwnInv'
<1> USE BusAssumption DEF OwnInv, Alive, takeVars, PosterGoto, Write
<1>1. TypeOK'
  BY DEF TypeOK, PostPCs
<1>2. PostersOwn'
  BY DEF TypeOK, PostersOwn, OnQueue, Carrying, Owning
<1>3. AsyncAwaited'
  BY DEF TypeOK, AsyncAwaited, Awaiting
<1>4. QueueOwns' /\ TakersOwn'
  BY DEF QueueOwns, TakersOwn, OnQueue
<1>5. QED
  BY <1>1, <1>2, <1>3, <1>4

LEMMA SpuriousWakeupOwn ==
  ASSUME OwnInv, NEW p \in Posters, SpuriousWakeup(p)
  PROVE  OwnInv'
<1> USE BusAssumption DEF OwnInv, Alive, busVars, takeVars, PosterGoto, SpuriousWakeup
<1>1. pmsg[p] \in Messages
  BY DEF PostersOwn, Carrying, TypeOK
<1>2. TypeOK'
  BY <1>1 DEF TypeOK, PostPCs
<1>3. PostersOwn'
  BY <1>1 DEF TypeOK, PostersOwn, OnQueue, Carrying, Owning
<1>4. AsyncAwaited'
  BY <1>1 DEF TypeOK, AsyncAwaited, Awaiting
<1>5. QueueOwns' /\ TakersOwn'
  BY DEF QueueOwns, TakersOwn, OnQueue
<1>6. QED
  BY <1>2, <1>3, <1>4, <1>5

LEMMA DeliveredOwn ==
  ASSUME OwnInv, NEW p \in Posters, Delivered(p)
  PROVE  OwnInv'
<1> USE BusAssumption DEF OwnInv, Alive, busVars, takeVars, PosterGoto, Delivered
<1>1. /\ pmsg[p] \in Messages /\ pmsg[p] \in inUse
      /\ \/ pmsg[p] \in early
         \/ /\ pmsg[p] \notin OnQueue
            /\ \A c \in Takers : pmsg[p] # hand[c] /\ pmsg[p] \notin held[c]
  BY DEF PostersOwn, Carrying, Owning, TypeOK
<1>2. TypeOK'
  BY DEF TypeOK, PostPCs
<1>3. PostersOwn'
  BY <1>1 DEF TypeOK, PostersOwn, OnQueue, Carrying, Owning
<1>4. AsyncAwaited'
  BY <1>1 DEF TypeOK, AsyncAwaited, Awaiting, PostersOwn
<1>5. QueueOwns'
  BY <1>1 DEF QueueOwns, OnQueue
<1>6. TakersOwn'
  BY <1>1 DEF TakersOwn
<1>7. QED
  BY <1>2, <1>3, <1>4, <1>5, <1>6

-----------------------------------------------------------------------------
(* The takers.                                                             *)

(* The messages on the queue are messages.                                 *)
LEMMA QueueType ==
  ASSUME TypeOK
  PROVE  OnQueue \subseteq Messages /\ None \notin OnQueue
<1>1. \A i \in DOMAIN queue : queue[i] \in Messages
  BY DEF TypeOK
<1>2. QED
  BY <1>1, BusAssumption DEF OnQueue, ToSet

(* The steps of a taker, and of a flush, that move no message.             *)
LEMMA SameOwners ==
  ASSUME OwnInv, UNCHANGED <<queue, inUse, early, async, ppc, pmsg, hand, held>>
  PROVE  PostersOwn' /\ AsyncAwaited' /\ QueueOwns' /\ TakersOwn'
BY DEF OwnInv, PostersOwn, AsyncAwaited, QueueOwns, TakersOwn, OnQueue, Owning, Alive

LEMMA CallOwn ==
  ASSUME OwnInv, NEW c \in Takers, Call(c)
  PROVE  OwnInv'
<1> USE BusAssumption DEF OwnInv, Alive, busVars, postVars, TakerGoto, Call
<1>1. TypeOK'
  BY DEF TypeOK, TakePCs
<1>2. QED
  BY <1>1, SameOwners

LEMMA FlushOwn ==
  ASSUME OwnInv, SetFlushing \/ UnsetFlushing
  PROVE  OwnInv'
<1> USE BusAssumption DEF OwnInv, Alive, postVars, takeVars, TakerGoto
<1>1. CASE SetFlushing
  <2>1. OnTheirWay \subseteq inUse
    BY DEF OnTheirWay, PostersOwn, Carrying
  <2>2. TypeOK'
    BY <1>1, <2>1 DEF SetFlushing, TypeOK, TakePCs, Takers
  <2>3. QED
    BY <1>1, <2>2, SameOwners DEF SetFlushing
<1>2. CASE UnsetFlushing
  <2>1. TypeOK'
    BY <1>2 DEF UnsetFlushing, TypeOK
  <2>2. QED
    BY <1>2, <2>1, SameOwners DEF UnsetFlushing
<1>3. QED
  BY <1>1, <1>2

LEMMA LockOwn ==
  ASSUME OwnInv, NEW c \in Takers, Lock(c)
  PROVE  OwnInv'
<1> USE BusAssumption DEF OwnInv, Alive, postVars, TakerGoto, Lock
<1>1. TypeOK'
  BY DEF TypeOK, TakePCs, Takers
<1>2. QED
  BY <1>1, SameOwners

LEMMA PopOwn ==
  ASSUME OwnInv, NEW c \in Takers, Pop(c)
  PROVE  OwnInv'
<1> USE BusAssumption DEF OwnInv, Alive, postVars, TakerGoto, Pop
<1>1. /\ queue' \in Seq(Messages)
      /\ Head(queue) \in Messages /\ Head(queue) \in OnQueue
      /\ OnQueue' = OnQueue \ {Head(queue)}
      /\ NoRepeats(queue')
  BY TakeOne DEF TypeOK, OnQueue, QueueOwns
<1>2. hand' = [hand EXCEPT ![c] = Head(queue)]
  OBVIOUS
<1>3. TypeOK'
  BY <1>1, <1>2 DEF TypeOK, TakePCs, Takers
<1>4. \A d \in Takers : hand'[d] = IF d = c THEN Head(queue) ELSE hand[d]
  BY <1>2 DEF TypeOK
<1>5. PostersOwn'
  BY <1>1, <1>4 DEF PostersOwn, Owning
<1>6. AsyncAwaited'
  BY DEF AsyncAwaited
<1>7. QueueOwns'
  BY <1>1, <1>4 DEF QueueOwns
<1>8. TakersOwn'
  BY <1>1, <1>4 DEF TakersOwn, QueueOwns
<1>9. QED
  BY <1>3, <1>5, <1>6, <1>7, <1>8

LEMMA ReadControlOwn ==
  ASSUME OwnInv, NEW c \in Takers, ReadControl(c)
  PROVE  OwnInv'
<1> USE BusAssumption DEF OwnInv, Alive, postVars, TakerGoto, ReadControl
<1>1. TypeOK'
  BY DEF TypeOK, TakePCs, Takers
<1>2. QED
  BY <1>1, SameOwners

LEMMA GiveOwn ==
  ASSUME OwnInv, NEW c \in Takers, Give(c)
  PROVE  OwnInv'
<1> USE BusAssumption DEF OwnInv, Alive, postVars, TakerGoto, Give
<1>1. hand[c] # None /\ hand[c] \in Messages
  BY DEF TypeOK
<1>2. TypeOK'
  BY <1>1 DEF TypeOK, TakePCs, Takers
<1>3. /\ \A d \in Takers : hand'[d] = IF d = c THEN None ELSE hand[d]
      /\ \A d \in Takers : held'[d] = IF d = c THEN held[c] \cup {hand[c]} ELSE held[d]
  BY DEF TypeOK
<1>4. PostersOwn'
  BY <1>3, QueueType DEF PostersOwn, Owning, OnQueue, Carrying
<1>5. AsyncAwaited'
  BY DEF AsyncAwaited
<1>6. QueueOwns'
  BY <1>1, <1>3, QueueType DEF QueueOwns, OnQueue
<1>7. TakersOwn'
  BY <1>1, <1>3 DEF TakersOwn
<1>8. QED
  BY <1>2, <1>4, <1>5, <1>6, <1>7

(* A taker drops a message.  It is freed, or goes back to its poster.      *)
LEMMA UnrefOwn ==
  ASSUME OwnInv, NEW m \in Alive, m \notin OnQueue,
         \A p \in Posters : Owning(p) => pmsg[p] # m,
         Unref(m), UNCHANGED <<queue, async, pmsg>>, late' = late \ {m},
         \A c \in Takers : /\ hand'[c] \in {hand[c], None} /\ hand'[c] # m
                           /\ held'[c] \subseteq held[c] /\ m \notin held'[c]
  PROVE  /\ ppc' \in [Posters -> PostPCs]
         /\ inUse' \subseteq Messages /\ early' \subseteq Messages
         /\ async' \subseteq inUse' /\ late' \subseteq Alive'
         /\ PostersOwn' /\ AsyncAwaited' /\ QueueOwns' /\ TakersOwn'
<1> USE BusAssumption DEF OwnInv, Alive, PosterGoto
<1>1. m \in Messages /\ early' = early \ {m}
  BY DEF TypeOK, Alive, Unref
<1>2. CASE m \in async
  <2>1. PICK p \in Posters : /\ pmsg[p] = m /\ ppc[p] \in {"wait", "woken"}
                             /\ ppc' = [ppc EXCEPT ![p] = "woken"]
    BY <1>2 DEF Unref
  <2>2. UNCHANGED inUse
    BY <1>2 DEF Unref
  <2>3. ppc' \in [Posters -> PostPCs]
    BY <2>1 DEF TypeOK, PostPCs
  <2>4. PostersOwn'
    BY <1>1, <2>1, <2>2, QueueType DEF PostersOwn, Owning, Carrying, OnQueue, TypeOK
  <2>5. AsyncAwaited'
    BY <2>1 DEF AsyncAwaited, Awaiting, TypeOK
  <2>6. QueueOwns' /\ TakersOwn'
    BY <1>1, <2>2, QueueType DEF QueueOwns, TakersOwn, OnQueue
  <2>7. QED
    BY <1>1, <2>2, <2>3, <2>4, <2>5, <2>6 DEF TypeOK
<1>3. CASE m \notin async
  <2>1. inUse' = inUse \ {m} /\ UNCHANGED ppc
    BY <1>3 DEF Unref
  <2>2. \A p \in Posters : pmsg[p] # m
    BY <1>1, <1>3 DEF AsyncAwaited, PostersOwn, Carrying, Awaiting, Owning, TypeOK
  <2>3. PostersOwn'
    BY <1>1, <2>1, <2>2, QueueType DEF PostersOwn, Owning, Carrying, OnQueue, TypeOK
  <2>4. AsyncAwaited'
    BY <2>1 DEF AsyncAwaited
  <2>5. QueueOwns' /\ TakersOwn'
    BY <1>1, <2>1, QueueType DEF QueueOwns, TakersOwn, OnQueue
  <2>6. QED
    BY <1>1, <1>3, <2>1, <2>3, <2>4, <2>5 DEF TypeOK
<1>4. QED
  BY <1>2, <1>3

LEMMA DiscardOwn ==
  ASSUME OwnInv, NEW c \in Takers, Discard(c)
  PROVE  OwnInv'
<1> USE BusAssumption DEF OwnInv, Alive, busVars, TakerGoto, Discard
<1>1. /\ hand[c] # None /\ hand[c] \in Alive /\ hand[c] \notin OnQueue
      /\ \A p \in Posters : Owning(p) => pmsg[p] # hand[c]
      /\ \A d \in Takers : hand[c] \notin held[d]
  BY DEF TypeOK, QueueOwns, TakersOwn, PostersOwn
<1>2. \A d \in Takers : hand'[d] \in {hand[d], None} /\ hand'[d] # hand[c]
  BY <1>1 DEF TypeOK, TakersOwn
<1>3. /\ ppc' \in [Posters -> PostPCs]
      /\ inUse' \subseteq Messages /\ early' \subseteq Messages
      /\ async' \subseteq inUse' /\ late' \subseteq Alive'
      /\ PostersOwn' /\ AsyncAwaited' /\ QueueOwns' /\ TakersOwn'
  BY <1>1, <1>2, UnrefOwn
<1>4. TypeOK'
  BY <1>3 DEF TypeOK, TakePCs, Takers
<1>5. QED
  BY <1>3, <1>4

LEMMA EmptyOwn ==
  ASSUME OwnInv, NEW c \in Takers, Empty(c)
  PROVE  OwnInv'
<1> USE BusAssumption DEF OwnInv, Alive, postVars, TakerGoto, Empty
<1>1. TypeOK'
  BY DEF TypeOK, TakePCs, Takers
<1>2. QED
  BY <1>1, SameOwners

LEMMA PollWaitOwn ==
  ASSUME OwnInv, NEW c \in Takers, PollWait(c)
  PROVE  OwnInv'
<1> USE BusAssumption DEF OwnInv, Alive, busVars, postVars, TakerGoto, PollWait
<1>1. TypeOK'
  BY DEF TypeOK, TakePCs, Takers
<1>2. QED
  BY <1>1, SameOwners

LEMMA ReleaseOwn ==
  ASSUME OwnInv, NEW c \in Takers, Release(c)
  PROVE  OwnInv'
<1> USE BusAssumption DEF OwnInv, Alive, busVars, TakerGoto, Release
<1>1. CASE held[c] = {}
  <2>1. TypeOK'
    BY <1>1 DEF TypeOK, TakePCs, Takers
  <2>2. QED
    BY <1>1, <2>1, SameOwners
<1>2. CASE held[c] # {}
  <2>1. PICK m \in held[c] : /\ Unref(m)
                             /\ late' = late \ {m}
                             /\ held' = [held EXCEPT ![c] = @ \ {m}]
                             /\ UNCHANGED cpc
    BY <1>2
  <2>2. /\ m \in Alive /\ m \notin OnQueue
        /\ \A p \in Posters : Owning(p) => pmsg[p] # m
        /\ \A d \in Takers : hand[d] # m
        /\ m # None
    BY DEF QueueOwns, TakersOwn, PostersOwn, TypeOK
  <2>3. \A d \in Takers : held'[d] \subseteq held[d] /\ m \notin held'[d]
    BY <2>1 DEF TypeOK, TakersOwn
  <2>4. /\ ppc' \in [Posters -> PostPCs]
        /\ inUse' \subseteq Messages /\ early' \subseteq Messages
        /\ async' \subseteq inUse' /\ late' \subseteq Alive'
        /\ PostersOwn' /\ AsyncAwaited' /\ QueueOwns' /\ TakersOwn'
    BY <2>1, <2>2, <2>3, UnrefOwn
  <2>5. TypeOK'
    BY <2>1, <2>4 DEF TypeOK
  <2>6. QED
    BY <2>4, <2>5
<1>3. QED
  BY <1>1, <1>2

LEMMA OwnNext == OwnInv /\ [Next]_vars => OwnInv'
<1> SUFFICES ASSUME OwnInv, [Next]_vars PROVE OwnInv'
  OBVIOUS
<1>1. ASSUME NEW p \in Posters, PosterStep(p) PROVE OwnInv'
  BY <1>1, SyncHandlerOwn, PushOwn, WriteOwn, DeliveredOwn DEF PosterStep
<1>2. ASSUME NEW c \in Takers, TakerStep(c) PROVE OwnInv'
  BY <1>2, LockOwn, PopOwn, ReadControlOwn, GiveOwn, DiscardOwn, EmptyOwn, PollWaitOwn,
     ReleaseOwn
  DEF TakerStep
<1>3. ASSUME UNCHANGED vars PROVE OwnInv'
  <2>1. TypeOK'
    BY <1>3 DEF vars, busVars, postVars, takeVars, OwnInv, TypeOK
  <2>2. QED
    BY <1>3, <2>1, SameOwners DEF vars, busVars, postVars, takeVars, OwnInv
<1>4. QED
  BY <1>1, <1>2, <1>3, PostOwn, SpuriousWakeupOwn, CallOwn, FlushOwn DEF Next, Takers

-----------------------------------------------------------------------------
(* What a flush leaves behind.                                             *)
LEMMA LateNext ==
  ASSUME OwnInv, LateOnly, [Next]_vars
  PROVE  LateOnly'
<1> USE BusAssumption DEF OwnInv
<1>1. ASSUME UNCHANGED <<flushing, ppc, pmsg, late, objLock, queue>> PROVE LateOnly'
  BY <1>1 DEF LateOnly, OnQueue
<1>2. ASSUME NEW p \in Posters, NEW m \in Messages, Post(p, m) PROVE LateOnly'
  BY <1>2 DEF Post, LateOnly, busVars, OnQueue
<1>3. ASSUME NEW p \in Posters, SyncHandler(p) PROVE LateOnly'
  <2>1. /\ ppc[p] = "handler" /\ pmsg[p] # None /\ pmsg[p] \notin OnQueue
        /\ UNCHANGED <<flushing, objLock, queue>>
        /\ \A q \in Posters \ {p} :
             ppc'[q] = ppc[q] /\ pmsg'[q] = pmsg[q] /\ (pmsg[q] # None => pmsg[q] # pmsg[p])
    BY <1>3 DEF SyncHandler, PosterGoto, busVars, TypeOK, PostersOwn, Carrying, Owning
  <2>2. late' = late \/ (ppc'[p] = "idle" /\ late' = late \ {pmsg[p]})
    BY <1>3 DEF SyncHandler
  <2>3. ppc'[p] # "idle" => pmsg'[p] = pmsg[p]
    BY <1>3 DEF SyncHandler, PosterGoto, TypeOK
  <2>4. \A q \in Posters : ppc[q] \in Carrying => pmsg[q] # None
    BY DEF PostersOwn
  <2>5. QED
    BY <2>1, <2>2, <2>3, <2>4 DEF LateOnly, OnQueue, Carrying
<1>4. ASSUME NEW p \in Posters, Push(p) PROVE LateOnly'
  <2>1. /\ ppc[p] \in {"push", "send"} /\ pmsg[p] \in Messages
        /\ queue' = Append(queue, pmsg[p]) /\ UNCHANGED <<flushing, objLock, late>>
    BY <1>4 DEF Push, TypeOK, PostersOwn, Carrying
  <2>2. OnQueue' = OnQueue \cup {pmsg[p]}
    BY <2>1, AppendOne DEF TypeOK, OnQueue
  <2>3. \A q \in Posters : ppc'[q] \in {"handler", "push", "send"} =>
          ppc'[q] = ppc[q] /\ pmsg'[q] = pmsg[q]
    BY <1>4 DEF Push, PosterGoto, TypeOK
  <2>4. QED
    BY <2>1, <2>2, <2>3 DEF LateOnly
<1>5. ASSUME NEW p \in Posters, Write(p) PROVE LateOnly'
  BY <1>5 DEF Write, PosterGoto, TypeOK, LateOnly, OnQueue
<1>6. ASSUME NEW p \in Posters, Delivered(p) PROVE LateOnly'
  <2>1. /\ pmsg[p] # None /\ UNCHANGED <<flushing, objLock, queue>>
        /\ late' = late \/ (pmsg[p] \notin OnQueue /\ late' = late \ {pmsg[p]})
    BY <1>6 DEF Delivered, busVars, PostersOwn, Carrying, Owning
  <2>2. \A q \in Posters : ppc'[q] \in {"handler", "push", "send"} =>
          ppc'[q] = ppc[q] /\ pmsg'[q] = pmsg[q] /\ pmsg[q] # pmsg[p]
    BY <1>6, <2>1 DEF Delivered, PosterGoto, TypeOK, PostersOwn
  <2>3. QED
    BY <2>1, <2>2 DEF LateOnly, OnQueue
<1>7. ASSUME SetFlushing PROVE LateOnly'
  BY <1>7 DEF SetFlushing, OnTheirWay, LateOnly, postVars
<1>8. ASSUME UnsetFlushing PROVE LateOnly'
  BY <1>8 DEF UnsetFlushing, LateOnly
<1>9. ASSUME NEW c \in Takers, Pop(c) PROVE LateOnly'
  <2>1. OnQueue' \subseteq OnQueue
    BY <1>9, TakeOne DEF Pop, TypeOK, OnQueue, QueueOwns
  <2>2. QED
    BY <1>9, <2>1 DEF Pop, LateOnly, postVars
<1>10. ASSUME NEW c \in Takers, Empty(c) PROVE LateOnly'
  <2>1. OnQueue = {}
    BY <1>10 DEF Empty, OnQueue, ToSet
  <2>2. QED
    BY <1>10, <2>1 DEF Empty, LateOnly, postVars, OnQueue
<1>11. ASSUME NEW m, m \notin OnQueue, \A p \in Posters : Owning(p) => pmsg[p] # m,
              Unref(m), late' = late \ {m}, UNCHANGED <<busVars, pmsg>>
       PROVE LateOnly'
  <2>1. \A p \in Posters : ppc'[p] \in {"handler", "push", "send"} => ppc'[p] = ppc[p]
    BY <1>11 DEF Unref, PosterGoto, TypeOK
  <2>2. QED
    BY <1>11, <2>1 DEF LateOnly, busVars, OnQueue, Owning
<1>12. ASSUME NEW c \in Takers, Discard(c) PROVE LateOnly'
  BY <1>11, <1>12 DEF Discard, TypeOK, QueueOwns, PostersOwn
<1>13. ASSUME NEW c \in Takers, Release(c) PROVE LateOnly'
  <2>1. CASE held[c] = {}
    BY <1>1, <1>13, <2>1 DEF Release, busVars
  <2>2. CASE held[c] # {}
    <3>1. PICK m \in held[c] : Unref(m) /\ late' = late \ {m}
      BY <1>13, <2>2 DEF Release
    <3>2. m \notin OnQueue /\ \A p \in Posters : Owning(p) => pmsg[p] # m
      BY DEF QueueOwns, PostersOwn
    <3>3. QED
      BY <1>11, <1>13, <3>1, <3>2 DEF Release
  <2>3. QED
    BY <2>1, <2>2
<1>14. ASSUME NEW c \in Takers, Call(c) \/ Lock(c) \/ ReadControl(c) \/ Give(c) \/ PollWait(c)
       PROVE LateOnly'
  BY <1>1, <1>14 DEF Call, Lock, ReadControl, Give, PollWait, busVars, postVars
<1>15. ASSUME UNCHANGED vars PROVE LateOnly'
  BY <1>1, <1>15 DEF vars, busVars, postVars
<1>16. ASSUME NEW p \in Posters, SpuriousWakeup(p) PROVE LateOnly'
  BY <1>16 DEF SpuriousWakeup, PosterGoto, TypeOK, LateOnly, OnQueue, busVars
<1>17. QED
  BY <1>2, <1>3, <1>4, <1>5, <1>6, <1>7, <1>8, <1>9, <1>10, <1>12, <1>13, <1>14, <1>15,
     <1>16
  DEF Next, PosterStep, TakerStep, Takers

-----------------------------------------------------------------------------
(* A set of which all members are the same has at most one.                *)
LEMMA AtMostOne ==
  ASSUME NEW S, \A x, y \in S : x = y
  PROVE  \/ S = {} /\ Cardinality(S) = 0
         \/ S # {} /\ Cardinality(S) = 1
<1>1. CASE S = {}
  BY <1>1, FS_EmptySet
<1>2. CASE S # {}
  <2>1. PICK x : S = {x}
    BY <1>2
  <2>2. QED
    BY <1>2, <2>1, FS_Singleton
<1>3. QED
  BY <1>1, <1>2

LEMMA OwnerIsOne == OwnInv => OneOwner
<1> SUFFICES ASSUME OwnInv, NEW m \in Messages
             PROVE  Cardinality({p \in Posters : ppc[p] \in {"handler", "push", "send"}
                                                 /\ pmsg[p] = m})
                    + Cardinality({i \in DOMAIN queue : queue[i] = m})
                    + Cardinality({c \in Takers : hand[c] = m})
                    + Cardinality({c \in Takers : m \in held[c]})
                    <= IF m \in Alive THEN 1 ELSE 0
  BY DEF OneOwner, Alive
<1> DEFINE P == {p \in Posters : ppc[p] \in {"handler", "push", "send"} /\ pmsg[p] = m}
           Q == {i \in DOMAIN queue : queue[i] = m}
           H == {c \in Takers : hand[c] = m}
           G == {c \in Takers : m \in held[c]}
<1> USE DEF OwnInv
<1>1. m # None
  BY BusAssumption
<1>2. /\ \A x, y \in P : x = y
      /\ \A x, y \in Q : x = y
      /\ \A x, y \in H : x = y
      /\ \A x, y \in G : x = y
  BY <1>1 DEF PostersOwn, QueueOwns, TakersOwn, NoRepeats
<1>3. Q # {} => m \in OnQueue
  BY DEF OnQueue, ToSet
<1>4. /\ P # {} => m \in Alive /\ Q = {} /\ H = {} /\ G = {}
      /\ Q # {} => m \in Alive /\ H = {} /\ G = {}
      /\ H # {} => m \in Alive /\ G = {}
      /\ G # {} => m \in Alive
  BY <1>1, <1>3 DEF PostersOwn, QueueOwns, TakersOwn, Carrying, Owning, Alive
<1> HIDE DEF P, Q, H, G
<1>5. Cardinality(P) + Cardinality(Q) + Cardinality(H) + Cardinality(G)
        <= IF m \in Alive THEN 1 ELSE 0
  <2>1. (P = {} /\ Cardinality(P) = 0) \/ (P # {} /\ Cardinality(P) = 1)
    BY <1>2, AtMostOne
  <2>2. (Q = {} /\ Cardinality(Q) = 0) \/ (Q # {} /\ Cardinality(Q) = 1)
    BY <1>2, AtMostOne
  <2>3. (H = {} /\ Cardinality(H) = 0) \/ (H # {} /\ Cardinality(H) = 1)
    BY <1>2, AtMostOne
  <2>4. (G = {} /\ Cardinality(G) = 0) \/ (G # {} /\ Cardinality(G) = 1)
    BY <1>2, AtMostOne
  <2>5. QED
    BY <1>4, <2>1, <2>2, <2>3, <2>4
<1>6. QED
  BY <1>5 DEF P, Q, H, G

-----------------------------------------------------------------------------
(* One token for each message that waits.                                  *)
Writing == {p \in Posters : ppc[p] \in {"write", "ring"}}
Reading == {c \in Takers : cpc[c] = "token"}

LEMMA Counted ==
  /\ \A S \in SUBSET Posters : IsFiniteSet(S) /\ Cardinality(S) \in Nat
  /\ \A S \in SUBSET Takers : IsFiniteSet(S) /\ Cardinality(S) \in Nat
<1>1. IsFiniteSet(Posters) /\ IsFiniteSet(Takers)
  BY BusAssumption, FS_AddElement DEF Takers
<1>2. QED
  BY <1>1, FS_Subset, FS_CardinalityType

LEMMA Balance ==
  TokenBalance <=> tokens + Cardinality(Writing) = Len(queue) + Cardinality(Reading)
BY DEF TokenBalance, Writing, Reading

LEMMA SameBalance ==
  ASSUME TokenBalance, UNCHANGED <<tokens, queue>>, Writing' = Writing, Reading' = Reading
  PROVE  TokenBalance'
<1>1. tokens' + Cardinality(Writing') = Len(queue') + Cardinality(Reading')
  BY Balance
<1>2. QED
  BY <1>1 DEF TokenBalance, Writing, Reading

LEMMA BalanceNext ==
  ASSUME OwnInv, TokenBalance, [Next]_vars
  PROVE  TokenBalance'
<1> USE DEF OwnInv
<1>1. /\ Cardinality(Writing) \in Nat /\ IsFiniteSet(Writing)
      /\ Cardinality(Reading) \in Nat /\ IsFiniteSet(Reading)
      /\ tokens \in Nat /\ Len(queue) \in Nat
      /\ tokens + Cardinality(Writing) = Len(queue) + Cardinality(Reading)
  BY Counted, Balance DEF Writing, Reading, TypeOK
<1>2. ASSUME NEW p \in Posters, Push(p) PROVE TokenBalance'
  <2>1. pmsg[p] \in Messages /\ queue' = Append(queue, pmsg[p]) /\ UNCHANGED <<tokens, cpc>>
    BY <1>2 DEF Push, TypeOK, PostersOwn, Carrying, takeVars
  <2>2. Len(queue') = Len(queue) + 1
    BY <2>1, AppendOne DEF TypeOK
  <2>3. Writing' = Writing \cup {p} /\ p \notin Writing /\ Reading' = Reading
    BY <1>2, <2>1 DEF Push, PosterGoto, TypeOK, Writing, Reading
  <2>4. Cardinality(Writing') = Cardinality(Writing) + 1
    BY <1>1, <2>3, FS_AddElement
  <2>5. tokens' = tokens /\ Cardinality(Reading') = Cardinality(Reading)
    BY <2>1, <2>3
  <2>6. tokens' + Cardinality(Writing') = Len(queue') + Cardinality(Reading')
    BY <1>1, <2>2, <2>4, <2>5
  <2>7. QED
    BY <2>6 DEF TokenBalance, Writing, Reading
<1>3. ASSUME NEW p \in Posters, Write(p) PROVE TokenBalance'
  <2>1. Writing' = Writing \ {p} /\ p \in Writing /\ Reading' = Reading
    BY <1>3 DEF Write, PosterGoto, TypeOK, Writing, Reading, takeVars
  <2>2. Cardinality(Writing') = Cardinality(Writing) - 1
    BY <1>1, <2>1, FS_RemoveElement
  <2>3. tokens' + Cardinality(Writing') = Len(queue') + Cardinality(Reading')
    BY <1>1, <1>3, <2>1, <2>2 DEF Write
  <2>4. QED
    BY <2>3 DEF TokenBalance, Writing, Reading
<1>4. ASSUME NEW c \in Takers, Pop(c) PROVE TokenBalance'
  <2>1. Len(queue) = Len(queue') + 1 /\ Len(queue') \in Nat
    BY <1>4, TakeOne DEF Pop, TypeOK, QueueOwns
  <2>2. Reading' = Reading \cup {c} /\ c \notin Reading /\ Writing' = Writing
    BY <1>4 DEF Pop, TakerGoto, TypeOK, Writing, Reading, postVars
  <2>3. Cardinality(Reading') = Cardinality(Reading) + 1
    BY <1>1, <2>2, FS_AddElement
  <2>4. tokens' + Cardinality(Writing') = Len(queue') + Cardinality(Reading')
    BY <1>1, <1>4, <2>1, <2>2, <2>3 DEF Pop
  <2>5. QED
    BY <2>4 DEF TokenBalance, Writing, Reading
<1>5. ASSUME NEW c \in Takers, ReadControl(c) PROVE TokenBalance'
  <2>1. Reading' = Reading \ {c} /\ c \in Reading /\ Writing' = Writing
    BY <1>5 DEF ReadControl, TakerGoto, TypeOK, Writing, Reading, postVars
  <2>2. Cardinality(Reading') = Cardinality(Reading) - 1
    BY <1>1, <2>1, FS_RemoveElement
  <2>3. tokens' + Cardinality(Writing') = Len(queue') + Cardinality(Reading')
    BY <1>1, <1>5, <2>1, <2>2 DEF ReadControl
  <2>4. QED
    BY <2>3 DEF TokenBalance, Writing, Reading
<1>6. ASSUME NEW p \in Posters,
             (\E m \in Messages : Post(p, m)) \/ SyncHandler(p) \/ Delivered(p) \/ SpuriousWakeup(p)
      PROVE TokenBalance'
  <2>1. UNCHANGED <<tokens, queue, cpc>>
    BY <1>6 DEF Post, SyncHandler, Delivered, SpuriousWakeup, busVars, takeVars
  <2>2. \A q \in Posters :
          ppc'[q] \in {"write", "ring"} <=> ppc[q] \in {"write", "ring"}
    BY <1>6 DEF Post, SyncHandler, Delivered, SpuriousWakeup, PosterGoto, TypeOK
  <2>3. QED
    BY <2>1, <2>2, SameBalance DEF Writing, Reading
<1>7. ASSUME NEW c \in Takers, Discard(c) \/ Release(c) PROVE TokenBalance'
  <2>1. UNCHANGED <<tokens, queue>>
    BY <1>7 DEF Discard, Release, busVars
  <2>2. \A q \in Posters :
          ppc'[q] \in {"write", "ring"} <=> ppc[q] \in {"write", "ring"}
    BY <1>7 DEF Discard, Release, Unref, PosterGoto, TypeOK
  <2>3. \A d \in Takers : cpc'[d] = "token" <=> cpc[d] = "token"
    BY <1>7 DEF Discard, Release, TakerGoto, TypeOK
  <2>4. QED
    BY <2>1, <2>2, <2>3, SameBalance DEF Writing, Reading
<1>8. ASSUME NEW c \in Takers, Call(c) \/ Lock(c) \/ Give(c) \/ Empty(c) \/ PollWait(c)
      PROVE TokenBalance'
  <2>1. UNCHANGED <<tokens, queue, ppc>>
    BY <1>8 DEF Call, Lock, Give, Empty, PollWait, busVars, postVars
  <2>2. \A d \in Takers : cpc'[d] = "token" <=> cpc[d] = "token"
    BY <1>8 DEF Call, Lock, Give, Empty, PollWait, TakerGoto, TypeOK
  <2>3. QED
    BY <2>1, <2>2, SameBalance DEF Writing, Reading
<1>9. ASSUME SetFlushing \/ UnsetFlushing PROVE TokenBalance'
  <2>1. UNCHANGED <<tokens, queue, ppc>>
    BY <1>9 DEF SetFlushing, UnsetFlushing, postVars
  <2>2. \A d \in Takers : cpc'[d] = "token" <=> cpc[d] = "token"
    BY <1>9 DEF SetFlushing, UnsetFlushing, TakerGoto, TypeOK, takeVars
  <2>3. QED
    BY <2>1, <2>2, SameBalance DEF Writing, Reading
<1>10. ASSUME UNCHANGED vars PROVE TokenBalance'
  BY <1>10, SameBalance DEF vars, busVars, postVars, takeVars, Writing, Reading
<1>11. QED
  BY <1>2, <1>3, <1>4, <1>5, <1>6, <1>7, <1>8, <1>9, <1>10
  DEF Next, PosterStep, TakerStep, Takers

-----------------------------------------------------------------------------
LEMMA BusInit == Init => OwnInv /\ LateOnly /\ TokenBalance
<1> SUFFICES ASSUME Init PROVE LateOnly /\ TokenBalance
  BY OwnInit
<1>1. LateOnly
  BY DEF Init, LateOnly
<1>2. Writing = {} /\ Reading = {} /\ tokens = 0 /\ Len(queue) = 0
  BY DEF Init, Writing, Reading
<1>3. QED
  BY <1>1, <1>2, Balance, FS_EmptySet

(* Who owns each message, what is late and how many tokens there are, in   *)
(* every reachable state of gstbus.c.                                      *)
THEOREM BusInvariance == Spec => [](OwnInv /\ LateOnly /\ TokenBalance)
<1>1. OwnInv /\ LateOnly /\ TokenBalance /\ [Next]_vars => (OwnInv /\ LateOnly /\ TokenBalance)'
  BY OwnNext, LateNext, BalanceNext
<1>2. QED
  BY <1>1, BusInit, PTL DEF Spec

(* The variables keep their types, and queue_lock is held by the taker     *)
(* that looks at a message (gstbus.c:532-600).                             *)
THEOREM BusTypes == Spec => []TypeOK
BY BusInvariance, PTL DEF OwnInv

(* gstbus.c:375-422, 540-575: no message is given to two callers, kept by  *)
(* its poster and by a taker, or freed while it is queued or with a taker, *)
(* except by a poster whose wait (410) returned without a signal.          *)
THEOREM OwnedOnce == Spec => []OneOwner
BY BusInvariance, OwnerIsOne, PTL

(* gstbus.c:478-489: what is on a bus that was flushed, and is flushing,   *)
(* had passed the check in gst_bus_post when the flush began.              *)
THEOREM FlushIsThorough == Spec => []FlushLeavesOnlyLate
<1>1. LateOnly => FlushLeavesOnlyLate
  BY DEF LateOnly, FlushLeavesOnlyLate, OnQueue
<1>2. QED
  BY <1>1, BusInvariance, PTL

(* gstbus.c:388, 411, 542: a main loop that sleeps on the poll of the bus  *)
(* misses no message, and is not woken for ever by a token without one.    *)
THEOREM TokensMatch == Spec => []TokenBalance
BY BusInvariance, PTL
=============================================================================
