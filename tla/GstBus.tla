------------------------------- MODULE GstBus --------------------------------
(***************************************************************************)
(* gstreamer/gst/gstbus.c: threads of the pipeline post messages, threads  *)
(* of the application pop them, and the bus can be flushed.  Messages wait *)
(* in an atomic queue, and for each of them a token waits in a GstPoll, so *)
(* that a main loop can sleep on it.  A step is one access to the queue,   *)
(* to the poll or to a lock, or one critical section.                      *)
(*                                                                         *)
(* The queue is taken at its word, a FIFO with atomic push and pop; what   *)
(* that word is worth is the subject of GstAtomicQueue.                    *)
(*                                                                         *)
(* The poster of an asynchronous delivery waits with a single g_cond_wait  *)
(* (410) that nothing repeats.  When it returns unsignalled, the poster    *)
(* frees a message that the bus or a taker still has; the memory is then   *)
(* taken to stay as it is until they have dropped it too.                  *)
(***************************************************************************)
EXTENDS Naturals, Sequences, FiniteSets, SequencesExt

CONSTANTS
  Posters,       \* threads that call gst_bus_post
  Consumers,     \* threads that call gst_bus_timed_pop_filtered
  Flusher,       \* the thread that calls gst_bus_set_flushing
  Messages,      \* memory of the messages; a freed one is allocated again
  Wanted,        \* the messages of the types the consumers ask for
  None           \* no thread, no message

ASSUME BusAssumption ==
  /\ Wanted \subseteq Messages
  /\ Flusher \notin Consumers
  /\ None \notin Posters \cup Consumers \cup Messages \cup {Flusher}
  /\ IsFiniteSet(Posters) /\ IsFiniteSet(Consumers)

Takers == Consumers \cup {Flusher}

VARIABLES
  queue, tokens,   \* bus->priv->queue and the control count of its poll
  flushing,        \* GST_BUS_FLUSHING
  objLock, qLock,  \* holders of the OBJECT_LOCK, when kept, and queue_lock
  inUse,           \* allocated messages
  async,           \* messages with GST_MESSAGE_FLAG_ASYNC_DELIVERY
  ppc, pmsg,       \* of a poster: where it is, its message
  cpc, hand,       \* of a taker: where it is, the message it looks at
  noWait,          \* takers whose timeout is 0
  held,            \* messages a taker has been given and not unreffed
  early,           \* history: messages that somebody has, and whose poster
                   \* has stopped waiting for them without a signal
  late             \* history: messages on their way when a flush began

busVars == <<queue, tokens, flushing, objLock, qLock>>
postVars == <<ppc, pmsg>>
takeVars == <<cpc, hand, noWait, held>>
vars == <<busVars, inUse, async, postVars, takeVars, early, late>>

\* "handler" 357  "push", "write" of GST_BUS_PASS  "send", "ring", "wait" of
\* GST_BUS_ASYNC: push, write and wait with the message's lock  "woken" 412
PostPCs == {"idle", "handler", "push", "write", "send", "ring", "wait",
            "woken"}
\* "lock" 532 and 600  "pop" 540  "token" 542  "match" 562  "poll" 599
\* "done" after 612, in set_flushing after 496
TakePCs == {"idle", "lock", "pop", "token", "match", "poll", "done"}

Init ==
  /\ queue = <<>> /\ tokens = 0 /\ flushing = FALSE
  /\ objLock = None /\ qLock = None
  /\ inUse = {} /\ async = {} /\ early = {} /\ late = {}
  /\ ppc = [p \in Posters |-> "idle"] /\ pmsg = [p \in Posters |-> None]
  /\ cpc = [c \in Takers |-> "idle"] /\ hand = [c \in Takers |-> None]
  /\ noWait = {} /\ held = [c \in Takers |-> {}]

PosterGoto(p, pc) == ppc' = [ppc EXCEPT ![p] = pc]
TakerGoto(c, pc) == cpc' = [cpc EXCEPT ![c] = pc]

(* Mutant: the poster is not told.                                         *)
UnrefQuietly(m) ==
  /\ inUse' = IF m \in async THEN inUse ELSE inUse \ {m}
  /\ early' = early \ {m}
  /\ UNCHANGED ppc

(* The last reference is dropped.  A message of an asynchronous delivery   *)
(* is revived and its poster signalled, under the message's lock, which    *)
(* the poster keeps until it waits (_gst_message_dispose).                 *)
Unref(m) ==
  /\ IF m \in async
     THEN /\ \E p \in Posters :
               /\ pmsg[p] = m /\ ppc[p] \in {"wait", "woken"}
               /\ PosterGoto(p, "woken")
          /\ UNCHANGED inUse
     ELSE inUse' = inUse \ {m} /\ UNCHANGED ppc
  /\ early' = early \ {m}

-----------------------------------------------------------------------------
(* Mutant: a flushing bus takes messages.                                  *)
PostAlways(p, m) ==
  /\ ppc[p] = "idle" /\ m \notin inUse \cup early
  /\ objLock = None
  /\ PosterGoto(p, "handler")
  /\ pmsg' = [pmsg EXCEPT ![p] = m]
  /\ inUse' = inUse \cup {m}
  /\ UNCHANGED <<busVars, async, takeVars, late, early>>

(* 345-355: post, unless the bus is flushing.                              *)
Post(p, m) ==
  /\ ppc[p] = "idle" /\ m \notin inUse \cup early
  /\ objLock = None
  /\ IF flushing THEN UNCHANGED <<ppc, pmsg, inUse>>
     ELSE /\ PosterGoto(p, "handler")
          /\ pmsg' = [pmsg EXCEPT ![p] = m]
          /\ inUse' = inUse \cup {m}
  /\ UNCHANGED <<busVars, async, takeVars, late, early>>

(* Mutant: a dropped message falls through to the asynchronous queue.      *)
SyncHandlerFallsThrough(p) ==
  /\ ppc[p] = "handler"
  /\ PosterGoto(p, "push")
  /\ inUse' \in {inUse, inUse \ {pmsg[p]}}
  /\ UNCHANGED <<busVars, takeVars, pmsg, async, late, early>>

(* 355-400: the sync handler, outside all locks, drops the        *)
(* message, passes it on, or asks for its delivery to be waited for.       *)
SyncHandler(p) ==
  /\ ppc[p] = "handler"
  /\ \/ /\ PosterGoto(p, "idle")
        /\ pmsg' = [pmsg EXCEPT ![p] = None]
        /\ inUse' = inUse \ {pmsg[p]}
        /\ UNCHANGED async
     \/ PosterGoto(p, "push") /\ UNCHANGED <<pmsg, inUse, async>>
     \/ /\ PosterGoto(p, "send")
        /\ async' = async \cup {pmsg[p]}
        /\ UNCHANGED <<pmsg, inUse>>
  /\ late' = IF ppc'[p] = "idle" THEN late \ {pmsg[p]} ELSE late
  /\ UNCHANGED <<busVars, takeVars, early>>

(* The message is pushed; one that is not waited for is the bus's now.     *)
Push(p) ==
  /\ \/ /\ ppc[p] = "push"
        /\ PosterGoto(p, "write")
        /\ pmsg' = [pmsg EXCEPT ![p] = None]
     \/ ppc[p] = "send" /\ PosterGoto(p, "ring") /\ UNCHANGED pmsg
  /\ queue' = Append(queue, pmsg[p])
  /\ UNCHANGED <<tokens, flushing, objLock, qLock, inUse, async, takeVars,
                 late, early>>

(* Mutant: no token is written for a message that is waited for.           *)
WriteForgets(p) ==
  /\ \/ /\ ppc[p] = "write" /\ PosterGoto(p, "idle")
        /\ tokens' = tokens + 1
     \/ ppc[p] = "ring" /\ PosterGoto(p, "wait") /\ UNCHANGED tokens
  /\ UNCHANGED <<queue, flushing, objLock, qLock, inUse, async, pmsg,
                 takeVars, late, early>>

(* The token is written; a poster of an asynchronous delivery then waits   *)
(* for the message to be freed.                                            *)
Write(p) ==
  /\ \/ ppc[p] = "write" /\ PosterGoto(p, "idle")
     \/ ppc[p] = "ring" /\ PosterGoto(p, "wait")
  /\ tokens' = tokens + 1
  /\ UNCHANGED <<queue, flushing, objLock, qLock, inUse, async, pmsg,
                 takeVars, late, early>>

(* 410: the wait may also return without a signal.                         *)
SpuriousWakeup(p) ==
  /\ ppc[p] = "wait"
  /\ PosterGoto(p, "woken")
  /\ early' = early \cup {pmsg[p]}
  /\ UNCHANGED <<busVars, inUse, async, pmsg, takeVars, late>>

(* 412-422: the poster takes the message to be its own again and frees it. *)
Delivered(p) ==
  /\ ppc[p] = "woken"
  /\ async' = async \ {pmsg[p]}
  /\ inUse' = inUse \ {pmsg[p]}
  /\ late' = IF pmsg[p] \in early THEN late ELSE late \ {pmsg[p]}
  /\ pmsg' = [pmsg EXCEPT ![p] = None]
  /\ PosterGoto(p, "idle")
  /\ UNCHANGED <<busVars, takeVars, early>>

-----------------------------------------------------------------------------
(* gst_bus_timed_pop_filtered is called, with a timeout or without.        *)
Call(c) ==
  /\ c \in Consumers /\ cpc[c] = "idle"
  /\ noWait' \in {noWait \cup {c}, noWait \ {c}}
  /\ TakerGoto(c, "lock")
  /\ UNCHANGED <<busVars, inUse, async, postVars, hand, held, late, early>>

OnTheirWay == {pmsg[p] : p \in {q \in Posters :
                           ppc[q] \in {"handler", "push", "send"}}}

(* 482-489: the bus is flushing, and is emptied under the OBJECT_LOCK.     *)
SetFlushing ==
  /\ cpc[Flusher] = "idle" /\ objLock = None
  /\ flushing' = TRUE
  /\ objLock' = Flusher
  /\ noWait' = noWait \cup {Flusher}
  /\ late' = IF flushing THEN late ELSE OnTheirWay
  /\ TakerGoto(Flusher, "lock")
  /\ UNCHANGED <<queue, tokens, qLock, inUse, async, postVars, hand, held, early>>

(* 491-496: the bus takes messages again.                                  *)
UnsetFlushing ==
  /\ cpc[Flusher] = "idle" /\ objLock = None
  /\ flushing' = FALSE
  /\ late' = {}
  /\ UNCHANGED <<queue, tokens, objLock, qLock, inUse, async, postVars,
                 takeVars, early>>

Lock(c) ==
  /\ cpc[c] = "lock" /\ qLock = None
  /\ qLock' = c
  /\ TakerGoto(c, "pop")
  /\ UNCHANGED <<queue, tokens, flushing, objLock, inUse, async, postVars,
                 hand, noWait, held, late, early>>

Pop(c) ==
  /\ cpc[c] = "pop" /\ queue # <<>>
  /\ hand' = [hand EXCEPT ![c] = Head(queue)]
  /\ queue' = Tail(queue)
  /\ TakerGoto(c, "token")
  /\ UNCHANGED <<tokens, flushing, objLock, qLock, inUse, async, postVars,
                 noWait, held, late, early>>

(* 542-557: the token of the message is taken, once it has been written.   *)
ReadControl(c) ==
  /\ cpc[c] = "token" /\ tokens > 0
  /\ tokens' = tokens - 1
  /\ TakerGoto(c, "match")
  /\ UNCHANGED <<queue, flushing, objLock, qLock, inUse, async, postVars,
                 hand, noWait, held, late, early>>

Matches(c) == c = Flusher \/ hand[c] \in Wanted

(* 562-571: the message is given to the caller; a flush asks for more.     *)
Give(c) ==
  /\ cpc[c] = "match" /\ Matches(c)
  /\ held' = [held EXCEPT ![c] = @ \cup {hand[c]}]
  /\ hand' = [hand EXCEPT ![c] = None]
  /\ qLock' = None
  /\ TakerGoto(c, IF c = Flusher THEN "lock" ELSE "done")
  /\ UNCHANGED <<queue, tokens, flushing, objLock, inUse, async, postVars,
                 noWait, late, early>>

(* 573-575: a message nobody asked for is dropped, under the queue_lock.   *)
Discard(c) ==
  /\ cpc[c] = "match" /\ ~Matches(c)
  /\ Unref(hand[c])
  /\ late' = late \ {hand[c]}
  /\ hand' = [hand EXCEPT ![c] = None]
  /\ TakerGoto(c, "pop")
  /\ UNCHANGED <<busVars, async, pmsg, noWait, held>>

(* 578-598: nothing to take; leave, or wait for the poll without the lock. *)
Empty(c) ==
  /\ cpc[c] = "pop" /\ queue = <<>>
  /\ qLock' = None
  /\ objLock' = IF c = Flusher THEN None ELSE objLock
  /\ TakerGoto(c, IF c \in noWait THEN "done" ELSE "poll")
  /\ UNCHANGED <<queue, tokens, flushing, inUse, async, postVars, hand,
                 noWait, held, late, early>>

(* 599-607: the poll has a token, or the timeout is over.                  *)
PollWait(c) ==
  /\ cpc[c] = "poll"
  /\ \/ tokens > 0 /\ TakerGoto(c, "lock")
     \/ TakerGoto(c, "done")
  /\ UNCHANGED <<busVars, inUse, async, postVars, hand, noWait, held, late, early>>

(* The caller drops what it was given; set_flushing does so at 498, after  *)
(* it has released the OBJECT_LOCK.                                        *)
Release(c) ==
  /\ cpc[c] = "done"
  /\ IF held[c] = {}
     THEN TakerGoto(c, "idle") /\ UNCHANGED <<held, ppc, inUse, early, late>>
     ELSE \E m \in held[c] :
            /\ Unref(m)
            /\ late' = late \ {m}
            /\ held' = [held EXCEPT ![c] = @ \ {m}]
            /\ UNCHANGED cpc
  /\ UNCHANGED <<busVars, async, pmsg, hand, noWait>>

-----------------------------------------------------------------------------
PosterStep(p) == SyncHandler(p) \/ Push(p) \/ Write(p) \/ Delivered(p)

TakerStep(c) ==
  \/ Lock(c) \/ Pop(c) \/ ReadControl(c) \/ Give(c) \/ Discard(c)
  \/ Empty(c) \/ PollWait(c) \/ Release(c)

Next ==
  \/ \E p \in Posters, m \in Messages : Post(p, m)
  \/ \E p \in Posters : PosterStep(p) \/ SpuriousWakeup(p)
  \/ \E c \in Consumers : Call(c)
  \/ SetFlushing
  \/ UnsetFlushing
  \/ \E c \in Takers : TakerStep(c)

Spec == Init /\ [][Next]_vars

(* Threads go on with what they have begun, a thread that waits for the    *)
(* queue_lock is not passed over for ever, and the application keeps       *)
(* asking for messages, as a main loop with a bus watch does.              *)
Fairness ==
  /\ \A p \in Posters : WF_vars(PosterStep(p))
  /\ \A c \in Takers : WF_vars(TakerStep(c)) /\ SF_vars(Lock(c))
  /\ \A c \in Consumers : WF_vars(Call(c))

FairSpec == Spec /\ Fairness

-----------------------------------------------------------------------------
(* The type of every variable, who holds the locks, and where a message    *)
(* that is looked at or given away may be.                                 *)
TypeOK ==
  /\ queue \in Seq(Messages) /\ tokens \in Nat /\ flushing \in BOOLEAN
  /\ objLock \in {None, Flusher} /\ qLock \in Takers \cup {None}
  /\ inUse \subseteq Messages /\ async \subseteq inUse
  /\ early \subseteq Messages /\ late \subseteq inUse \cup early
  /\ ppc \in [Posters -> PostPCs] /\ pmsg \in [Posters -> Messages \cup {None}]
  /\ cpc \in [Takers -> TakePCs] /\ hand \in [Takers -> Messages \cup {None}]
  /\ noWait \subseteq Takers /\ held \in [Takers -> SUBSET Messages]
  /\ \A c \in Takers :
       /\ (qLock = c) <=> (cpc[c] \in {"pop", "token", "match"})
       /\ (hand[c] # None) <=> (cpc[c] \in {"token", "match"})

(* One token waits for each message that waits: a popper still owes the    *)
(* token of the message it took, a poster that of the message it pushed.   *)
(* Hence a main loop never sleeps on a bus with messages, and never wakes  *)
(* for nothing once all posts are complete.                                *)
TokenBalance ==
  tokens + Cardinality({p \in Posters : ppc[p] \in {"write", "ring"}}) =
  Len(queue) + Cardinality({c \in Takers : cpc[c] = "token"})

(* A message has one owner: its poster before the push, the queue, or one  *)
(* taker; and the memory of a message in one of these places is not freed, *)
(* unless its poster stopped waiting (410) before it was signalled.        *)
OneOwner ==
  \A m \in Messages :
     Cardinality({p \in Posters : ppc[p] \in {"handler", "push", "send"}
                                  /\ pmsg[p] = m})
     + Cardinality({i \in DOMAIN queue : queue[i] = m})
     + Cardinality({c \in Takers : hand[c] = m})
     + Cardinality({c \in Takers : m \in held[c]})
     <= IF m \in inUse \cup early THEN 1 ELSE 0

(* Once set_flushing has returned from emptying the bus, only messages     *)
(* that had passed the check when the flush began can still be on it.      *)
FlushLeavesOnlyLate ==
  flushing /\ objLock = None => ToSet(queue) \subseteq late

(* A thread that posts a message comes back, also from an asynchronous     *)
(* delivery, whose wait (410) a consumer that takes the message, a filter  *)
(* that discards it or a flush has to end.                                 *)
PostReturns == \A p \in Posters : ppc[p] # "idle" ~> ppc[p] = "idle"
=============================================================================
