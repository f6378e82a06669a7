--------------------------- MODULE GstElementProofs ---------------------------
(***************************************************************************)
(* The state of an element for any number of threads that set it, wait for *)
(* it and stream: the class sees an unbroken walk, and between two calls   *)
(* the fields say where it has got.                                        *)
(***************************************************************************)
EXTENDS GstElement, TLAPS

(* The variables of get_state are left out: no setter looks at them.       *)
ElementTypes ==
  /\ state \in States /\ next \in States \cup {Void}
  /\ pending \in States \cup {Void}
  /\ ret \in Returns /\ target \in States
  /\ pc \in [Threads -> PCs] /\ res \in [Threads -> Returns]
  /\ trans \in [Threads -> States \X States]
  /\ level \in States /\ sure \in BOOLEAN /\ busy \in BOOLEAN
  /\ stateLock \in Threads \cup {None}

(* The STATE_LOCK is held by the thread that is in change_state.           *)
LockOne == \A t \in Threads : pc[t] # "idle" <=> stateLock = t

Changing(t) == pc[t] \in {"class", "returned"}

(* An element without a pending state has reached its state; one with a    *)
(* pending state has a next one.                                           *)
Fields ==
  /\ Failed => ~sure
  /\ pending = Void => ret \in {"SUCCESS", "NO_PREROLL"} /\ (sure => state = level)
  /\ pending # Void => next \in States

(* A change that nobody works on waits for the dataflow, and only PAUSED   *)
(* and PLAYING do.                                                         *)
Waits ==
  (\A t \in Threads : ~Changing(t)) /\ pending # Void /\ ~Failed =>
    ret = "ASYNC" /\ (sure => next = level /\ next >= Paused)

(* The call of the class starts at its level and goes to the next state.   *)
InClass(t) ==
  pc[t] = "class" =>
    /\ pending # Void /\ next = trans[t][2]
    /\ sure => trans[t][1] = level
    /\ trans[t][1] # trans[t][2] => ret \in {"ASYNC", "FAILURE"}
    /\ trans[t][1] = trans[t][2] /\ sure => ret # "ASYNC"

Returned(t) ==
  pc[t] = "returned" =>
    /\ pending # Void /\ next = trans[t][2]
    /\ sure => next = level
    /\ res[t] = "FAILURE" => ~sure
    /\ res[t] = "ASYNC" => ret \in {"ASYNC", "FAILURE"} /\ (sure => next >= Paused)

ElementInv ==
  /\ ElementTypes /\ LockOne /\ Fields /\ Waits
  /\ \A t \in Threads : InClass(t) /\ Returned(t)

-----------------------------------------------------------------------------
(* gst_element_continue_state and set_state go one step at a time.         *)
LEMMA OneStep ==
  ASSUME NEW cur \in States, NEW s \in States
  PROVE  GetNext(cur, s) \in States /\ (GetNext(cur, s) = cur <=> s = cur)
<1>1. CASE s > cur
  BY <1>1 DEF GetNext, States, Null, Playing
<1>2. CASE s < cur
  BY <1>2 DEF GetNext, States, Null, Playing
<1>3. CASE s = cur
  BY <1>3 DEF GetNext, States, Null, Playing
<1> QED
  BY <1>1, <1>2, <1>3 DEF States, Null, Playing

(* With the STATE_LOCK free no thread is in change_state.                  *)
LEMMA FreeMeansIdle ==
  ASSUME ElementInv, stateLock = None
  PROVE  \A t \in Threads : pc[t] = "idle"
BY ElementAssumption DEF ElementInv, LockOne, Threads

(* Two threads are never in change_state together.                         *)
LEMMA OthersIdle ==
  ASSUME ElementInv, NEW t \in Threads, pc[t] # "idle"
  PROVE  \A u \in Threads \ {t} : pc[u] = "idle"
BY DEF ElementInv, LockOne

LEMMA NotHolding ==
  ASSUME ElementInv, NEW t \in Threads, stateLock # t
  PROVE  pc[t] = "idle"
BY DEF ElementInv, LockOne

-----------------------------------------------------------------------------
LEMMA InitElement == Init => ElementInv
<1> SUFFICES ASSUME Init PROVE ElementInv
  OBVIOUS
<1>0. Null \in States /\ "SUCCESS" \in Returns /\ "idle" \in PCs
  BY DEF States, Null, Playing, Returns, PCs
<1>1. ElementTypes
  <2>1. /\ pc \in [Threads -> PCs] /\ res \in [Threads -> Returns]
        /\ trans \in [Threads -> States \X States]
    BY <1>0 DEF Init
  <2> QED
    BY <1>0, <2>1 DEF Init, ElementTypes
<1>2. LockOne
  BY ElementAssumption DEF Init, LockOne, Threads
<1>3. Fields /\ Waits
  BY DEF Init, Fields, Waits, Failed, Void
<1>4. \A t \in Threads : InClass(t) /\ Returned(t)
  BY DEF Init, InClass, Returned
<1> QED
  BY <1>1, <1>2, <1>3, <1>4 DEF ElementInv

(* Where a change starts: at the class's own state, if that is known.      *)
LEMMA StartsAtLevel ==
  ASSUME ElementInv, NEW s \in States, stateLock = None, ~WasBusy(s)
  PROVE  /\ StartFrom(s) \in States
         /\ sure => StartFrom(s) = level
         /\ OldRet \in Returns \ {"FAILURE"}
         /\ sure /\ GetNext(StartFrom(s), s) = StartFrom(s) => OldRet # "ASYNC"
<1> USE DEF ElementInv
<1>1. \A t \in Threads : ~Changing(t)
  BY FreeMeansIdle DEF Changing
<1>2. StartFrom(s) \in States
  BY DEF StartFrom, ElementTypes, States, Null, Playing, Void
<1>3. OldRet \in Returns \ {"FAILURE"}
  BY DEF OldRet, Failed, ElementTypes, Returns
<1>4. CASE Failed
  BY <1>2, <1>3, <1>4 DEF Fields, OldRet
<1>5. CASE ~Failed /\ pending = Void
  <2>1. StartFrom(s) = state
    BY <1>5 DEF StartFrom, OldPending
  <2> QED
    BY <1>2, <1>3, <1>5, <2>1 DEF Fields, OldRet
<1>6. CASE ~Failed /\ pending # Void
  <2>1. ret = "ASYNC" /\ (sure => next = level /\ next >= Paused)
    BY <1>1, <1>6 DEF Waits
  <2>2. pending > s /\ next # s
    BY <1>6 DEF WasBusy, OldPending, ElementTypes, States, Null, Playing, Void
  <2>3. sure => next > s
    BY <2>1, <2>2
       DEF ElementTypes, States, Null, Playing, Void, Paused
  <2>4. sure => StartFrom(s) = next
    BY <1>6, <2>1, <2>3 DEF StartFrom, OldPending, OldRet
  <2>5. sure => GetNext(StartFrom(s), s) # StartFrom(s)
    BY <1>2, <2>3, <2>4, OneStep DEF ElementTypes, States, Null, Playing, Void
  <2> QED
    BY <1>2, <1>3, <2>1, <2>4, <2>5
<1> QED
  BY <1>4, <1>5, <1>6

LEMMA SetStateStep ==
  ASSUME ElementInv, NEW t \in Setters, NEW s \in States, SetState(t, s)
  PROVE  ElementInv'
<1> DEFINE cur == StartFrom(s)
           nxt == GetNext(cur, s)
<1>0. t \in Threads /\ stateLock = None /\ ~WasBusy(s)
  BY DEF SetState, Threads
<1>1. /\ cur \in States /\ (sure => cur = level)
      /\ OldRet \in Returns \ {"FAILURE"}
      /\ sure /\ nxt = cur => OldRet # "ASYNC"
  BY <1>0, StartsAtLevel
<1>2. nxt \in States
  BY <1>1, OneStep
<1>3. /\ pending' = s /\ next' = nxt /\ stateLock' = t /\ target' = s
      /\ ret' = IF cur # nxt THEN "ASYNC" ELSE OldRet
      /\ pc' = [pc EXCEPT ![t] = "class"]
      /\ trans' = [trans EXCEPT ![t] = <<cur, nxt>>]
      /\ res' = [res EXCEPT ![t] = "SUCCESS"]
      /\ UNCHANGED <<state, level, sure, busy>>
  BY DEF SetState, CallClass, NewTarget, classVars
<1> HIDE DEF cur, nxt
<1>4. ret' \in Returns \ {"FAILURE"}
  BY <1>1, <1>3 DEF Returns
<1>5. ElementTypes'
  BY <1>0, <1>1, <1>2, <1>3, <1>4 DEF ElementInv, ElementTypes, Returns, PCs
<1>6. pc'[t] = "class" /\ \A u \in Threads \ {t} : pc'[u] = "idle"
  BY <1>0, <1>3, FreeMeansIdle DEF ElementInv, ElementTypes
<1>7. LockOne'
  BY <1>0, <1>3, <1>6 DEF LockOne
<1>8. s # Void
  BY DEF States, Null, Void, Playing
<1>9. Fields'
  BY <1>2, <1>3, <1>4, <1>8 DEF Fields, Failed
<1>10. Waits'
  BY <1>0, <1>6 DEF Waits, Changing
<1>11. trans'[t] = <<cur, nxt>>
  BY <1>0, <1>3 DEF ElementInv, ElementTypes
<1>12. InClass(t)'
  BY <1>1, <1>3, <1>8, <1>11 DEF InClass
<1>13. \A u \in Threads : InClass(u)' /\ Returned(u)'
  BY <1>6, <1>12 DEF InClass, Returned
<1> QED
  BY <1>5, <1>7, <1>9, <1>10, <1>13 DEF ElementInv

LEMMA SetStateBusyStep ==
  ASSUME ElementInv, NEW t \in Setters, NEW s \in States, SetStateBusy(t, s)
  PROVE  ElementInv'
<1>1. /\ pending' = s /\ ret' = "ASYNC" /\ stateLock = None /\ target' = s
      /\ UNCHANGED <<state, next, stateLock, pc, trans, res, level, sure, busy>>
  BY DEF SetStateBusy, NewTarget, callVars, classVars
<1>2. pending # Void /\ ~Failed
  BY DEF SetStateBusy, WasBusy, OldPending
<1>3. \A u \in Threads : pc[u] = "idle"
  BY <1>1, FreeMeansIdle
<1>4. sure => next = level /\ next >= Paused
  BY <1>2, <1>3 DEF ElementInv, Waits, Changing
<1>5. s # Void
  BY DEF States, Null, Void, Playing
<1>6. ElementTypes'
  BY <1>1 DEF ElementInv, ElementTypes, Returns
<1>7. LockOne' /\ Fields' /\ Waits'
  BY <1>1, <1>2, <1>4, <1>5 DEF ElementInv, LockOne, Fields, Waits, Failed
<1>8. \A u \in Threads : InClass(u)' /\ Returned(u)'
  BY <1>1, <1>3 DEF InClass, Returned
<1> QED
  BY <1>6, <1>7, <1>8 DEF ElementInv

-----------------------------------------------------------------------------
LEMMA ClassChangeStep ==
  ASSUME ElementInv, NEW t \in Threads, ClassChange(t)
  PROVE  ElementInv'
<1> DEFINE a == trans[t][1]
           b == trans[t][2]
<1>1. pc[t] = "class" /\ InClass(t)
  BY DEF ClassChange, ElementInv
<1>2. a \in States /\ b \in States
  BY DEF ElementInv, ElementTypes
<1>3. PICK r \in Answers(a, b) :
        /\ res' = [res EXCEPT ![t] = r]
        /\ IF a = b THEN UNCHANGED classVars
           ELSE /\ level' = IF r = "FAILURE" THEN level ELSE b
                /\ sure' = (r # "FAILURE" /\ ~Failed)
                /\ busy' = \/ r = "ASYNC" /\ target > Ready
                           \/ busy /\ b <= Ready
  BY DEF ClassChange
<1>4. /\ pc' = [pc EXCEPT ![t] = "returned"]
      /\ UNCHANGED <<state, next, pending, ret, target, stateLock, trans>>
  BY DEF ClassChange, elementState
<1>5. pending # Void /\ next = b
  BY <1>1 DEF InClass
<1>6. r \in Returns
  BY <1>3 DEF Answers, ElementInv, ElementTypes, Returns
<1>7. level' \in States /\ sure' \in BOOLEAN /\ busy' \in BOOLEAN
  <2>1. CASE a = b
    BY <1>3, <2>1 DEF classVars, ElementInv, ElementTypes
  <2>2. CASE a # b
    BY <1>2, <1>3, <2>2 DEF ElementInv, ElementTypes
  <2> QED
    BY <2>1, <2>2
<1>8. ElementTypes'
  BY <1>4, <1>3, <1>6, <1>7 DEF ElementInv, ElementTypes, PCs
<1>9. /\ pc'[t] = "returned" /\ res'[t] = r
      /\ \A u \in Threads \ {t} : pc'[u] = "idle"
  BY <1>1, <1>3, <1>4, OthersIdle DEF ElementInv, ElementTypes
<1>10. LockOne'
  BY <1>1, <1>4, <1>9 DEF ElementInv, LockOne
<1>11. /\ Failed => ~sure'
       /\ sure' => next = level'
       /\ r = "FAILURE" => ~sure'
       /\ r = "ASYNC" => ret \in {"ASYNC", "FAILURE"} /\ (sure' => next >= Paused)
  <2>1. CASE a = b
    <3>1. r = ret /\ level' = level /\ sure' = sure
      BY <1>3, <2>1 DEF Answers, classVars
    <3>2. (sure => a = level) /\ (sure => ret # "ASYNC") /\ (Failed => ~sure)
      BY <1>1, <2>1 DEF InClass, ElementInv, Fields
    <3> QED
      BY <1>5, <2>1, <3>1, <3>2 DEF Failed
  <2>2. CASE a # b
    <3>1. ret \in {"ASYNC", "FAILURE"}
      BY <1>1, <2>2 DEF InClass
    <3>2. r = "ASYNC" => b >= Paused
      BY <1>3, <2>2 DEF Answers
    <3> QED
      BY <1>3, <1>5, <2>2, <3>1, <3>2
  <2> QED
    BY <2>1, <2>2
<1>12. Fields'
  BY <1>4, <1>5, <1>11 DEF ElementInv, Fields, Failed
<1>13. Waits'
  BY <1>9 DEF Waits, Changing
<1>14. Returned(t)'
  BY <1>4, <1>5, <1>9, <1>11 DEF Returned
<1>15. \A u \in Threads : InClass(u)' /\ Returned(u)'
  BY <1>9, <1>14 DEF InClass, Returned
<1> QED
  BY <1>8, <1>10, <1>12, <1>13, <1>15 DEF ElementInv

(* What it leaves when a thread gives the STATE_LOCK back.                 *)
LEMMA Finished ==
  ASSUME ElementInv, NEW t \in Threads, Finish(t),
         stateLock = None \/ pc[t] # "idle"
  PROVE  /\ pc' \in [Threads -> PCs] /\ res' \in [Threads -> Returns]
         /\ trans' \in [Threads -> States \X States]
         /\ stateLock' = None
         /\ LockOne'
         /\ \A u \in Threads : pc'[u] = "idle"
         /\ \A u \in Threads : InClass(u)' /\ Returned(u)'
<1>1. /\ pc' = [pc EXCEPT ![t] = "idle"] /\ stateLock' = None
      /\ trans' = [trans EXCEPT ![t] = <<Null, Null>>]
      /\ res' = [res EXCEPT ![t] = "SUCCESS"]
  BY DEF Finish
<1>2. /\ pc \in [Threads -> PCs] /\ res \in [Threads -> Returns]
      /\ trans \in [Threads -> States \X States]
  BY DEF ElementInv, ElementTypes
<1>3. /\ pc' \in [Threads -> PCs] /\ res' \in [Threads -> Returns]
  BY <1>1, <1>2 DEF PCs, Returns
<1>4. trans' \in [Threads -> States \X States]
  BY <1>1, <1>2 DEF States, Null, Playing
<1>5. \A u \in Threads : pc'[u] = "idle"
  BY <1>1, <1>2, FreeMeansIdle, OthersIdle
<1>6. LockOne'
  BY <1>1, <1>5, ElementAssumption DEF LockOne, Threads
<1>7. \A u \in Threads : InClass(u)' /\ Returned(u)'
  BY <1>5 DEF InClass, Returned
<1> QED
  BY <1>1, <1>3, <1>4, <1>5, <1>6, <1>7

LEMMA ClassFailedStep ==
  ASSUME ElementInv, NEW t \in Threads, ClassFailed(t)
  PROVE  ElementInv'
<1>1. /\ pc[t] = "returned" /\ res[t] = "FAILURE" /\ Finish(t)
      /\ UNCHANGED <<state, next, pending, target, level, sure, busy>>
  BY DEF ClassFailed, classVars
<1>2. pending # Void /\ ~sure
  BY <1>1 DEF ElementInv, Returned
<1>3. ret' = "FAILURE"
  BY <1>2 DEF ClassFailed, Abort, Failed
<1>4. ElementTypes'
  BY <1>1, <1>3, Finished DEF ElementInv, ElementTypes, Returns
<1>5. Fields' /\ Waits'
  BY <1>1, <1>2, <1>3 DEF ElementInv, Fields, Waits, Failed
<1> QED
  BY <1>1, <1>4, <1>5, Finished DEF ElementInv

LEMMA ClassAsyncStep ==
  ASSUME ElementInv, NEW t \in Threads, ClassAsync(t)
  PROVE  ElementInv'
<1>1. /\ pc[t] = "returned" /\ res[t] = "ASYNC" /\ Finish(t)
      /\ UNCHANGED <<state, next, pending, ret, target, level, sure, busy>>
  BY DEF ClassAsync, classVars, elementState
<1>2. /\ sure => next = level /\ next >= Paused
      /\ ret \in {"ASYNC", "FAILURE"}
  BY <1>1 DEF ElementInv, Returned
<1>3. ElementTypes'
  BY <1>1, Finished DEF ElementInv, ElementTypes
<1>4. Fields' /\ Waits'
  BY <1>1, <1>2 DEF ElementInv, Fields, Waits, Failed
<1> QED
  BY <1>1, <1>3, <1>4, Finished DEF ElementInv

(* gst_element_continue_state commits the level of the class and, if there *)
(* is more to do, goes on from there.                                      *)
LEMMA Continued ==
  ASSUME ElementInv, NEW t \in Threads, NEW r \in {"SUCCESS", "NO_PREROLL"},
         ContinueWith(t, r),
         stateLock = None \/ pc[t] # "idle",
         pending # Void => next \in States /\ (sure => next = level),
         UNCHANGED <<target, level, sure>>, busy' \in BOOLEAN
  PROVE  ElementInv'
<1>0. \A u \in Threads \ {t} : pc[u] = "idle"
  BY FreeMeansIdle, OthersIdle
<1>1. CASE pending = Void
  <2>1. ret' = r /\ Finish(t) /\ UNCHANGED <<state, next, pending>>
    BY <1>1 DEF ContinueWith
  <2>2. ElementTypes'
    BY <2>1, Finished DEF ElementInv, ElementTypes, Returns
  <2>3. Fields' /\ Waits'
    BY <1>1, <2>1 DEF ElementInv, Fields, Waits, Failed
  <2> QED
    BY <2>1, <2>2, <2>3, Finished DEF ElementInv
<1>2. CASE pending # Void /\ pending = next
  <2>1. /\ state' = next /\ next' = Void /\ pending' = Void /\ ret' = r
        /\ pc' = [pc EXCEPT ![t] = "signal"] /\ stateLock' = t
        /\ UNCHANGED <<trans, res>>
    BY <1>2 DEF ContinueWith, Commits
  <2>2. ElementTypes'
    BY <1>2, <2>1 DEF ElementInv, ElementTypes, Returns, PCs
  <2>3. pc'[t] = "signal" /\ \A u \in Threads \ {t} : pc'[u] = "idle"
    BY <1>0, <2>1 DEF ElementInv, ElementTypes
  <2>4. LockOne'
    BY <2>1, <2>3 DEF LockOne
  <2>5. Fields' /\ Waits'
    BY <1>2, <2>1 DEF Fields, Waits, Failed
  <2>6. \A u \in Threads : InClass(u)' /\ Returned(u)'
    BY <2>3 DEF InClass, Returned
  <2> QED
    BY <2>2, <2>4, <2>5, <2>6 DEF ElementInv
<1>3. CASE pending # Void /\ pending # next
  <2> DEFINE nxt == GetNext(next, pending)
  <2>1. /\ state' = next /\ next' = nxt /\ ret' = "ASYNC" /\ stateLock' = t
        /\ pc' = [pc EXCEPT ![t] = "class"]
        /\ trans' = [trans EXCEPT ![t] = <<next, nxt>>]
        /\ res' = [res EXCEPT ![t] = "SUCCESS"]
        /\ pending' = pending
    BY <1>3 DEF ContinueWith, Commits, CallClass
  <2>2. next \in States /\ pending \in States
    BY <1>3 DEF ElementInv, ElementTypes
  <2>3. nxt \in States /\ nxt # next
    BY <1>3, <2>2, OneStep
  <2> HIDE DEF nxt
  <2>4. ElementTypes'
    BY <2>1, <2>2, <2>3 DEF ElementInv, ElementTypes, Returns, PCs
  <2>5. /\ pc'[t] = "class" /\ trans'[t] = <<next, nxt>>
        /\ \A u \in Threads \ {t} : pc'[u] = "idle"
    BY <1>0, <2>1 DEF ElementInv, ElementTypes
  <2>6. LockOne'
    BY <2>1, <2>5 DEF LockOne
  <2>7. Fields'
    BY <1>3, <2>1, <2>3 DEF Fields, Failed
  <2>8. Waits'
    BY <2>5 DEF Waits, Changing
  <2>9. InClass(t)'
    BY <1>3, <2>1, <2>3, <2>5 DEF InClass
  <2>10. \A u \in Threads : InClass(u)' /\ Returned(u)'
    BY <2>5, <2>9 DEF InClass, Returned
  <2> QED
    BY <2>4, <2>6, <2>7, <2>8, <2>10 DEF ElementInv
<1> QED
  BY <1>1, <1>2, <1>3

LEMMA ContinueStateStep ==
  ASSUME ElementInv, NEW t \in Threads, ContinueState(t)
  PROVE  ElementInv'
<1>1. pc[t] = "returned" /\ UNCHANGED <<target, level, sure, busy>>
  BY DEF ContinueState, classVars
<1>2. next \in States /\ (sure => next = level)
  BY <1>1 DEF ElementInv, Returned, ElementTypes
<1>3. busy' \in BOOLEAN
  BY <1>1 DEF ElementInv, ElementTypes
<1>4. PICK r \in {"SUCCESS", "NO_PREROLL"} : ContinueWith(t, r)
  BY DEF ContinueState
<1> QED
  BY <1>1, <1>2, <1>3, <1>4, Continued

LEMMA SignalStep ==
  ASSUME ElementInv, NEW t \in Threads, Signal(t)
  PROVE  ElementInv'
<1>1. /\ pc[t] = "signal" /\ Finish(t)
      /\ UNCHANGED <<state, next, pending, ret, target, level, sure, busy>>
  BY DEF Signal, classVars, elementState
<1>2. \A u \in Threads : ~Changing(u)
  BY <1>1, OthersIdle DEF Changing
<1>3. ElementTypes'
  BY <1>1, Finished DEF ElementInv, ElementTypes
<1>4. Fields' /\ Waits'
  BY <1>1, <1>2 DEF ElementInv, Fields, Waits, Failed
<1> QED
  BY <1>1, <1>3, <1>4, Finished DEF ElementInv

-----------------------------------------------------------------------------
LEMMA AsyncDoneStep ==
  ASSUME ElementInv, NEW t \in Streamers, AsyncDone(t)
  PROVE  ElementInv'
<1>1. /\ t \in Threads /\ stateLock = None /\ busy' = FALSE
      /\ ContinueWith(t, "SUCCESS") /\ UNCHANGED <<target, level, sure>>
  BY DEF AsyncDone, Threads
<1>2. \A u \in Threads : ~Changing(u)
  BY <1>1, FreeMeansIdle DEF Changing
<1>3. pending # Void => next \in States /\ (sure => next = level)
  BY <1>2 DEF ElementInv, Fields, Waits
<1> QED
  BY <1>1, <1>3, Continued

(* An abort by the streaming thread leaves nothing to be relied on.        *)
LEMMA AbortStateStep ==
  ASSUME ElementInv, NEW t \in Streamers, AbortState(t)
  PROVE  ElementInv'
<1>1. /\ busy' = FALSE /\ sure' = FALSE
      /\ UNCHANGED <<state, next, pending, target, stateLock, pc, trans, res,
                     level>>
  BY DEF AbortState, callVars
<1>2. ret' = IF pending # Void THEN "FAILURE" ELSE ret
  BY DEF AbortState, Abort, Failed
<1>3. ElementTypes'
  BY <1>1, <1>2 DEF ElementInv, ElementTypes, Returns
<1>4. LockOne' /\ Fields' /\ Waits'
  BY <1>1, <1>2 DEF ElementInv, LockOne, Fields, Waits, Failed
<1>5. \A u \in Threads : InClass(u)' /\ Returned(u)'
  BY <1>1, <1>2 DEF ElementInv, InClass, Returned
<1> QED
  BY <1>3, <1>4, <1>5 DEF ElementInv

(* A lost state touches the fields only when no change is under way.       *)
LEMMA LostStateStep ==
  ASSUME ElementInv, NEW t \in Streamers, LostState(t)
  PROVE  ElementInv'
<1>0. UNCHANGED <<target, stateLock, pc, trans, res, sure>> /\ busy' = TRUE
  BY DEF LostState, callVars
<1>1. CASE Failed \/ pending # Void
  <2>1. UNCHANGED <<state, next, pending, ret, level>>
    BY <1>1 DEF LostState, elementState
  <2> QED
    BY <1>0, <2>1 DEF ElementInv, ElementTypes, LockOne, Fields, Waits, Failed,
                      Changing, InClass, Returned
<1>2. CASE ~Failed /\ pending = Void
  <2> DEFINE lost == IF state > Paused THEN Paused ELSE state
  <2>1. /\ state' = lost /\ next' = lost /\ pending' = lost /\ level' = lost
        /\ ret' = "ASYNC" /\ level >= Paused
    BY <1>2 DEF LostState
  <2>2. lost \in States
    BY DEF ElementInv, ElementTypes, States, Null, Paused, Playing
  <2>3. sure => lost >= Paused
    BY <1>2, <2>1
       DEF ElementInv, ElementTypes, Fields, States, Null, Paused, Playing
  <2> HIDE DEF lost
  <2>4. lost # Void
    BY <2>2 DEF States, Null, Void, Playing
  <2>5. ElementTypes'
    BY <1>0, <2>1, <2>2 DEF ElementInv, ElementTypes, Returns
  <2>6. LockOne' /\ Fields' /\ Waits'
    BY <1>0, <2>1, <2>2, <2>3, <2>4
       DEF ElementInv, LockOne, Fields, Waits, Failed
  <2>7. \A u \in Threads : InClass(u)' /\ Returned(u)'
    BY <1>0, <1>2 DEF ElementInv, InClass, Returned
  <2> QED
    BY <2>5, <2>6, <2>7 DEF ElementInv
<1> QED
  BY <1>1, <1>2

(* get_state reads the fields and changes none of them.                    *)
LEMMA OtherStep ==
  ASSUME ElementInv,
         \/ UNCHANGED vars
         \/ \E g \in Getters : GetState(g) \/ GetWoken(g) \/ GetTimeout(g)
                               \/ SpuriousWakeup(g)
  PROVE  ElementInv'
<1>1. UNCHANGED <<state, next, pending, ret, target, stateLock, pc, trans, res,
                  level, sure, busy>>
  BY DEF vars, GetState, GetWoken, GetTimeout, SpuriousWakeup, elementState,
         callVars, classVars
<1> QED
  BY <1>1 DEF ElementInv, ElementTypes, LockOne, Fields, Waits, Failed,
              Changing, InClass, Returned

-----------------------------------------------------------------------------
(* The fields, the STATE_LOCK and the class agree in every reachable state *)
(* of gst_element_set_state, for any number of threads.                    *)
THEOREM ElementInvariance == Spec => []ElementInv
<1>1. ElementInv /\ [Next]_vars => ElementInv'
  <2> SUFFICES ASSUME ElementInv, [Next]_vars PROVE ElementInv'
    OBVIOUS
  <2>1. ASSUME NEW t \in Setters, NEW s \in States,
               SetState(t, s) \/ SetStateBusy(t, s)
        PROVE  ElementInv'
    BY <2>1, SetStateStep, SetStateBusyStep
  <2>2. ASSUME NEW t \in Threads, SetterStep(t) PROVE ElementInv'
    BY <2>2, ClassChangeStep, ClassFailedStep, ClassAsyncStep,
       ContinueStateStep, SignalStep DEF SetterStep
  <2>3. ASSUME NEW t \in Streamers,
               AsyncDone(t) \/ AbortState(t) \/ LostState(t)
        PROVE  ElementInv'
    BY <2>3, AsyncDoneStep, AbortStateStep, LostStateStep
  <2> QED
    BY <2>1, <2>2, <2>3, OtherStep DEF Next
<1> QED
  BY InitElement, <1>1, PTL DEF Spec

(* change_state is called for an unbroken walk: each transition starts     *)
(* where the last one ended, whatever calls of set_state, continue_state   *)
(* and lost_state overtake one another.                                    *)
THEOREM UnbrokenWalk == Spec => []Contiguous
<1>1. ElementInv => Contiguous
  BY DEF ElementInv, InClass, Contiguous
<1> QED
  BY <1>1, ElementInvariance, PTL

(* With the STATE_LOCK free, GST_STATE is the state the class has reached, *)
(* or GST_STATE_NEXT is the one it is still on its way to.                 *)
THEOREM RestsThere == Spec => []RestsWhereClassIs
<1>1. ElementInv => RestsWhereClassIs
  <2> SUFFICES ASSUME ElementInv, AtRest, sure
               PROVE  /\ pending = Void => state = level
                      /\ ret = "ASYNC" => next = level
    BY DEF RestsWhereClassIs
  <2>1. \A t \in Threads : ~Changing(t)
    BY FreeMeansIdle DEF Changing, AtRest
  <2> QED
    BY <2>1 DEF ElementInv, Fields, Waits, Failed
<1> QED
  BY <1>1, ElementInvariance, PTL
=============================================================================
