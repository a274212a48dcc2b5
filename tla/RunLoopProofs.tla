---------------------------- MODULE RunLoopProofs ----------------------------
(***************************************************************************)
(* Theorems about RunLoop, for every set of handles, timers and sockets    *)
(* and every value of the bounds, however callbacks change the ring and    *)
(* the list of timers while the run loop walks them.                       *)
(***************************************************************************)
EXTENDS RunLoop, TLAPS

(***************************************************************************)
(* The ring of file handles.                                               *)
(***************************************************************************)
RingTyped ==
  /\ next \in [Nodes -> Nodes \cup {Null}]
  /\ prev \in [Nodes -> Nodes \cup {Null}]
  /\ fileHandleCursor \in Nodes
  /\ loopbackFileHandle \in Handles \cup {Null}

\* The loopback handle is registered for as long as its socket is open.
LoopbackLive ==
  /\ loopbackFileHandle # Null => loopbackFileHandle \in Live
  /\ loopbackFileDescriptor # NoFd /\ pc # "fatal" => loopbackFileHandle # Null

RingInv == RingTyped /\ RingWhole /\ LoopbackLive

\* Linking a new handle in before the sentinel, as FileHandleRegister does,
\* leaves the ring one cycle, with the handle on it.
LEMMA LinkKeepsRing ==
  ASSUME RingTyped, RingWhole,
         NEW h \in Handles, h \notin Live,
         next' = [next EXCEPT ![prev[Sentinel]] = h, ![h] = Sentinel],
         prev' = [prev EXCEPT ![h] = prev[Sentinel], ![Sentinel] = h],
         fileHandleCursor' = fileHandleCursor
  PROVE  /\ next' \in [Nodes -> Nodes \cup {Null}]
         /\ prev' \in [Nodes -> Nodes \cup {Null}]
         /\ RingWhole'
         /\ Live' = Live \cup {h}
<1> DEFINE last == prev[Sentinel]
<1>1. /\ h \in Nodes /\ Sentinel \in Nodes /\ h # Sentinel
      /\ Null \notin Nodes
      /\ next[h] = Null /\ prev[h] = Null
      /\ last \in Nodes /\ last # h /\ next[last] = Sentinel
  BY NodesAssumption DEF RingTyped, RingWhole, RingLinked, Nodes, Live
<1>2. /\ next' \in [Nodes -> Nodes \cup {Null}]
      /\ prev' \in [Nodes -> Nodes \cup {Null}]
  BY <1>1 DEF RingTyped
<1>3. \A n \in Nodes : next'[n] = IF n = h THEN Sentinel ELSE IF n = last THEN h ELSE next[n]
  BY <1>1 DEF RingTyped
<1>4. \A n \in Nodes : prev'[n] = IF n = Sentinel THEN h ELSE IF n = h THEN last ELSE prev[n]
  BY <1>1 DEF RingTyped
<1>5. RingLinked'
  <2>1. next'[Sentinel] # Null
    BY <1>1, <1>3 DEF RingTyped, RingWhole, RingLinked
  <2>2. ASSUME NEW n \in Nodes PROVE next'[n] # Null <=> prev'[n] # Null
    BY <1>1, <1>3, <1>4 DEF RingTyped, RingWhole, RingLinked
  <2>3. ASSUME NEW n \in Nodes, next'[n] # Null
        PROVE  next'[next'[n]] # Null /\ prev'[next'[n]] = n
    BY <2>3, <1>1, <1>3, <1>4 DEF RingTyped, RingWhole, RingLinked
  <2>4. ASSUME NEW n \in Nodes, next'[n] # Null
        PROVE  next'[prev'[n]] # Null /\ next'[prev'[n]] = n
    BY <2>4, <1>1, <1>3, <1>4 DEF RingTyped, RingWhole, RingLinked
  <2> QED BY <2>1, <2>2, <2>3, <2>4 DEF RingLinked
<1>6. CursorRegistered'
  BY <1>1, <1>3 DEF RingTyped, RingWhole, CursorRegistered
<1>7. Live' = Live \cup {h}
  BY <1>1, <1>3 DEF Live, Nodes
<1>8. ASSUME NEW S \in SUBSET Live', S # {}
      PROVE  \E g \in S : next'[g] \notin S
  <2>1. S \subseteq Live \cup {h} /\ Sentinel \notin S
    BY <1>7, NodesAssumption DEF Live
  <2>2. CASE h \in S
    <3>1. next'[h] = Sentinel
      BY <1>1, <1>3
    <3> QED BY <3>1, <2>1, <2>2
  <2>3. CASE h \notin S
    <3>1. PICK g \in S : next[g] \notin S
      BY <2>1, <2>3, <1>8 DEF RingWhole
    <3>2. g \in Nodes
      BY <2>1 DEF Live, Nodes
    <3> QED BY <3>1, <3>2, <2>3, <1>3
  <2> QED BY <2>2, <2>3
<1> QED BY <1>2, <1>5, <1>6, <1>7, <1>8 DEF RingWhole

\* Unlinking a registered handle leaves the ring one cycle without it, and
\* the cursor on a registered node, even when the cursor was at the handle.
LEMMA UnlinkKeepsRing ==
  ASSUME RingTyped, RingWhole,
         NEW h \in Live,
         fileHandleCursor' = CursorWithout(h),
         next' = [next EXCEPT ![prev[h]] = next[h], ![h] = Null],
         prev' = [prev EXCEPT ![next[h]] = prev[h], ![h] = Null]
  PROVE  /\ next' \in [Nodes -> Nodes \cup {Null}]
         /\ prev' \in [Nodes -> Nodes \cup {Null}]
         /\ fileHandleCursor' \in Nodes
         /\ RingWhole'
         /\ Live' = Live \ {h}
<1> DEFINE before == prev[h]
           after == next[h]
<1>1. /\ h \in Nodes /\ h \in Handles /\ Sentinel \in Nodes /\ h # Sentinel
      /\ Null \notin Nodes
      /\ after # Null /\ before # Null
      /\ before \in Nodes /\ after \in Nodes
      /\ next[before] = h /\ prev[after] = h
      /\ next[before] # Null /\ next[after] # Null
  BY NodesAssumption DEF RingTyped, RingWhole, RingLinked, Nodes, Live
<1>2. before # h /\ after # h
  <2>1. {h} \in SUBSET Live /\ {h} # {}
    OBVIOUS
  <2>2. next[h] \notin {h}
    BY <2>1 DEF RingWhole
  <2> QED BY <2>2, <1>1
<1>3. /\ next' \in [Nodes -> Nodes \cup {Null}]
      /\ prev' \in [Nodes -> Nodes \cup {Null}]
  BY <1>1 DEF RingTyped
<1>4. \A n \in Nodes : next'[n] = IF n = h THEN Null ELSE IF n = before THEN after ELSE next[n]
  BY <1>1, <1>2 DEF RingTyped
<1>5. \A n \in Nodes : prev'[n] = IF n = h THEN Null ELSE IF n = after THEN before ELSE prev[n]
  BY <1>1, <1>2 DEF RingTyped
<1>6. RingLinked'
  <2>1. next'[Sentinel] # Null
    BY <1>1, <1>4 DEF RingTyped, RingWhole, RingLinked
  <2>2. ASSUME NEW n \in Nodes PROVE next'[n] # Null <=> prev'[n] # Null
    BY <1>1, <1>2, <1>4, <1>5 DEF RingTyped, RingWhole, RingLinked
  <2>3. ASSUME NEW n \in Nodes, next'[n] # Null
        PROVE  next'[next'[n]] # Null /\ prev'[next'[n]] = n
    BY <2>3, <1>1, <1>2, <1>4, <1>5 DEF RingTyped, RingWhole, RingLinked
  <2>4. ASSUME NEW n \in Nodes, next'[n] # Null
        PROVE  next'[prev'[n]] # Null /\ next'[prev'[n]] = n
    BY <2>4, <1>1, <1>2, <1>4, <1>5 DEF RingTyped, RingWhole, RingLinked
  <2> QED BY <2>1, <2>2, <2>3, <2>4 DEF RingLinked
<1>7. fileHandleCursor' \in Nodes /\ CursorRegistered'
  BY <1>1, <1>2, <1>4 DEF RingTyped, RingWhole, CursorRegistered, CursorWithout
<1>8. Live' = Live \ {h}
  BY <1>1, <1>2, <1>4 DEF Live, Nodes
<1>9. ASSUME NEW S \in SUBSET Live', S # {}
      PROVE  \E g \in S : next'[g] \notin S
  <2>1. S \subseteq Live \ {h} /\ S \subseteq Nodes
    BY <1>8 DEF Live, Nodes
  <2>2. PICK g \in S : next[g] \notin S
    BY <2>1, <1>9 DEF RingWhole
  <2>3. PICK f \in S \cup {h} : next[f] \notin S \cup {h}
    BY <2>1 DEF RingWhole
  <2>4. CASE f = h /\ before \in S
    BY <2>4, <2>3, <2>1, <1>4
  <2>5. CASE f = h /\ before \notin S
    BY <2>5, <2>2, <2>1, <1>4
  <2>6. CASE f # h
    BY <2>6, <2>3, <2>1, <1>1, <1>4
  <2> QED BY <2>4, <2>5, <2>6
<1> QED BY <1>3, <1>6, <1>7, <1>8, <1>9 DEF RingWhole

\* A step that moves at most the cursor, to a registered node, and does not
\* come back from a fatal error, keeps the ring.
LEMMA CursorMoveKeepsRing ==
  ASSUME RingInv,
         UNCHANGED <<ringVars, loopbackVars>>,
         fileHandleCursor' \in Nodes, next[fileHandleCursor'] # Null,
         pc = "fatal" => pc' = "fatal"
  PROVE  RingInv'
<1>1. next' = next /\ prev' = prev /\ Live' = Live
  BY DEF ringVars, Live
<1>2. RingTyped'
  BY <1>1 DEF RingInv, RingTyped, loopbackVars
<1>3. RingWhole'
  <2>1. RingLinked'
    BY <1>1 DEF RingInv, RingWhole, RingLinked
  <2>2. CursorRegistered'
    BY <1>1 DEF CursorRegistered
  <2>3. \A S \in SUBSET Live' : S # {} => \E h \in S : next'[h] \notin S
    BY <1>1 DEF RingInv, RingWhole
  <2> QED BY <2>1, <2>2, <2>3 DEF RingWhole
<1>4. LoopbackLive'
  BY <1>1 DEF RingInv, LoopbackLive, loopbackVars
<1> QED BY <1>2, <1>3, <1>4 DEF RingInv

\* The corollary for steps that leave the cursor alone as well.
LEMMA OtherStepKeepsRing ==
  ASSUME RingInv,
         UNCHANGED <<ringVars, fileHandleCursor, loopbackVars>>,
         pc = "fatal" => pc' = "fatal"
  PROVE  RingInv'
<1>1. fileHandleCursor' \in Nodes /\ next[fileHandleCursor'] # Null
  BY DEF RingInv, RingTyped, RingWhole, CursorRegistered
<1> QED BY <1>1, CursorMoveKeepsRing

LEMMA RingInit == Init => RingInv
<1> SUFFICES ASSUME Init PROVE RingInv
  OBVIOUS
<1>1. \A n \in Nodes : next[n] = IF n = Sentinel THEN Sentinel ELSE Null
  BY DEF Init
<1>2. \A n \in Nodes : prev[n] = IF n = Sentinel THEN Sentinel ELSE Null
  BY DEF Init
<1>3. Live = {} /\ Sentinel \in Nodes /\ Sentinel # Null
  BY <1>1, NodesAssumption DEF Live, Nodes
<1>4. RingTyped
  BY <1>3 DEF Init, RingTyped, Nodes
<1>5. RingLinked /\ CursorRegistered
  BY <1>1, <1>2, <1>3 DEF Init, RingLinked, CursorRegistered
<1> QED BY <1>3, <1>4, <1>5 DEF Init, RingInv, RingWhole, LoopbackLive

LEMMA RingStep == RingInv /\ [Next]_vars => RingInv'
<1> SUFFICES ASSUME RingInv, [Next]_vars PROVE RingInv'
  OBVIOUS
<1> USE DEF RingInv
<1>1. ASSUME NEW h \in Handles, NEW fd \in Fds, NEW kinds, NEW hasCallback,
             FileHandleRegister(h, fd, kinds, hasCallback)
      PROVE  RingInv'
  <2>1. RingTyped' /\ RingWhole' /\ Live' = Live \cup {h}
    BY <1>1, LinkKeepsRing DEF FileHandleRegister, Link, RingTyped, loopbackVars
  <2> QED BY <2>1, <1>1 DEF FileHandleRegister, LoopbackLive, loopbackVars
<1>2. ASSUME NEW h \in Handles, FileHandleDeregister(h) PROVE RingInv'
  <2>1. RingTyped' /\ RingWhole' /\ Live' = Live \ {h}
    BY <1>2, UnlinkKeepsRing DEF FileHandleDeregister, Unlink, RingTyped, loopbackVars
  <2> QED BY <2>1, <1>2 DEF FileHandleDeregister, LoopbackLive, loopbackVars
<1>3. CASE RunLoopCreate
  <2>1. ASSUME NEW h \in Handles \ Live, Link(h, LoopbackFd, {"read"}, TRUE),
               loopbackFileHandle' = h, fileHandleCursor' = fileHandleCursor
        PROVE  RingInv'
    <3>1. RingTyped' /\ RingWhole' /\ Live' = Live \cup {h}
      BY <2>1, LinkKeepsRing DEF Link, RingTyped
    <3> QED BY <3>1, <2>1, NodesAssumption DEF LoopbackLive
  <2>2. ASSUME pc = "idle", pc' = "fatal", fileHandleCursor' = fileHandleCursor,
               UNCHANGED <<ringVars, loopbackFileHandle>>
        PROVE  RingInv'
    <3>1. next' = next /\ prev' = prev /\ Live' = Live
      BY <2>2 DEF ringVars, Live
    <3>2. RingTyped' /\ RingLinked' /\ CursorRegistered'
      BY <3>1, <2>2 DEF RingTyped, RingWhole, RingLinked, CursorRegistered
    <3>3. \A S \in SUBSET Live' : S # {} => \E h \in S : next'[h] \notin S
      BY <3>1 DEF RingWhole
    <3> QED BY <3>1, <3>2, <3>3, <2>2 DEF RingWhole, LoopbackLive
  <2> QED BY <2>1, <2>2, <1>3 DEF RunLoopCreate
<1>4. CASE RunLoopRelease
  <2>1. loopbackFileHandle \in Live
    BY <1>4 DEF RunLoopRelease, LoopbackLive
  <2>2. RingWhole' /\ RingTyped'
    BY <2>1, <1>4, UnlinkKeepsRing DEF RunLoopRelease, Unlink, RingTyped
  <2> QED BY <2>2, <1>4 DEF RunLoopRelease, LoopbackLive
<1>5. ASSUME NEW h \in Handles, SkipFileHandle(h) PROVE RingInv'
  <2>1. fileHandleCursor' = next[h] /\ h = fileHandleCursor /\ h \in Nodes
    BY <1>5 DEF SkipFileHandle, StepOver, Nodes
  <2>2. next[h] \in Nodes /\ next[next[h]] # Null
    BY <2>1 DEF RingTyped, RingWhole, RingLinked, CursorRegistered
  <2> QED BY <2>1, <2>2, <1>5, CursorMoveKeepsRing DEF SkipFileHandle
<1>6. ASSUME NEW h \in Handles, DispatchFileHandle(h) PROVE RingInv'
  <2>1. fileHandleCursor' = next[h] /\ h = fileHandleCursor /\ h \in Nodes
    BY <1>6 DEF DispatchFileHandle, StepOver, Nodes
  <2>2. next[h] \in Nodes /\ next[next[h]] # Null
    BY <2>1 DEF RingTyped, RingWhole, RingLinked, CursorRegistered
  <2> QED BY <2>1, <2>2, <1>6, CursorMoveKeepsRing DEF DispatchFileHandle
<1>7. ASSUME NEW h \in Handles, HandleLoopback(h) PROVE RingInv'
  <2>1. fileHandleCursor' = next[h] /\ h = fileHandleCursor /\ h \in Nodes
    BY <1>7 DEF HandleLoopback, StepOver, Nodes
  <2>2. next[h] \in Nodes /\ next[next[h]] # Null
    BY <2>1 DEF RingTyped, RingWhole, RingLinked, CursorRegistered
  <2> QED BY <2>1, <2>2, <1>7, CursorMoveKeepsRing DEF HandleLoopback
<1>8. CASE TimersDone
  <2>1. Sentinel \in Nodes /\ next[Sentinel] \in Nodes /\ next[next[Sentinel]] # Null
    BY DEF RingTyped, RingWhole, RingLinked, Nodes
  <2> QED BY <2>1, <1>8, CursorMoveKeepsRing DEF TimersDone
<1>9. ASSUME NEW h \in Handles, NEW kinds, NEW hasCallback,
             FileHandleUpdateInterests(h, kinds, hasCallback)
      PROVE  RingInv'
  BY <1>9, OtherStepKeepsRing DEF FileHandleUpdateInterests
<1>10. ASSUME NEW t \in TimerIds, NEW deadline, TimerRegister(t, deadline) PROVE RingInv'
  BY <1>10, OtherStepKeepsRing DEF TimerRegister
<1>11. ASSUME NEW t \in TimerIds, TimerDeregister(t) PROVE RingInv'
  BY <1>11, OtherStepKeepsRing DEF TimerDeregister
<1>12. CASE RunLoopStop
  BY <1>12, OtherStepKeepsRing DEF RunLoopStop
<1>13. CASE Select
  BY <1>13, OtherStepKeepsRing DEF Select
<1>14. CASE FireExpiredTimer
  BY <1>14, OtherStepKeepsRing DEF FireExpiredTimer
<1>15. CASE TimerCallbackReturns
  BY <1>15, OtherStepKeepsRing DEF TimerCallbackReturns
<1>16. CASE FileCallbackReturns
  BY <1>16, OtherStepKeepsRing DEF FileCallbackReturns
<1>17. CASE InvokeStopCallback
  BY <1>17, OtherStepKeepsRing DEF InvokeStopCallback
<1>18. CASE InvokeCallback
  BY <1>18, OtherStepKeepsRing DEF InvokeCallback
<1>19. CASE LoopbackCallbackReturns
  BY <1>19, OtherStepKeepsRing DEF LoopbackCallbackReturns
<1>20. CASE LoopbackDone
  BY <1>20, OtherStepKeepsRing DEF LoopbackDone
<1>21. CASE FilesDone
  BY <1>21, OtherStepKeepsRing DEF FilesDone, LoopOrExit
<1>22. CASE SelectInterrupted
  BY <1>22, OtherStepKeepsRing DEF SelectInterrupted
<1>23. CASE SelectFails
  BY <1>23, OtherStepKeepsRing DEF SelectFails
<1>24. CASE RunLoopRun
  BY <1>24, OtherStepKeepsRing DEF RunLoopRun
<1>25. CASE RunLoopRequestStop
  BY <1>25, OtherStepKeepsRing DEF RunLoopRequestStop, Send, SocketFails
<1>26. CASE Tick
  BY <1>26, OtherStepKeepsRing DEF Tick
<1>27. ASSUME NEW size \in 0..(MaxContext + 1), RunLoopScheduleCallback(size) PROVE RingInv'
  BY <1>27, OtherStepKeepsRing DEF RunLoopScheduleCallback, Send, SocketFails
<1>28. CASE UNCHANGED vars
  BY <1>28, OtherStepKeepsRing DEF vars
<1> QED
  BY <1>1, <1>2, <1>3, <1>4, <1>5, <1>6, <1>7, <1>8, <1>9, <1>10, <1>11, <1>12, <1>13, <1>14, <1>15, <1>16, <1>17, <1>18, <1>19, <1>20, <1>21, <1>22, <1>23, <1>24, <1>25, <1>26, <1>27, <1>28
  DEF Next, ApiCall, LoopStep

\* The ring of file handles is one doubly linked cycle through the sentinel,
\* whose cursor is always at a registered node: callbacks may register and
\* deregister handles during a pass in any order, the one at the cursor and
\* the one whose callback runs included.
THEOREM RingAlwaysWhole == Spec => []RingWhole
<1>1. Spec => []RingInv
  BY RingInit, RingStep, PTL DEF Spec
<1>2. RingInv => RingWhole
  BY DEF RingInv
<1> QED BY <1>1, <1>2, PTL

(***************************************************************************)
(* Sequences with one element put in or taken out.                         *)
(***************************************************************************)
LEMMA InsertedProperties ==
  ASSUME NEW S, NEW s \in Seq(S), NEW k \in 1..(Len(s) + 1), NEW e \in S
  PROVE  /\ Inserted(s, k, e) \in Seq(S)
         /\ Len(Inserted(s, k, e)) = Len(s) + 1
         /\ DOMAIN Inserted(s, k, e) = 1..(Len(s) + 1)
         /\ \A j \in 1..(Len(s) + 1) :
              Inserted(s, k, e)[j] = IF j < k THEN s[j] ELSE IF j = k THEN e ELSE s[j - 1]
<1>1. \A j \in 1..(Len(s) + 1) : (IF j < k THEN s[j] ELSE IF j = k THEN e ELSE s[j - 1]) \in S
  OBVIOUS
<1> QED BY <1>1 DEF Inserted

LEMMA RemovedProperties ==
  ASSUME NEW S, NEW s \in Seq(S), NEW k \in DOMAIN s
  PROVE  /\ Removed(s, k) \in Seq(S)
         /\ Len(Removed(s, k)) = Len(s) - 1
         /\ DOMAIN Removed(s, k) = 1..(Len(s) - 1)
         /\ \A j \in 1..(Len(s) - 1) :
              Removed(s, k)[j] = IF j < k THEN s[j] ELSE s[j + 1]
<1>1. Len(s) \in Nat /\ k \in 1..Len(s) /\ Len(s) - 1 \in Nat
  OBVIOUS
<1>2. \A j \in 1..(Len(s) - 1) : (IF j < k THEN s[j] ELSE s[j + 1]) \in S
  BY <1>1
<1> QED BY <1>1, <1>2 DEF Removed

(***************************************************************************)
(* The list of timers.                                                     *)
(***************************************************************************)
Timer == [id : TimerIds, deadline : Nat, requested : Nat]

TimersTyped ==
  /\ timers \in Seq(Timer)
  /\ expiredTimer \in TimerIds \cup {Null}
  /\ registeredBefore \subseteq TimerIds \X TimerIds
  /\ clock \in Nat
  /\ now \in Nat

\* A deadline is kept as it was asked for, except that 0 is kept as 1.
DeadlinesKept ==
  \A i \in DOMAIN timers :
    timers[i].deadline = IF timers[i].requested = 0 THEN 1 ELSE timers[i].requested

TimerInv ==
  /\ TimersTyped
  /\ DeadlinesKept
  /\ TimersSorted
  /\ TimersFirstComeFirstServed
  /\ now <= clock

\* The invariant speaks of the timers and the two clock readings only.
LEMMA OtherStepKeepsTimers ==
  ASSUME TimerInv, UNCHANGED timerVars,
         clock' \in Nat, now' \in Nat, now' <= clock'
  PROVE  TimerInv'
<1>1. timers' = timers /\ expiredTimer' = expiredTimer /\ registeredBefore' = registeredBefore
  BY DEF timerVars
<1>2. TimersTyped'
  BY <1>1 DEF TimerInv, TimersTyped
<1>3. DeadlinesKept'
  BY <1>1 DEF TimerInv, DeadlinesKept
<1>4. TimersSorted'
  BY <1>1 DEF TimerInv, TimersSorted, TimerSet
<1>5. TimersFirstComeFirstServed'
  BY <1>1 DEF TimerInv, TimersFirstComeFirstServed
<1> QED BY <1>2, <1>3, <1>4, <1>5 DEF TimerInv

\* TimerRegister's search finds a place that keeps the order of deadlines,
\* and the order of registration among timers with the same deadline.
LEMMA RegisterKeepsTimers ==
  ASSUME TimerInv, NEW t \in TimerIds, NEW deadline \in Nat, TimerRegister(t, deadline)
  PROVE  TimerInv'
<1> DEFINE e == [id |-> t, deadline |-> IF deadline = 0 THEN 1 ELSE deadline,
                 requested |-> deadline]
           n == Len(timers)
<1>1. PICK k \in 1..(n + 1) : InsertionPoint(deadline, k) /\ timers' = Inserted(timers, k, e)
  BY DEF TimerRegister
<1>2. /\ t \notin TimerSet /\ t # expiredTimer
      /\ expiredTimer' = expiredTimer /\ clock' = clock /\ now' = now
      /\ registeredBefore' = registeredBefore \cup TimerSet \X {t}
  BY DEF TimerRegister, timeVars
<1>3. /\ e \in Timer /\ e.id = t /\ e.requested = deadline
      /\ e.deadline = IF deadline = 0 THEN 1 ELSE deadline
      /\ timers \in Seq(Timer) /\ n \in Nat /\ DOMAIN timers = 1..n
  BY DEF Timer, TimerInv, TimersTyped
<1> HIDE DEF e
<1>4. /\ timers' \in Seq(Timer)
      /\ DOMAIN timers' = 1..(n + 1)
      /\ \A j \in 1..(n + 1) :
           timers'[j] = IF j < k THEN timers[j] ELSE IF j = k THEN e ELSE timers[j - 1]
  <2>1. k \in 1..(Len(timers) + 1) /\ timers \in Seq(Timer) /\ e \in Timer
    BY <1>3
  <2>2. /\ Inserted(timers, k, e) \in Seq(Timer)
        /\ DOMAIN Inserted(timers, k, e) = 1..(Len(timers) + 1)
        /\ \A j \in 1..(Len(timers) + 1) :
             Inserted(timers, k, e)[j]
               = IF j < k THEN timers[j] ELSE IF j = k THEN e ELSE timers[j - 1]
    BY <2>1, InsertedProperties
  <2> QED BY <2>2, <1>1
<1>5. ASSUME NEW i \in 1..n
      PROVE  /\ timers[i].id \in TimerIds /\ timers[i].id \in TimerSet
             /\ timers[i].id # t
             /\ timers[i].deadline \in Nat /\ timers[i].requested \in Nat
             /\ timers[i].deadline >= 1
  <2>1. timers[i] \in Timer
    BY <1>3
  <2>2. timers[i].id \in TimerIds /\ timers[i].deadline \in Nat /\ timers[i].requested \in Nat
    BY <2>1 DEF Timer
  <2>3. timers[i].id \in TimerSet
    BY <1>3 DEF TimerSet
  <2>4. timers[i].deadline >= 1
    BY <2>2, <1>3 DEF TimerInv, DeadlinesKept
  <2> QED BY <2>2, <2>3, <2>4, <1>2
<1>6. /\ \A j \in 1..(k - 1) : timers[j].deadline <= deadline
      /\ k <= n => timers[k].deadline > deadline
  BY <1>1 DEF InsertionPoint
<1>7. \A i, j \in 1..n : i < j => timers[i].deadline <= timers[j].deadline
  BY <1>3 DEF TimerInv, TimersSorted
<1>8. \A j \in 1..n : j >= k => timers[j].deadline > deadline
  BY <1>5, <1>6, <1>7, <1>3
<1>at. ASSUME NEW j \in 1..(n + 1)
       PROVE  /\ j \in Int /\ k \in Int
              /\ j < k => j \in 1..n /\ timers'[j] = timers[j]
              /\ j = k => timers'[j] = e
              /\ j > k => j - 1 \in 1..n /\ j - 1 >= k /\ timers'[j] = timers[j - 1]
  BY <1>3, <1>4
<1>id. ASSUME NEW j \in 1..(n + 1)
       PROVE  timers'[j].id = t <=> j = k
  <2>1. CASE j = k
    BY <2>1, <1>at, <1>3
  <2>2. CASE j < k
    <3>1. j \in 1..n /\ timers'[j] = timers[j] /\ j # k
      BY <2>2, <1>at
    <3> QED BY <3>1, <1>5
  <2>3. CASE j > k
    <3>1. j - 1 \in 1..n /\ timers'[j] = timers[j - 1] /\ j # k
      BY <2>3, <1>at
    <3> QED BY <3>1, <1>5
  <2> QED BY <2>1, <2>2, <2>3, <1>at
<1>9. TimersTyped'
  <2>1. TimerSet \subseteq TimerIds
    BY <1>3, <1>5 DEF TimerSet
  <2> QED BY <2>1, <1>2, <1>4 DEF TimersTyped, TimerInv
<1>10. DeadlinesKept'
  <2>1. ASSUME NEW j \in 1..(n + 1)
        PROVE  timers'[j].deadline = IF timers'[j].requested = 0 THEN 1 ELSE timers'[j].requested
    <3>1. \A i \in 1..n :
            timers[i].deadline = IF timers[i].requested = 0 THEN 1 ELSE timers[i].requested
      BY <1>3 DEF TimerInv, DeadlinesKept
    <3>2. CASE j = k
      BY <3>2, <1>at, <1>3
    <3>3. CASE j < k
      BY <3>3, <3>1, <1>at
    <3>4. CASE j > k
      BY <3>4, <3>1, <1>at
    <3> QED BY <3>2, <3>3, <3>4, <1>at
  <2> QED BY <2>1, <1>4 DEF DeadlinesKept
<1>11. ASSUME NEW i \in 1..(n + 1), NEW j \in 1..(n + 1), i < j
       PROVE  timers'[i].deadline <= timers'[j].deadline
  <2>1. i \in Int /\ j \in Int /\ k \in Int
    BY <1>at
  <2>2. CASE i < k /\ j < k
    BY <2>2, <1>11, <1>at, <1>7
  <2>3. CASE i < k /\ j = k
    <3>1. timers[i].deadline <= deadline /\ timers[i].deadline \in Nat /\ timers[i].deadline >= 1
      BY <2>3, <1>6, <1>at, <1>5
    <3> QED BY <3>1, <2>3, <1>3, <1>at
  <2>4. CASE i < k /\ j > k
    <3>1. i < j - 1
      BY <2>4, <2>1, <1>at
    <3> QED BY <3>1, <2>4, <1>at, <1>7
  <2>5. CASE i = k
    <3>1. j > k
      BY <2>5, <2>1, <1>11
    <3>2. /\ timers'[j] = timers[j - 1] /\ timers'[i] = e
          /\ timers[j - 1].deadline \in Nat
          /\ timers[j - 1].deadline > deadline /\ timers[j - 1].deadline >= 1
      BY <3>1, <2>5, <1>at, <1>8, <1>5
    <3> QED BY <3>2, <1>3
  <2>6. CASE i > k
    <3>1. j > k /\ i - 1 < j - 1
      BY <2>6, <2>1, <1>11
    <3> QED BY <3>1, <2>6, <1>at, <1>7
  <2> QED BY <2>1, <2>2, <2>3, <2>4, <2>5, <2>6, <1>11
<1>12. ASSUME NEW i \in 1..(n + 1), NEW j \in 1..(n + 1), timers'[i].id = timers'[j].id
       PROVE  i = j
  <2>1. \A x, y \in 1..n : timers[x].id = timers[y].id => x = y
    BY <1>3 DEF TimerInv, TimersSorted
  <2>2. i = k <=> j = k
    BY <1>12, <1>id
  <2>3. CASE i < k /\ j < k
    BY <2>3, <2>1, <1>12, <1>at
  <2>4. CASE i > k /\ j > k
    <3>1. /\ i - 1 \in 1..n /\ timers'[i] = timers[i - 1] /\ i \in Int
          /\ j - 1 \in 1..n /\ timers'[j] = timers[j - 1] /\ j \in Int
      BY <2>4, <1>at
    <3>2. timers[i - 1].id = timers[j - 1].id
      BY <3>1, <1>12
    <3>3. i - 1 = j - 1
      BY <3>1, <3>2, <2>1
    <3> QED BY <3>1, <3>3
  <2>5. CASE i < k /\ j > k
    <3>1. i = j - 1
      BY <2>5, <2>1, <1>12, <1>at
    <3> QED BY <3>1, <2>5, <1>at
  <2>6. CASE i > k /\ j < k
    <3>1. i - 1 = j
      BY <2>6, <2>1, <1>12, <1>at
    <3> QED BY <3>1, <2>6, <1>at
  <2> QED BY <2>2, <2>3, <2>4, <2>5, <2>6, <1>at
<1>13. expiredTimer' \notin {timers'[i].id : i \in DOMAIN timers'}
  <2>1. expiredTimer \notin TimerSet
    BY DEF TimerInv, TimersSorted
  <2>2. ASSUME NEW j \in 1..(n + 1) PROVE timers'[j].id # expiredTimer
    <3>1. CASE j = k
      BY <3>1, <1>id, <1>2
    <3>2. CASE j < k
      <4>1. j \in 1..n /\ timers'[j] = timers[j]
        BY <3>2, <1>at
      <4> QED BY <4>1, <1>5, <2>1
    <3>3. CASE j > k
      <4>1. j - 1 \in 1..n /\ timers'[j] = timers[j - 1]
        BY <3>3, <1>at
      <4> QED BY <4>1, <1>5, <2>1
    <3> QED BY <3>1, <3>2, <3>3, <1>at
  <2> QED BY <2>2, <1>2, <1>4
<1>14. TimersSorted'
  BY <1>4, <1>11, <1>12, <1>13 DEF TimersSorted, TimerSet
<1>15. ASSUME NEW i \in 1..(n + 1), NEW j \in 1..(n + 1), i < j,
              timers'[i].requested = timers'[j].requested, timers'[i].requested > 0
       PROVE  <<timers'[i].id, timers'[j].id>> \in registeredBefore'
  <2>1. \A x, y \in 1..n :
          x < y /\ timers[x].requested = timers[y].requested /\ timers[x].requested > 0
            => <<timers[x].id, timers[y].id>> \in registeredBefore
    BY <1>3 DEF TimerInv, TimersFirstComeFirstServed
  <2>2. \A x \in 1..n : timers[x].requested > 0 => timers[x].deadline = timers[x].requested
    <3>1. ASSUME NEW x \in 1..n PROVE
            timers[x].deadline = IF timers[x].requested = 0 THEN 1 ELSE timers[x].requested
      BY <1>3 DEF TimerInv, DeadlinesKept
    <3> QED BY <3>1, <1>5
  <2>3. CASE j = k
    <3>1. i \in 1..n /\ timers'[i] = timers[i] /\ timers'[j].id = t
      BY <2>3, <1>15, <1>3, <1>4
    <3> QED BY <3>1, <1>2, <1>5
  <2>4. CASE i = k
    <3>1. j - 1 \in 1..n /\ j - 1 >= k /\ timers'[j] = timers[j - 1]
          /\ timers'[i].requested = deadline
      BY <2>4, <1>15, <1>3, <1>4
    <3>2. timers[j - 1].deadline > deadline /\ timers[j - 1].deadline = timers[j - 1].requested
      BY <3>1, <1>8, <2>2, <1>15
    <3> QED BY <3>1, <3>2, <1>15, <1>5
  <2>5. CASE i # k /\ j # k
    <3>1. PICK x \in 1..n, y \in 1..n : x < y /\ timers'[i] = timers[x] /\ timers'[j] = timers[y]
      <4>1. i \in Int /\ j \in Int /\ k \in Int
        BY <1>at
      <4>2. CASE j < k
        BY <4>1, <4>2, <1>15, <1>at
      <4>3. CASE i < k /\ j > k
        <5>1. i < j - 1
          BY <4>1, <4>3
        <5> QED BY <5>1, <4>3, <1>at
      <4>4. CASE i > k
        <5>1. j > k /\ i - 1 < j - 1
          BY <4>1, <4>4, <1>15
        <5> QED BY <5>1, <4>4, <1>at
      <4> QED BY <4>1, <4>2, <4>3, <4>4, <2>5
    <3> QED BY <3>1, <2>1, <1>15, <1>2
  <2> QED BY <2>3, <2>4, <2>5
<1>16. TimersFirstComeFirstServed'
  BY <1>4, <1>15 DEF TimersFirstComeFirstServed
<1> QED BY <1>2, <1>9, <1>10, <1>14, <1>16 DEF TimerInv

\* Taking a timer out, as TimerDeregister and ProcessExpiredTimers do, keeps
\* the list in order; the one taken out may become the expired timer.
LEMMA RemoveKeepsTimers ==
  ASSUME TimerInv, NEW k \in DOMAIN timers,
         timers' = Removed(timers, k),
         expiredTimer' \in {expiredTimer, timers[k].id},
         registeredBefore' = Without(timers[k].id),
         UNCHANGED timeVars
  PROVE  TimerInv'
<1> DEFINE n == Len(timers)
<1>1. n \in Nat /\ DOMAIN timers = 1..n /\ k \in 1..n /\ n - 1 \in Nat
  BY DEF TimerInv, TimersTyped
<1>2. /\ timers' \in Seq(Timer)
      /\ DOMAIN timers' = 1..(n - 1)
      /\ \A j \in 1..(n - 1) : timers'[j] = IF j < k THEN timers[j] ELSE timers[j + 1]
  BY RemovedProperties DEF TimerInv, TimersTyped
<1>at. ASSUME NEW j \in 1..(n - 1)
       PROVE  /\ j \in Int /\ k \in Int
              /\ j < k => j \in 1..n /\ timers'[j] = timers[j]
              /\ j >= k => j + 1 \in 1..n /\ j + 1 > k /\ timers'[j] = timers[j + 1]
  BY <1>1, <1>2
<1>3. /\ \A i, j \in 1..n : i < j => timers[i].deadline <= timers[j].deadline
      /\ \A i, j \in 1..n : timers[i].id = timers[j].id => i = j
      /\ \A i \in 1..n : timers[i].id # expiredTimer
  BY <1>1 DEF TimerInv, TimersSorted, TimerSet
<1>4. ASSUME NEW i \in 1..(n - 1), NEW j \in 1..(n - 1), i < j
      PROVE  \E x, y \in 1..n : /\ x < y /\ x # k /\ y # k
                                /\ timers'[i] = timers[x] /\ timers'[j] = timers[y]
  <2>1. i \in Int /\ j \in Int /\ k \in Int
    BY <1>at
  <2>2. CASE j < k
    BY <2>1, <2>2, <1>4, <1>at
  <2>3. CASE i < k /\ j >= k
    <3>1. i < j + 1 /\ i # k
      BY <2>1, <2>3
    <3> QED BY <3>1, <2>3, <1>at
  <2>4. CASE i >= k
    <3>1. j >= k /\ i + 1 < j + 1 /\ i + 1 # k /\ j + 1 # k
      BY <2>1, <2>4, <1>4
    <3> QED BY <3>1, <2>4, <1>at
  <2> QED BY <2>1, <2>2, <2>3, <2>4
<1>5. ASSUME NEW j \in 1..(n - 1)
      PROVE  \E x \in 1..n : x # k /\ timers'[j] = timers[x]
  <2>1. CASE j < k
    BY <2>1, <1>at
  <2>2. CASE j >= k
    <3>1. j + 1 # k
      BY <2>2, <1>at
    <3> QED BY <3>1, <2>2, <1>at
  <2> QED BY <2>1, <2>2, <1>at
<1>6. TimersTyped'
  <2>1. timers[k].id \in TimerIds
    <3>1. timers[k] \in Timer
      BY <1>1 DEF TimerInv, TimersTyped
    <3> QED BY <3>1 DEF Timer
  <2> QED BY <2>1, <1>2 DEF TimerInv, TimersTyped, Without, timeVars
<1>7. DeadlinesKept'
  <2>1. ASSUME NEW j \in 1..(n - 1)
        PROVE  timers'[j].deadline = IF timers'[j].requested = 0 THEN 1 ELSE timers'[j].requested
    <3>1. PICK x \in 1..n : timers'[j] = timers[x]
      BY <1>5
    <3>2. timers[x].deadline = IF timers[x].requested = 0 THEN 1 ELSE timers[x].requested
      BY <1>1 DEF TimerInv, DeadlinesKept
    <3> QED BY <3>1, <3>2
  <2> QED BY <2>1, <1>2 DEF DeadlinesKept
<1>8. TimersSorted'
  <2>1. ASSUME NEW i \in 1..(n - 1), NEW j \in 1..(n - 1), i < j
        PROVE  timers'[i].deadline <= timers'[j].deadline /\ timers'[i].id # timers'[j].id
    <3>1. PICK x \in 1..n, y \in 1..n : x < y /\ timers'[i] = timers[x] /\ timers'[j] = timers[y]
      BY <2>1, <1>4
    <3>2. x # y
      BY <3>1
    <3> QED BY <3>1, <3>2, <1>3
  <2>2. ASSUME NEW i \in 1..(n - 1), NEW j \in 1..(n - 1), timers'[i].id = timers'[j].id
        PROVE  i = j
    BY <2>1, <2>2, <1>at
  <2>3. ASSUME NEW j \in 1..(n - 1) PROVE timers'[j].id # expiredTimer'
    <3>1. PICK x \in 1..n : x # k /\ timers'[j] = timers[x]
      BY <1>5
    <3> QED BY <3>1, <1>1, <1>3
  <2> QED BY <2>1, <2>2, <2>3, <1>2 DEF TimersSorted, TimerSet
<1>9. TimersFirstComeFirstServed'
  <2>1. ASSUME NEW i \in 1..(n - 1), NEW j \in 1..(n - 1), i < j,
               timers'[i].requested = timers'[j].requested, timers'[i].requested > 0
        PROVE  <<timers'[i].id, timers'[j].id>> \in registeredBefore'
    <3>1. PICK x \in 1..n, y \in 1..n : /\ x < y /\ x # k /\ y # k
                                        /\ timers'[i] = timers[x] /\ timers'[j] = timers[y]
      BY <2>1, <1>4
    <3>2. <<timers[x].id, timers[y].id>> \in registeredBefore
      BY <3>1, <2>1, <1>1 DEF TimerInv, TimersFirstComeFirstServed
    <3>3. timers[x].id # timers[k].id /\ timers[y].id # timers[k].id
      BY <3>1, <1>1, <1>3
    <3> QED BY <3>1, <3>2, <3>3 DEF Without
  <2> QED BY <2>1, <1>2 DEF TimersFirstComeFirstServed
<1> QED BY <1>6, <1>7, <1>8, <1>9 DEF TimerInv, timeVars

LEMMA TimerInit == Init => TimerInv
<1> SUFFICES ASSUME Init PROVE TimerInv
  OBVIOUS
<1>1. timers = <<>> /\ DOMAIN timers = {}
  BY DEF Init
<1> QED BY <1>1, NodesAssumption DEF Init, TimerInv, TimersTyped, DeadlinesKept, TimersSorted,
           TimersFirstComeFirstServed, TimerSet

LEMMA TimerStep == TimerInv /\ [Next]_vars => TimerInv'
<1> SUFFICES ASSUME TimerInv, [Next]_vars PROVE TimerInv'
  OBVIOUS
<1>clock. clock \in Nat /\ now \in Nat /\ now <= clock
  BY DEF TimerInv, TimersTyped
<1>1. ASSUME NEW t \in TimerIds, NEW deadline \in 0..MaxTime, TimerRegister(t, deadline)
      PROVE  TimerInv'
  BY <1>1, RegisterKeepsTimers
<1>2. ASSUME NEW t \in TimerIds, TimerDeregister(t) PROVE TimerInv'
  <2>1. PICK k \in DOMAIN timers : timers[k].id = t /\ timers' = Removed(timers, k)
    BY <1>2 DEF TimerDeregister
  <2>2. expiredTimer' = expiredTimer /\ registeredBefore' = Without(t) /\ UNCHANGED timeVars
    BY <1>2 DEF TimerDeregister
  <2> QED BY <2>1, <2>2, RemoveKeepsTimers
<1>3. CASE FireExpiredTimer
  <2>1. timers \in Seq(Timer) /\ timers # <<>> /\ Len(timers) \in Nat /\ 1 \in DOMAIN timers
    BY <1>3 DEF FireExpiredTimer, HeadExpired, TimerInv, TimersTyped
  <2>2. timers' = Removed(timers, 1)
    <3>1. /\ timers' \in Seq(Timer) /\ Len(timers') = Len(timers) - 1
          /\ \A j \in 1..(Len(timers) - 1) : timers'[j] = timers[j + 1]
      BY <2>1, <1>3 DEF FireExpiredTimer
    <3>2. /\ Removed(timers, 1) \in Seq(Timer) /\ Len(Removed(timers, 1)) = Len(timers) - 1
          /\ \A j \in 1..(Len(timers) - 1) : Removed(timers, 1)[j] = timers[j + 1]
      BY <2>1, RemovedProperties
    <3> QED BY <3>1, <3>2
  <2>3. /\ expiredTimer' = timers[1].id /\ registeredBefore' = Without(timers[1].id)
        /\ UNCHANGED timeVars
    BY <1>3 DEF FireExpiredTimer
  <2> QED BY <2>1, <2>2, <2>3, RemoveKeepsTimers
<1>4. CASE TimerCallbackReturns
  <2>1. /\ expiredTimer' = Null /\ timers' = timers /\ registeredBefore' = registeredBefore
        /\ clock' = clock /\ now' = now
    BY <1>4 DEF TimerCallbackReturns, timeVars
  <2>2. Null \notin TimerSet
    <3>1. \A i \in DOMAIN timers : timers[i] \in Timer
      BY DEF TimerInv, TimersTyped
    <3> QED BY <3>1, NodesAssumption DEF TimerSet, Timer
  <2>3. TimersSorted'
    BY <2>1, <2>2 DEF TimerInv, TimersSorted, TimerSet
  <2> QED BY <2>1, <2>3 DEF TimerInv, TimersTyped, DeadlinesKept, TimersFirstComeFirstServed
<1>5. CASE Select
  BY <1>5, <1>clock, OtherStepKeepsTimers DEF Select
<1>6. CASE Tick
  BY <1>6, <1>clock, OtherStepKeepsTimers DEF Tick
<1>7. ASSUME NEW h \in Handles, NEW fd \in Fds, NEW kinds, NEW hasCallback,
             FileHandleRegister(h, fd, kinds, hasCallback)
      PROVE  TimerInv'
  BY <1>7, <1>clock, OtherStepKeepsTimers DEF FileHandleRegister, timeVars
<1>8. ASSUME NEW h \in Handles, NEW kinds, NEW hasCallback,
             FileHandleUpdateInterests(h, kinds, hasCallback)
      PROVE  TimerInv'
  BY <1>8, <1>clock, OtherStepKeepsTimers DEF FileHandleUpdateInterests, timeVars
<1>9. ASSUME NEW h \in Handles, FileHandleDeregister(h) PROVE TimerInv'
  BY <1>9, <1>clock, OtherStepKeepsTimers DEF FileHandleDeregister, timeVars
<1>10. ASSUME NEW h \in Handles, SkipFileHandle(h) PROVE TimerInv'
  BY <1>10, <1>clock, OtherStepKeepsTimers DEF SkipFileHandle, timeVars
<1>11. ASSUME NEW h \in Handles, DispatchFileHandle(h) PROVE TimerInv'
  BY <1>11, <1>clock, OtherStepKeepsTimers DEF DispatchFileHandle, timeVars
<1>12. ASSUME NEW h \in Handles, HandleLoopback(h) PROVE TimerInv'
  BY <1>12, <1>clock, OtherStepKeepsTimers DEF HandleLoopback, timeVars
<1>13. CASE RunLoopCreate
  BY <1>13, <1>clock, OtherStepKeepsTimers DEF RunLoopCreate, timeVars
<1>14. CASE RunLoopRelease
  BY <1>14, <1>clock, OtherStepKeepsTimers DEF RunLoopRelease, timeVars
<1>15. CASE RunLoopStop
  BY <1>15, <1>clock, OtherStepKeepsTimers DEF RunLoopStop, timeVars
<1>16. CASE TimersDone
  BY <1>16, <1>clock, OtherStepKeepsTimers DEF TimersDone, timeVars
<1>17. CASE FileCallbackReturns
  BY <1>17, <1>clock, OtherStepKeepsTimers DEF FileCallbackReturns, timeVars
<1>18. CASE InvokeStopCallback
  BY <1>18, <1>clock, OtherStepKeepsTimers DEF InvokeStopCallback, timeVars
<1>19. CASE InvokeCallback
  BY <1>19, <1>clock, OtherStepKeepsTimers DEF InvokeCallback, timeVars
<1>20. CASE LoopbackCallbackReturns
  BY <1>20, <1>clock, OtherStepKeepsTimers DEF LoopbackCallbackReturns, timeVars
<1>21. CASE LoopbackDone
  BY <1>21, <1>clock, OtherStepKeepsTimers DEF LoopbackDone, timeVars
<1>22. CASE FilesDone
  BY <1>22, <1>clock, OtherStepKeepsTimers DEF FilesDone, timeVars
<1>23. CASE SelectInterrupted
  BY <1>23, <1>clock, OtherStepKeepsTimers DEF SelectInterrupted, timeVars
<1>24. CASE SelectFails
  BY <1>24, <1>clock, OtherStepKeepsTimers DEF SelectFails, timeVars
<1>25. CASE RunLoopRun
  BY <1>25, <1>clock, OtherStepKeepsTimers DEF RunLoopRun, timeVars
<1>26. CASE RunLoopRequestStop
  BY <1>26, <1>clock, OtherStepKeepsTimers DEF RunLoopRequestStop, Send, SocketFails, timeVars
<1>27. ASSUME NEW size \in 0..(MaxContext + 1), RunLoopScheduleCallback(size) PROVE TimerInv'
  BY <1>27, <1>clock, OtherStepKeepsTimers DEF RunLoopScheduleCallback, Send, SocketFails, timeVars
<1>28. CASE UNCHANGED vars
  BY <1>28, <1>clock, OtherStepKeepsTimers DEF vars, timeVars
<1> QED
  BY <1>1, <1>2, <1>3, <1>4, <1>5, <1>6, <1>7, <1>8, <1>9, <1>10, <1>11, <1>12, <1>13, <1>14, <1>15, <1>16, <1>17, <1>18, <1>19, <1>20, <1>21, <1>22, <1>23, <1>24, <1>25, <1>26, <1>27, <1>28
  DEF Next, ApiCall, LoopStep

\* Timers stay sorted by deadline, each in the list once and none of them
\* the one whose callback runs, whatever that callback registers.
THEOREM TimersAlwaysSorted == Spec => []TimersSorted
<1>1. Spec => []TimerInv
  BY TimerInit, TimerStep, PTL DEF Spec
<1>2. TimerInv => TimersSorted
  BY DEF TimerInv
<1> QED BY <1>1, <1>2, PTL

\* Timers with the same deadline, other than 0, are in order of registration.
THEOREM TimersAlwaysFirstComeFirstServed == Spec => []TimersFirstComeFirstServed
<1>1. Spec => []TimerInv
  BY TimerInit, TimerStep, PTL DEF Spec
<1>2. TimerInv => TimersFirstComeFirstServed
  BY DEF TimerInv
<1> QED BY <1>1, <1>2, PTL

LEMMA FireStep == TimerInv /\ [Next]_vars => [FiresInTurn]_vars
<1> SUFFICES ASSUME TimerInv, [Next]_vars PROVE FiresInTurn \/ UNCHANGED vars
  OBVIOUS
<1>1. CASE FireExpiredTimer
  <2>1. timers \in Seq(Timer) /\ timers # <<>> /\ 1 \in DOMAIN timers /\ DOMAIN timers = 1..Len(timers)
    BY <1>1 DEF FireExpiredTimer, HeadExpired, TimerInv, TimersTyped
  <2>2. \A i \in DOMAIN timers : timers[i] \in Timer
    BY <2>1
  <2>3. \A j \in DOMAIN timers : timers[1].deadline \in Nat /\ timers[j].deadline \in Nat
    BY <2>1, <2>2 DEF Timer
  <2>4. \A j \in DOMAIN timers : timers[1].deadline <= timers[j].deadline
    <3> SUFFICES ASSUME NEW j \in DOMAIN timers PROVE timers[1].deadline <= timers[j].deadline
      OBVIOUS
    <3>1. CASE j = 1
      BY <3>1, <2>3
    <3>2. CASE j # 1
      <4>1. 1 < j
        BY <3>2, <2>1
      <4> QED BY <4>1, <2>1 DEF TimerInv, TimersSorted
    <3> QED BY <3>1, <3>2
  <2>5. timers[1].deadline <= clock
    <3>1. timers[1].deadline <= now
      BY <1>1 DEF FireExpiredTimer, HeadExpired
    <3> QED BY <3>1, <2>1, <2>3 DEF TimerInv, TimersTyped
  <2>6. expiredTimer' = timers[1].id
    BY <1>1 DEF FireExpiredTimer
  <2> QED BY <2>1, <2>4, <2>5, <2>6 DEF FiresInTurn
<1>2. CASE TimerCallbackReturns
  BY <1>2, NodesAssumption DEF TimerCallbackReturns, FiresInTurn
<1>3. CASE expiredTimer' = expiredTimer
  BY <1>3 DEF FiresInTurn
<1>4. expiredTimer' = expiredTimer \/ FireExpiredTimer \/ TimerCallbackReturns
  <2>1. ASSUME NEW h \in Handles, NEW kinds \in SUBSET Kinds, NEW hasCallback \in BOOLEAN,
               \/ \E fd \in Fds : FileHandleRegister(h, fd, kinds, hasCallback)
               \/ FileHandleUpdateInterests(h, kinds, hasCallback)
        PROVE  expiredTimer' = expiredTimer
    BY <2>1 DEF FileHandleRegister, FileHandleUpdateInterests, timerVars
  <2>2. ASSUME NEW t \in TimerIds,
               TimerDeregister(t) \/ \E deadline \in 0..MaxTime : TimerRegister(t, deadline)
        PROVE  expiredTimer' = expiredTimer
    BY <2>2 DEF TimerRegister, TimerDeregister
  <2>3. ASSUME NEW h \in Handles,
               FileHandleDeregister(h) \/ SkipFileHandle(h) \/ DispatchFileHandle(h)
                 \/ HandleLoopback(h)
        PROVE  expiredTimer' = expiredTimer
    BY <2>3 DEF FileHandleDeregister, SkipFileHandle, DispatchFileHandle, HandleLoopback, timerVars
  <2>4. ASSUME \/ RunLoopStop \/ RunLoopCreate \/ RunLoopRelease \/ RunLoopRun \/ Select
               \/ SelectInterrupted \/ SelectFails \/ TimersDone \/ FileCallbackReturns
        PROVE  expiredTimer' = expiredTimer
    BY <2>4 DEF RunLoopStop, RunLoopCreate, RunLoopRelease, RunLoopRun, Select,
                SelectInterrupted, SelectFails, TimersDone, FileCallbackReturns, timerVars
  <2>5. ASSUME \/ InvokeStopCallback \/ InvokeCallback \/ LoopbackCallbackReturns
               \/ LoopbackDone \/ FilesDone \/ RunLoopRequestStop \/ Tick \/ UNCHANGED vars
               \/ \E size \in 0..(MaxContext + 1) : RunLoopScheduleCallback(size)
        PROVE  expiredTimer' = expiredTimer
    BY <2>5 DEF InvokeStopCallback, InvokeCallback, LoopbackCallbackReturns, LoopbackDone,
                FilesDone, RunLoopRequestStop, RunLoopScheduleCallback, Send, SocketFails, Tick, vars, timerVars
  <2> QED BY <2>1, <2>2, <2>3, <2>4, <2>5 DEF Next, ApiCall, LoopStep
<1> QED BY <1>1, <1>2, <1>3, <1>4

\* A timer fires only when it is due, before every live timer with a later
\* deadline, whatever the callbacks of timers before it did to the list.
THEOREM EarliestAlwaysFires == Spec => EarliestFiresWhenDue
<1>1. Spec => []TimerInv
  BY TimerInit, TimerStep, PTL DEF Spec
<1> QED BY <1>1, FireStep, PTL DEF Spec, EarliestFiresWhenDue

(***************************************************************************)
(* The loopback socket and its buffer.                                     *)
(***************************************************************************)
\* One header, not a byte of context, and the bytes that it announces.
WellFormed(bytes) ==
  /\ bytes \in Seq(Tokens)
  /\ bytes # <<>>
  /\ bytes[1].cb # "context"
  /\ Len(bytes) = 1 + bytes[1].size

FramingInv ==
  /\ datagrams \in Seq(Seq(Tokens))
  /\ \A i \in DOMAIN datagrams : WellFormed(datagrams[i])
  /\ loopbackBytes \in Seq(Tokens)
  /\ contextSize \in 0..MaxContext
  /\ pc = "loopback" /\ loopbackBytes # <<>> => WellFormed(loopbackBytes)
  /\ pc = "loopbackCallback" => Len(loopbackBytes) = contextSize
  /\ pc \notin {"loopback", "loopbackCallback", "fatal"} => loopbackBytes = <<>>

LEMMA SerializedWellFormed ==
  ASSUME NEW cb \in {"stop", "app"}, NEW size \in 0..MaxContext
  PROVE  WellFormed(Serialized(cb, size))
<1> DEFINE context == [i \in 1..size |-> ContextByte]
           header == Header(cb, size)
<1>1. ContextByte \in Tokens /\ header \in Tokens /\ size \in Nat
      /\ header.cb = cb /\ header.size = size
  BY BoundsAssumption DEF ContextByte, Header, Tokens
<1>2. context \in Seq(Tokens) /\ Len(context) = size
  BY <1>1
<1>3. Serialized(cb, size) = <<header>> \o context
  BY DEF Serialized
<1> HIDE DEF header, context
<1>4. /\ Serialized(cb, size) \in Seq(Tokens)
      /\ Len(Serialized(cb, size)) = 1 + size
      /\ Serialized(cb, size)[1] = header
  BY <1>1, <1>2, <1>3
<1> QED BY <1>1, <1>4 DEF WellFormed

\* Steps that change neither the sockets nor the buffer, and neither enter
\* nor leave the loopback handler.
LEMMA OtherStepKeepsFraming ==
  ASSUME FramingInv, UNCHANGED <<bufferVars, datagrams>>,
         pc' = pc \/ pc' = "fatal" \/ {pc, pc'} \cap {"loopback", "loopbackCallback", "fatal"} = {}
  PROVE  FramingInv'
<1>1. loopbackBytes' = loopbackBytes /\ contextSize' = contextSize /\ datagrams' = datagrams
  BY DEF bufferVars
<1>2. \A i \in DOMAIN datagrams' : WellFormed(datagrams'[i])
  BY <1>1 DEF FramingInv
<1>3. pc' = "loopback" /\ loopbackBytes' # <<>> => WellFormed(loopbackBytes')
  BY <1>1 DEF FramingInv
<1> QED BY <1>1, <1>2, <1>3 DEF FramingInv, WellFormed

LEMMA FramingInit == Init => FramingInv
  BY BoundsAssumption DEF Init, FramingInv

LEMMA FramingStep == FramingInv /\ [Next]_vars => FramingInv'
<1> SUFFICES ASSUME FramingInv, [Next]_vars PROVE FramingInv'
  OBVIOUS
<1>send. ASSUME NEW cb \in {"stop", "app"}, NEW size \in 0..MaxContext, Send(cb, size)
         PROVE  FramingInv'
  <2> DEFINE d == Serialized(cb, size)
  <2>1. WellFormed(d) /\ d \in Seq(Tokens)
    BY SerializedWellFormed DEF WellFormed
  <2> HIDE DEF d
  <2>2. datagrams' = Append(datagrams, d) /\ UNCHANGED bufferVars /\ pc' = pc
    BY <1>send DEF Send, d
  <2>3. datagrams' \in Seq(Seq(Tokens)) /\ \A i \in DOMAIN datagrams' : WellFormed(datagrams'[i])
    BY <2>1, <2>2 DEF FramingInv
  <2>4. pc' = "loopback" /\ loopbackBytes' # <<>> => WellFormed(loopbackBytes')
    BY <2>2 DEF FramingInv, bufferVars
  <2> QED BY <2>2, <2>3, <2>4 DEF FramingInv, WellFormed, bufferVars
<1>fails. CASE SocketFails
  BY <1>fails, OtherStepKeepsFraming DEF SocketFails
<1>1. ASSUME NEW size \in 0..(MaxContext + 1), RunLoopScheduleCallback(size) PROVE FramingInv'
  <2>1. size \in 0..MaxContext /\ (Send("app", size) \/ SocketFails)
    BY <1>1, BoundsAssumption DEF RunLoopScheduleCallback
  <2> QED BY <2>1, <1>send, <1>fails
<1>2. CASE RunLoopRequestStop
  BY <1>2, <1>send, <1>fails, BoundsAssumption DEF RunLoopRequestStop
<1>3. ASSUME NEW h \in Handles, HandleLoopback(h) PROVE FramingInv'
  <2> DEFINE d == Head(datagrams)
  <2>1. /\ datagrams # <<>> /\ datagrams' = Tail(datagrams)
        /\ loopbackBytes = <<>> /\ contextSize' = contextSize /\ pc' = "loopback"
    BY <1>3 DEF HandleLoopback, FramingInv
  <2>2. WellFormed(d) /\ d \in Seq(Tokens) /\ Len(d) \in Nat
    BY <2>1 DEF FramingInv, WellFormed
  <2>3. /\ datagrams' \in Seq(Seq(Tokens))
        /\ \A i \in DOMAIN datagrams' : datagrams'[i] = datagrams[i + 1] /\ i + 1 \in DOMAIN datagrams
    BY <2>1 DEF FramingInv
  <2>4. Len(d) <= LoopbackCapacity
    <3>1. d[1] \in Tokens
      BY <2>2 DEF WellFormed
    <3>2. d[1].size \in 0..MaxContext
      BY <3>1 DEF Tokens
    <3> QED BY <3>2, <2>2, BoundsAssumption DEF WellFormed, LoopbackCapacity
  <2> HIDE DEF d
  <2>5. loopbackBytes' = d
    <3>1. LoopbackCapacity \in Nat
      BY BoundsAssumption DEF LoopbackCapacity
    <3>2. loopbackBytes' =
            <<>> \o SubSeq(d, 1, IF Len(d) < LoopbackCapacity - 0 THEN Len(d) ELSE LoopbackCapacity - 0)
      BY <1>3, <2>1 DEF HandleLoopback, d
    <3>3. loopbackBytes' = <<>> \o SubSeq(d, 1, Len(d))
      BY <3>1, <3>2, <2>2, <2>4
    <3> QED BY <3>3, <2>2
  <2> QED BY <2>1, <2>2, <2>3, <2>5 DEF FramingInv
<1>4. CASE InvokeStopCallback \/ InvokeCallback
  <2>1. /\ pc = "loopback" /\ loopbackBytes # <<>> /\ WellFormed(loopbackBytes)
        /\ loopbackBytes \in Seq(Tokens) /\ datagrams' = datagrams
    BY <1>4 DEF InvokeStopCallback, InvokeCallback, CallbackReady, FramingInv
  <2> DEFINE size == Head(loopbackBytes).size
             rest == Tail(loopbackBytes)
  <2>2. size \in 0..MaxContext
    <3>1. Head(loopbackBytes) \in Tokens
      BY <2>1
    <3> QED BY <3>1 DEF Tokens
  <2>3. rest \in Seq(Tokens) /\ Len(rest) = size
    BY <2>1, <2>2 DEF WellFormed
  <2>4. CASE InvokeStopCallback
    <3>1. loopbackBytes' = SubSeq(rest, size + 1, Len(rest)) /\ contextSize' = contextSize /\ pc' = pc
      BY <2>4 DEF InvokeStopCallback, ContextDropped
    <3>2. loopbackBytes' = <<>>
      BY <3>1, <2>2, <2>3
    <3>3. contextSize' \in 0..MaxContext /\ pc' = "loopback" /\ datagrams' = datagrams
      BY <3>1, <2>1 DEF FramingInv
    <3>4. loopbackBytes' \in Seq(Tokens)
      BY <3>2
    <3>5. \A i \in DOMAIN datagrams' : WellFormed(datagrams'[i])
      BY <3>3 DEF FramingInv
    <3> QED BY <3>2, <3>3, <3>4, <3>5 DEF FramingInv
  <2>5. CASE InvokeCallback
    BY <2>5, <2>1, <2>2, <2>3 DEF InvokeCallback, FramingInv
  <2> QED BY <1>4, <2>4, <2>5
<1>5. CASE LoopbackCallbackReturns
  <2>1. /\ loopbackBytes' = SubSeq(loopbackBytes, contextSize + 1, Len(loopbackBytes))
        /\ Len(loopbackBytes) = contextSize /\ contextSize \in Nat
        /\ contextSize' = 0 /\ datagrams' = datagrams /\ pc' = "loopback"
    BY <1>5, BoundsAssumption DEF LoopbackCallbackReturns, ContextDropped, FramingInv
  <2>2. loopbackBytes' = <<>>
    BY <2>1 DEF FramingInv
  <2> QED BY <2>1, <2>2, BoundsAssumption DEF FramingInv
<1>6. CASE LoopbackDone
  <2>1. pc = "loopback" /\ ~CallbackReady /\ UNCHANGED <<bufferVars, datagrams>> /\ pc' = "files"
    BY <1>6 DEF LoopbackDone
  <2>2. loopbackBytes = <<>>
    <3>1. SUFFICES ASSUME loopbackBytes # <<>> PROVE FALSE
      OBVIOUS
    <3>2. WellFormed(loopbackBytes)
      BY <2>1, <3>1 DEF FramingInv
    <3>3. Head(loopbackBytes) = loopbackBytes[1] /\ Len(loopbackBytes) \in Nat
      BY <3>1 DEF FramingInv
    <3> QED BY <2>1, <3>2, <3>3 DEF WellFormed, CallbackReady
  <2> QED BY <2>1, <2>2 DEF FramingInv, bufferVars
<1>7. CASE RunLoopRelease
  BY <1>7 DEF RunLoopRelease, FramingInv, bufferVars
<1>8. ASSUME NEW h \in Handles, NEW fd \in Fds, NEW kinds, NEW hasCallback,
             FileHandleRegister(h, fd, kinds, hasCallback)
      PROVE  FramingInv'
  BY <1>8, OtherStepKeepsFraming DEF FileHandleRegister
<1>9. ASSUME NEW h \in Handles, NEW kinds, NEW hasCallback,
             FileHandleUpdateInterests(h, kinds, hasCallback)
      PROVE  FramingInv'
  BY <1>9, OtherStepKeepsFraming DEF FileHandleUpdateInterests
<1>10. ASSUME NEW h \in Handles, FileHandleDeregister(h) PROVE FramingInv'
  BY <1>10, OtherStepKeepsFraming DEF FileHandleDeregister
<1>11. ASSUME NEW h \in Handles, SkipFileHandle(h) PROVE FramingInv'
  BY <1>11, OtherStepKeepsFraming DEF SkipFileHandle
<1>12. ASSUME NEW h \in Handles, DispatchFileHandle(h) PROVE FramingInv'
  BY <1>12, OtherStepKeepsFraming DEF DispatchFileHandle
<1>13. ASSUME NEW t \in TimerIds, NEW deadline, TimerRegister(t, deadline) PROVE FramingInv'
  BY <1>13, OtherStepKeepsFraming DEF TimerRegister
<1>14. ASSUME NEW t \in TimerIds, TimerDeregister(t) PROVE FramingInv'
  BY <1>14, OtherStepKeepsFraming DEF TimerDeregister
<1>15. CASE RunLoopCreate
  BY <1>15, OtherStepKeepsFraming DEF RunLoopCreate
<1>16. CASE RunLoopStop
  BY <1>16, OtherStepKeepsFraming DEF RunLoopStop
<1>17. CASE RunLoopRun
  BY <1>17, OtherStepKeepsFraming DEF RunLoopRun
<1>18. CASE Select
  BY <1>18, OtherStepKeepsFraming DEF Select
<1>19. CASE SelectInterrupted
  BY <1>19, OtherStepKeepsFraming DEF SelectInterrupted
<1>20. CASE SelectFails
  BY <1>20, OtherStepKeepsFraming DEF SelectFails
<1>21. CASE FireExpiredTimer
  BY <1>21, OtherStepKeepsFraming DEF FireExpiredTimer
<1>22. CASE TimerCallbackReturns
  BY <1>22, OtherStepKeepsFraming DEF TimerCallbackReturns
<1>23. CASE TimersDone
  BY <1>23, OtherStepKeepsFraming DEF TimersDone
<1>24. CASE FileCallbackReturns
  BY <1>24, OtherStepKeepsFraming DEF FileCallbackReturns
<1>25. CASE FilesDone
  BY <1>25, OtherStepKeepsFraming DEF FilesDone, LoopOrExit
<1>26. CASE Tick
  BY <1>26, OtherStepKeepsFraming DEF Tick
<1>27. CASE UNCHANGED vars
  BY <1>27, OtherStepKeepsFraming DEF vars
<1> QED
  BY <1>1, <1>2, <1>3, <1>4, <1>5, <1>6, <1>7, <1>8, <1>9, <1>10, <1>11, <1>12, <1>13, <1>14, <1>15, <1>16, <1>17, <1>18, <1>19, <1>20, <1>21, <1>22, <1>23, <1>24, <1>25, <1>26, <1>27
  DEF Next, ApiCall, LoopStep

\* The loopback handler reads a callback's address only from a header, and
\* leaves the buffer empty, whatever datagrams other tasks send.
THEOREM LoopbackAlwaysFramed == Spec => []LoopbackFraming
<1>1. Spec => []FramingInv
  BY FramingInit, FramingStep, PTL DEF Spec
<1>2. FramingInv => LoopbackFraming
  <2> SUFFICES ASSUME FramingInv PROVE LoopbackFraming
    OBVIOUS
  <2>1. ASSUME pc = "loopback", loopbackBytes # <<>>
        PROVE  Head(loopbackBytes).cb # "context" /\ CallbackReady
    <3>1. WellFormed(loopbackBytes)
      BY <2>1 DEF FramingInv
    <3>2. /\ Head(loopbackBytes) = loopbackBytes[1] /\ Len(loopbackBytes) \in Nat
          /\ loopbackBytes[1] \in Tokens
      BY <2>1 DEF FramingInv
    <3>3. loopbackBytes[1].size \in Nat
      BY <3>2, BoundsAssumption DEF Tokens
    <3> QED BY <2>1, <3>1, <3>2, <3>3 DEF WellFormed, CallbackReady
  <2> QED BY <2>1 DEF FramingInv, LoopbackFraming
<1> QED BY <1>1, <1>2, PTL

(***************************************************************************)
(* Type correctness.                                                       *)
(***************************************************************************)
HandlesTyped ==
  /\ fileDescriptor \in [Handles -> AllFds \cup {NoFd}]
  /\ interests \in [Handles -> SUBSET Kinds]
  /\ callback \in [Handles -> BOOLEAN]
  /\ isAwaitingEvents \in [Handles -> BOOLEAN]
  /\ fdset \subseteq AllFds \X Kinds
  /\ loopbackFileDescriptor \in {LoopbackFd, NoFd}

ControlTyped == state \in States /\ pc \in Locations

LEMMA AwaitingTyped == MarkAwaiting => isAwaitingEvents' \in [Handles -> BOOLEAN]
<1>1. ASSUME NEW h \in Handles PROVE Awaits(h) \in BOOLEAN
  BY DEF Awaits
<1> QED BY <1>1 DEF MarkAwaiting

LEMMA HandlesStep == HandlesTyped /\ [Next]_vars => HandlesTyped'
<1> SUFFICES ASSUME HandlesTyped, [Next]_vars PROVE HandlesTyped'
  OBVIOUS
<1> USE DEF HandlesTyped
<1>1. ASSUME NEW h \in Handles, NEW fd \in AllFds, NEW kinds \in SUBSET Kinds,
             NEW hasCallback \in BOOLEAN, Link(h, fd, kinds, hasCallback), UNCHANGED fdset,
             loopbackFileDescriptor' \in {LoopbackFd, NoFd}
      PROVE  HandlesTyped'
  BY <1>1 DEF Link
<1>2. ASSUME NEW h, Unlink(h), UNCHANGED fdset, loopbackFileDescriptor' \in {LoopbackFd, NoFd}
      PROVE  HandlesTyped'
  BY <1>2 DEF Unlink
<1>3. ASSUME NEW h \in Handles, NEW fd \in Fds, NEW kinds \in SUBSET Kinds,
             NEW hasCallback \in BOOLEAN, FileHandleRegister(h, fd, kinds, hasCallback)
      PROVE  HandlesTyped'
  <2>1. fd \in AllFds
    BY DEF AllFds
  <2>2. Link(h, fd, kinds, hasCallback) /\ UNCHANGED fdset
    BY <1>3 DEF FileHandleRegister
  <2>3. loopbackFileDescriptor' \in {LoopbackFd, NoFd}
    BY <1>3 DEF FileHandleRegister, loopbackVars
  <2> QED BY <2>1, <2>2, <2>3 DEF Link
<1>4. ASSUME NEW h \in Handles, NEW kinds \in SUBSET Kinds, NEW hasCallback \in BOOLEAN,
             FileHandleUpdateInterests(h, kinds, hasCallback)
      PROVE  HandlesTyped'
  BY <1>4 DEF FileHandleUpdateInterests, loopbackVars
<1>5. ASSUME NEW h \in Handles, FileHandleDeregister(h) PROVE HandlesTyped'
  BY <1>5, <1>2 DEF FileHandleDeregister, loopbackVars
<1>6. CASE RunLoopCreate
  <2>1. LoopbackFd \in AllFds /\ {"read"} \in SUBSET Kinds
    BY BoundsAssumption DEF AllFds
  <2>2. ASSUME NEW h \in Handles \ Live, Link(h, LoopbackFd, {"read"}, TRUE),
               loopbackFileDescriptor' = LoopbackFd, UNCHANGED fdset
        PROVE  HandlesTyped'
    BY <2>1, <2>2, <1>1
  <2>3. ASSUME UNCHANGED <<handleVars, fdset>>, loopbackFileDescriptor' = LoopbackFd
        PROVE  HandlesTyped'
    BY <2>3 DEF handleVars
  <2> QED BY <1>6, <2>2, <2>3 DEF RunLoopCreate
<1>7. CASE RunLoopRelease
  BY <1>7, <1>2 DEF RunLoopRelease
<1>8. CASE Select
  <2>1. Polled \subseteq AllFds \X Kinds
    BY DEF Polled, Live
  <2>2. fdset' \subseteq Polled
    BY <1>8 DEF Select, LoopbackReady
  <2> QED BY <1>8, <2>1, <2>2, AwaitingTyped DEF Select, loopbackVars
<1>9. CASE SelectInterrupted \/ SelectFails
  BY <1>9, AwaitingTyped DEF SelectInterrupted, SelectFails, loopbackVars
<1>10. ASSUME NEW h \in Handles, SkipFileHandle(h) \/ DispatchFileHandle(h) \/ HandleLoopback(h)
       PROVE  HandlesTyped'
  BY <1>10 DEF SkipFileHandle, DispatchFileHandle, HandleLoopback, StepOver, loopbackVars
<1>11. CASE FilesDone
  BY <1>11 DEF FilesDone, handleVars, loopbackVars
<1>12. ASSUME NEW t \in TimerIds,
              TimerDeregister(t) \/ \E deadline \in 0..MaxTime : TimerRegister(t, deadline)
       PROVE  HandlesTyped'
  BY <1>12 DEF TimerRegister, TimerDeregister, handleVars, loopbackVars
<1>13. CASE \/ RunLoopStop \/ RunLoopRun \/ FireExpiredTimer \/ TimerCallbackReturns
            \/ TimersDone \/ FileCallbackReturns \/ Tick
  BY <1>13 DEF RunLoopStop, RunLoopRun, FireExpiredTimer, TimerCallbackReturns, TimersDone,
               FileCallbackReturns, Tick, handleVars, loopbackVars
<1>14. CASE InvokeStopCallback \/ InvokeCallback \/ LoopbackCallbackReturns \/ LoopbackDone
  BY <1>14 DEF InvokeStopCallback, InvokeCallback, LoopbackCallbackReturns, LoopbackDone,
               handleVars, loopbackVars
<1>15. CASE RunLoopRequestStop \/ \E size \in 0..(MaxContext + 1) : RunLoopScheduleCallback(size)
  BY <1>15 DEF RunLoopRequestStop, RunLoopScheduleCallback, Send, SocketFails, handleVars, loopbackVars
<1>16. CASE UNCHANGED vars
  BY <1>16 DEF vars, handleVars, loopbackVars
<1> QED
  BY <1>3, <1>4, <1>5, <1>6, <1>7, <1>8, <1>9, <1>10, <1>11, <1>12, <1>13, <1>14, <1>15, <1>16
  DEF Next, ApiCall, LoopStep

LEMMA ControlStep == ControlTyped /\ [Next]_vars => ControlTyped'
<1> SUFFICES ASSUME ControlTyped, [Next]_vars PROVE ControlTyped'
  OBVIOUS
<1> USE DEF ControlTyped, States, Locations, Callbacks
<1>1. ASSUME NEW h \in Handles, NEW kinds, NEW hasCallback,
             \/ \E fd \in Fds : FileHandleRegister(h, fd, kinds, hasCallback)
             \/ FileHandleUpdateInterests(h, kinds, hasCallback)
             \/ FileHandleDeregister(h)
      PROVE  ControlTyped'
  BY <1>1 DEF FileHandleRegister, FileHandleUpdateInterests, FileHandleDeregister
<1>2. ASSUME NEW t \in TimerIds,
             TimerDeregister(t) \/ \E deadline \in 0..MaxTime : TimerRegister(t, deadline)
      PROVE  ControlTyped'
  BY <1>2 DEF TimerRegister, TimerDeregister
<1>3. ASSUME NEW h \in Handles, SkipFileHandle(h) \/ DispatchFileHandle(h) \/ HandleLoopback(h)
      PROVE  ControlTyped'
  BY <1>3 DEF SkipFileHandle, DispatchFileHandle, HandleLoopback
<1>4. CASE RunLoopCreate \/ RunLoopRelease \/ RunLoopStop \/ RunLoopRun
  BY <1>4 DEF RunLoopCreate, RunLoopRelease, RunLoopStop, RunLoopRun
<1>5. CASE Select \/ SelectInterrupted \/ SelectFails \/ FilesDone \/ FileCallbackReturns
  BY <1>5 DEF Select, SelectInterrupted, SelectFails, FilesDone, FileCallbackReturns, LoopOrExit
<1>6. CASE FireExpiredTimer \/ TimerCallbackReturns \/ TimersDone \/ Tick
  BY <1>6 DEF FireExpiredTimer, TimerCallbackReturns, TimersDone, Tick
<1>7. CASE InvokeStopCallback \/ InvokeCallback \/ LoopbackCallbackReturns \/ LoopbackDone
  BY <1>7 DEF InvokeStopCallback, InvokeCallback, LoopbackCallbackReturns, LoopbackDone
<1>8. CASE RunLoopRequestStop \/ \E size \in 0..(MaxContext + 1) : RunLoopScheduleCallback(size)
  BY <1>8 DEF RunLoopRequestStop, RunLoopScheduleCallback, Send, SocketFails
<1>9. CASE UNCHANGED vars
  BY <1>9 DEF vars
<1> QED
  BY <1>1, <1>2, <1>3, <1>4, <1>5, <1>6, <1>7, <1>8, <1>9 DEF Next, ApiCall, LoopStep

\* Every variable keeps its type: in particular the links and the cursor are
\* never null where the code follows them.
THEOREM TypeCorrect == Spec => []TypeOK
<1>1. Init => HandlesTyped /\ ControlTyped
  BY DEF Init, HandlesTyped, ControlTyped, States, Locations
<1>2. Spec => []HandlesTyped
  BY <1>1, HandlesStep, PTL DEF Spec
<1>3. Spec => []ControlTyped
  BY <1>1, ControlStep, PTL DEF Spec
<1>4. Spec => []RingInv
  BY RingInit, RingStep, PTL DEF Spec
<1>5. Spec => []TimerInv
  BY TimerInit, TimerStep, PTL DEF Spec
<1>6. Spec => []FramingInv
  BY FramingInit, FramingStep, PTL DEF Spec
<1>7. HandlesTyped /\ ControlTyped /\ RingInv /\ TimerInv /\ FramingInv => TypeOK
  BY DEF HandlesTyped, ControlTyped, RingInv, RingTyped, TimerInv, TimersTyped, Timer,
         FramingInv, TypeOK
<1> QED BY <1>2, <1>3, <1>4, <1>5, <1>6, <1>7, PTL
=============================================================================
