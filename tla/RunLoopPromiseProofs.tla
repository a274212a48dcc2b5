------------------------ MODULE RunLoopPromiseProofs ------------------------
(***************************************************************************)
(* The run loop implements FileHandles: however callbacks register and     *)
(* deregister file handles while the run loop walks the ring, an event is  *)
(* handed over at most once, to the live handle it was reported for, and   *)
(* none is left over when the next select begins.                          *)
(***************************************************************************)
EXTENDS RunLoopProofs

(***************************************************************************)
(* The inductive invariant, on top of RingInv and HandlesTyped.            *)
(***************************************************************************)

\* A handle off the ring holds nothing, as zeroed memory would.
Cleared ==
  \A h \in Handles \ Live :
    fileDescriptor[h] = NoFd /\ interests[h] = {} /\ ~callback[h] /\ ~isAwaitingEvents[h]

\* Registered handles have descriptors of their own, and only the loopback
\* handle has the loopback socket's.
Descriptors ==
  /\ \A h \in Live : fileDescriptor[h] # NoFd
  /\ \A h, g \in Live : fileDescriptor[h] = fileDescriptor[g] => h = g
  /\ \A h \in Live : fileDescriptor[h] = LoopbackFd <=> h = loopbackFileHandle
  /\ loopbackFileDescriptor = NoFd => loopbackFileHandle = Null

\* Nothing is reported before a select has returned.
NothingReported == pc \in {"idle", "select"} => fdset = {}

\* P are the handles between the sentinel and the cursor: the pass has been
\* at them, and they wait for nothing any more.
Passed(P) ==
  /\ P \subseteq Live
  /\ \A h \in P : ~isAwaitingEvents[h]
  /\ \A h \in P : prev[h] \in P \cup {Sentinel}
  /\ prev[fileHandleCursor] \in P \cup {Sentinel}
InPass == pc \in {"files", "fileCallback", "loopback", "loopbackCallback"}
PassInv == InPass => \E P : Passed(P)

PromiseInv == Cleared /\ Descriptors /\ NothingReported /\ PassInv

\* What the neighbours of a registered node are.
LEMMA Neighbours ==
  ASSUME RingTyped, RingWhole, NEW n \in Nodes, next[n] # Null
  PROVE  /\ prev[n] \in Nodes /\ next[n] \in Nodes
         /\ prev[next[n]] = n /\ next[prev[n]] = n
         /\ next[next[n]] # Null /\ next[prev[n]] # Null
         /\ n # Sentinel => n \in Live
BY NodesAssumption DEF RingTyped, RingWhole, RingLinked, Nodes, Live

\* The cursor at the sentinel has passed every handle.
LEMMA PassEverywhere ==
  ASSUME RingTyped, RingWhole, NEW P, Passed(P), fileHandleCursor = Sentinel
  PROVE  P = Live
<1>1. SUFFICES ASSUME Live \ P # {} PROVE FALSE
  BY DEF Passed
<1>2. PICK h \in Live \ P : next[h] \notin Live \ P
  BY <1>1 DEF RingWhole
<1>3. h \in Nodes /\ next[h] # Null
  BY DEF Live, Nodes
<1>4. next[h] \in Nodes /\ next[next[h]] # Null /\ prev[next[h]] = h
  BY <1>3, Neighbours
<1>5. next[h] \in P \cup {Sentinel}
  BY <1>2, <1>4, Neighbours
<1>6. h \in P \cup {Sentinel}
  BY <1>4, <1>5 DEF Passed
<1>7. Sentinel \notin Live
  BY NodesAssumption DEF Live
<1> QED BY <1>2, <1>6, <1>7

(***************************************************************************)
(* The invariant holds.                                                    *)
(***************************************************************************)
LEMMA PromiseInit == Init => PromiseInv
<1> SUFFICES ASSUME Init PROVE PromiseInv
  OBVIOUS
<1>1. Live = {}
  BY NodesAssumption DEF Init, Live, Nodes
<1>2. pc = "idle"
  BY DEF Init
<1>3. Cleared
  BY DEF Init, Cleared
<1>4. Descriptors
  BY <1>1 DEF Init, Descriptors
<1>5. NothingReported
  BY DEF Init, NothingReported
<1>6. PassInv
  BY <1>2 DEF PassInv, InPass
<1> QED BY <1>3, <1>4, <1>5, <1>6 DEF PromiseInv

\* A step that leaves the handles and the pass over them alone.
LEMMA OtherStepKeepsPromiseInv ==
  ASSUME PromiseInv,
         UNCHANGED <<ringVars, handleVars, fileHandleCursor, fdset, loopbackVars>>,
         InPass' => InPass,
         pc' \in {"idle", "select"} => pc \in {"idle", "select"}
  PROVE  PromiseInv'
<1>1. /\ next' = next /\ prev' = prev /\ Live' = Live /\ fdset' = fdset
      /\ fileDescriptor' = fileDescriptor /\ interests' = interests /\ callback' = callback
      /\ isAwaitingEvents' = isAwaitingEvents /\ fileHandleCursor' = fileHandleCursor
      /\ loopbackFileHandle' = loopbackFileHandle
      /\ loopbackFileDescriptor' = loopbackFileDescriptor
  BY DEF ringVars, handleVars, loopbackVars, Live
<1>2. Cleared'
  BY <1>1 DEF PromiseInv, Cleared
<1>3. Descriptors'
  BY <1>1 DEF PromiseInv, Descriptors
<1>4. NothingReported'
  BY <1>1 DEF PromiseInv, NothingReported
<1>5. ASSUME NEW P, Passed(P) PROVE Passed(P)'
  BY <1>1, <1>5 DEF Passed
<1>6. PassInv'
  BY <1>5 DEF PromiseInv, PassInv
<1> QED BY <1>2, <1>3, <1>4, <1>6 DEF PromiseInv

\* A new handle is awaited by nobody and comes last in the pass.
LEMMA LinkKeepsPass ==
  ASSUME RingTyped, RingWhole, HandlesTyped,
         NEW h \in Handles, h \notin Live, NEW fd, NEW kinds, NEW hasCallback,
         Link(h, fd, kinds, hasCallback), fileHandleCursor' = fileHandleCursor,
         NEW P, Passed(P)
  PROVE  \E Q : Passed(Q)'
<1> DEFINE last == prev[Sentinel]
<1>1. /\ next' = [next EXCEPT ![prev[Sentinel]] = h, ![h] = Sentinel]
      /\ prev' = [prev EXCEPT ![h] = prev[Sentinel], ![Sentinel] = h]
      /\ isAwaitingEvents' = [isAwaitingEvents EXCEPT ![h] = FALSE]
  BY DEF Link
<1>2. Live' = Live \cup {h}
  BY <1>1, LinkKeepsRing
<1>3. h \in Nodes /\ Sentinel \in Nodes /\ h # Sentinel
  BY NodesAssumption DEF Nodes
<1>4. \A n \in Nodes : prev'[n] = IF n = Sentinel THEN h ELSE IF n = h THEN last ELSE prev[n]
  BY <1>1, <1>3 DEF RingTyped
<1>5. \A g \in Handles : isAwaitingEvents'[g] = IF g = h THEN FALSE ELSE isAwaitingEvents[g]
  BY <1>1 DEF HandlesTyped
<1>6. \A g \in Live : g \in Nodes /\ g # Sentinel /\ g # h /\ g \in Handles
  BY NodesAssumption DEF Live, Nodes
<1>7. fileHandleCursor \in Nodes /\ fileHandleCursor # h
  BY DEF RingTyped, RingWhole, CursorRegistered, Live
<1>8. CASE fileHandleCursor # Sentinel
  <2>1. Passed(P)'
    BY <1>2, <1>3, <1>4, <1>5, <1>6, <1>7, <1>8 DEF Passed
  <2> QED BY <2>1
<1>9. CASE fileHandleCursor = Sentinel
  <2>1. Passed(P \cup {h})'
    BY <1>2, <1>3, <1>4, <1>5, <1>6, <1>7, <1>9 DEF Passed
  <2> QED BY <2>1
<1> QED BY <1>8, <1>9

\* A handle that goes away leaves a pass of the others.
LEMMA UnlinkKeepsPass ==
  ASSUME RingTyped, RingWhole, HandlesTyped,
         NEW h \in Live, Unlink(h), NEW P, Passed(P)
  PROVE  Passed(P \ {h})'
<1>1. /\ fileHandleCursor' = CursorWithout(h)
      /\ next' = [next EXCEPT ![prev[h]] = next[h], ![h] = Null]
      /\ prev' = [prev EXCEPT ![next[h]] = prev[h], ![h] = Null]
      /\ isAwaitingEvents' = [isAwaitingEvents EXCEPT ![h] = FALSE]
  BY DEF Unlink
<1>2. Live' = Live \ {h}
  BY <1>1, UnlinkKeepsRing
<1>3. h \in Nodes /\ h \in Handles /\ h # Sentinel /\ next[h] # Null
  BY NodesAssumption DEF Live, Nodes
<1>4. /\ prev[h] \in Nodes /\ next[h] \in Nodes
      /\ prev[next[h]] = h /\ next[prev[h]] = h
  BY <1>3, Neighbours
<1>5. prev[h] # h /\ next[h] # h
  <2>1. {h} \in SUBSET Live /\ {h} # {}
    OBVIOUS
  <2>2. next[h] \notin {h}
    BY <2>1 DEF RingWhole
  <2> QED BY <2>2, <1>4
<1>6. \A n \in Nodes : prev'[n] = IF n = h THEN Null ELSE IF n = next[h] THEN prev[h] ELSE prev[n]
  BY <1>1, <1>3, <1>4, <1>5 DEF RingTyped
<1>7. ASSUME NEW n \in Nodes, n # h, next[n] # Null, prev[n] \in P \cup {Sentinel}
      PROVE  prev'[n] \in (P \ {h}) \cup {Sentinel}
  <2>1. CASE n = next[h]
    <3>1. prev[n] = h /\ prev'[n] = prev[h]
      BY <2>1, <1>4, <1>6, <1>7
    <3>2. h \in P
      BY <3>1, <1>3, <1>7
    <3> QED BY <3>1, <3>2, <1>5 DEF Passed
  <2>2. CASE n # next[h]
    <3>1. prev'[n] = prev[n]
      BY <2>2, <1>6, <1>7
    <3>2. next[prev[n]] = n
      BY <1>7, Neighbours
    <3>3. prev[n] # h
      BY <2>2, <3>2
    <3> QED BY <3>1, <3>3, <1>7
  <2> QED BY <2>1, <2>2
<1>8. \A g \in P : g \in Nodes /\ next[g] # Null /\ g \in Handles
  BY DEF Passed, Live, Nodes
<1>9. \A g \in P \ {h} : prev'[g] \in (P \ {h}) \cup {Sentinel}
  BY <1>7, <1>8 DEF Passed
<1>10. prev'[fileHandleCursor'] \in (P \ {h}) \cup {Sentinel}
  <2>1. CASE fileHandleCursor = h
    <3>1. fileHandleCursor' = next[h] /\ prev'[next[h]] = prev[h]
      BY <2>1, <1>1, <1>4, <1>5, <1>6 DEF CursorWithout
    <3> QED BY <2>1, <3>1, <1>5 DEF Passed
  <2>2. CASE fileHandleCursor # h
    <3>1. fileHandleCursor' = fileHandleCursor
      BY <2>2, <1>1 DEF CursorWithout
    <3>2. fileHandleCursor \in Nodes /\ next[fileHandleCursor] # Null
      BY DEF RingTyped, RingWhole, CursorRegistered
    <3> QED BY <2>2, <3>1, <3>2, <1>7 DEF Passed
  <2> QED BY <2>1, <2>2
<1>11. \A g \in P \ {h} : ~isAwaitingEvents'[g]
  BY <1>1, <1>8 DEF Passed, HandlesTyped
<1>12. P \ {h} \subseteq Live'
  BY <1>2 DEF Passed
<1> QED BY <1>9, <1>10, <1>11, <1>12 DEF Passed

\* Stepping over a handle adds it to those the pass has been at.
LEMMA StepOverKeepsPass ==
  ASSUME RingTyped, RingWhole, HandlesTyped,
         NEW h \in Handles, h = fileHandleCursor, StepOver(h), UNCHANGED ringVars,
         NEW P, Passed(P)
  PROVE  Passed(P \cup {h})'
<1>1. next' = next /\ prev' = prev /\ Live' = Live
  BY DEF ringVars, Live
<1>2. h \in Nodes /\ next[h] # Null /\ h \in Live
  BY DEF RingTyped, RingWhole, CursorRegistered, Live, Nodes
<1>3. prev[next[h]] = h
  BY <1>2, Neighbours
<1>4. fileHandleCursor' = next[h]
  BY DEF StepOver
<1>5. \A g \in Handles : isAwaitingEvents'[g] = IF g = h THEN FALSE ELSE isAwaitingEvents[g]
  BY DEF StepOver, HandlesTyped
<1>6. Live \subseteq Handles
  BY DEF Live
<1> QED BY <1>1, <1>2, <1>3, <1>4, <1>5, <1>6 DEF Passed

\* Registering a handle, by a caller or in RunLoopCreate.
LEMMA LinkKeepsPromiseInv ==
  ASSUME RingTyped, RingWhole, HandlesTyped, PromiseInv,
         NEW h \in Handles, h \notin Live, NEW fd, NEW kinds, NEW hasCallback,
         Link(h, fd, kinds, hasCallback), UNCHANGED <<fileHandleCursor, fdset, pc>>,
         fd \in AllFds, ~Registered(fd),
         fd = LoopbackFd <=> h = loopbackFileHandle',
         loopbackFileHandle' = loopbackFileHandle \/ loopbackFileHandle = Null,
         loopbackFileHandle' = loopbackFileHandle \/ loopbackFileHandle' = h,
         loopbackFileDescriptor' # NoFd
  PROVE  PromiseInv'
<1>1. /\ next' = [next EXCEPT ![prev[Sentinel]] = h, ![h] = Sentinel]
      /\ prev' = [prev EXCEPT ![h] = prev[Sentinel], ![Sentinel] = h]
  BY DEF Link
<1>2. Live' = Live \cup {h}
  BY <1>1, LinkKeepsRing
<1>3. \A g \in Handles :
        /\ fileDescriptor'[g] = IF g = h THEN fd ELSE fileDescriptor[g]
        /\ interests'[g] = IF g = h THEN kinds ELSE interests[g]
        /\ callback'[g] = IF g = h THEN hasCallback ELSE callback[g]
        /\ isAwaitingEvents'[g] = IF g = h THEN FALSE ELSE isAwaitingEvents[g]
  BY DEF Link, HandlesTyped
<1>4. Live \subseteq Handles /\ Null \notin Handles
  BY NodesAssumption DEF Live
<1>5. Cleared'
  BY <1>2, <1>3 DEF PromiseInv, Cleared
<1>6. Descriptors'
  <2>1. fd # NoFd
    BY NodesAssumption DEF AllFds
  <2>2. \A g \in Live : fileDescriptor[g] # fd /\ g # h
    BY DEF Registered
  <2>3. \A g \in Live' : fileDescriptor'[g] # NoFd
    BY <1>2, <1>3, <1>4, <2>1, <2>2 DEF PromiseInv, Descriptors
  <2>4. ASSUME NEW f \in Live', NEW g \in Live', fileDescriptor'[f] = fileDescriptor'[g]
        PROVE  f = g
    <3>1. f \in Live \cup {h} /\ g \in Live \cup {h} /\ f \in Handles /\ g \in Handles
      BY <1>2, <1>4
    <3>2. CASE f \in Live /\ g \in Live
      <4>1. fileDescriptor[f] = fileDescriptor[g]
        BY <1>3, <2>2, <2>4, <3>1, <3>2
      <4> QED BY <3>2, <4>1 DEF PromiseInv, Descriptors
    <3>3. CASE f \in Live /\ g = h
      BY <1>3, <2>2, <2>4, <3>1, <3>3
    <3>4. CASE f = h /\ g \in Live
      BY <1>3, <2>2, <2>4, <3>1, <3>4
    <3> QED BY <3>1, <3>2, <3>3, <3>4
  <2>5. \A g \in Live' : fileDescriptor'[g] = LoopbackFd <=> g = loopbackFileHandle'
    BY <1>2, <1>3, <1>4, <2>2 DEF PromiseInv, Descriptors
  <2> QED BY <2>3, <2>4, <2>5 DEF Descriptors
<1>7. NothingReported'
  BY DEF PromiseInv, NothingReported
<1>8. PassInv'
  <2>1. ASSUME InPass' PROVE \E P : Passed(P)'
    <3>1. InPass
      BY <2>1 DEF InPass
    <3>2. PICK P : Passed(P)
      BY <3>1 DEF PromiseInv, PassInv
    <3>3. fileHandleCursor' = fileHandleCursor
      OBVIOUS
    <3> QED BY <3>2, <3>3, LinkKeepsPass
  <2> QED BY <2>1 DEF PassInv
<1> QED BY <1>5, <1>6, <1>7, <1>8 DEF PromiseInv

\* Deregistering a handle, by a caller or in RunLoopRelease.
LEMMA UnlinkKeepsPromiseInv ==
  ASSUME RingTyped, RingWhole, HandlesTyped, PromiseInv,
         NEW h \in Live, Unlink(h), UNCHANGED <<fdset, pc>>,
         \/ h # loopbackFileHandle /\ UNCHANGED loopbackVars
         \/ h = loopbackFileHandle /\ loopbackFileHandle' = Null
  PROVE  PromiseInv'
<1>1. /\ fileHandleCursor' = CursorWithout(h)
      /\ next' = [next EXCEPT ![prev[h]] = next[h], ![h] = Null]
      /\ prev' = [prev EXCEPT ![next[h]] = prev[h], ![h] = Null]
  BY DEF Unlink
<1>2. Live' = Live \ {h}
  BY <1>1, UnlinkKeepsRing
<1>3. \A g \in Handles :
        /\ fileDescriptor'[g] = IF g = h THEN NoFd ELSE fileDescriptor[g]
        /\ interests'[g] = IF g = h THEN {} ELSE interests[g]
        /\ callback'[g] = IF g = h THEN FALSE ELSE callback[g]
        /\ isAwaitingEvents'[g] = IF g = h THEN FALSE ELSE isAwaitingEvents[g]
  BY DEF Unlink, HandlesTyped
<1>4. Live \subseteq Handles /\ Null \notin Handles
  BY NodesAssumption DEF Live
<1>5. Cleared'
  BY <1>2, <1>3 DEF PromiseInv, Cleared
<1>6. Descriptors'
  <2>1. \A g \in Live' : g \in Live /\ g # h /\ fileDescriptor'[g] = fileDescriptor[g]
    BY <1>2, <1>3, <1>4
  <2>2. /\ \A g \in Live' : fileDescriptor'[g] # NoFd
        /\ \A f, g \in Live' : fileDescriptor'[f] = fileDescriptor'[g] => f = g
    BY <2>1 DEF PromiseInv, Descriptors
  <2>3. \A g \in Live' : fileDescriptor'[g] = LoopbackFd <=> g = loopbackFileHandle
    BY <2>1 DEF PromiseInv, Descriptors
  <2>4. CASE h # loopbackFileHandle /\ UNCHANGED loopbackVars
    <3>1. loopbackFileHandle' = loopbackFileHandle
          /\ loopbackFileDescriptor' = loopbackFileDescriptor
      BY <2>4 DEF loopbackVars
    <3> QED BY <2>2, <2>3, <3>1 DEF PromiseInv, Descriptors
  <2>5. CASE h = loopbackFileHandle /\ loopbackFileHandle' = Null
    <3>1. \A g \in Live' : fileDescriptor'[g] # LoopbackFd /\ g # loopbackFileHandle'
      BY <2>1, <2>3, <2>5, <1>4
    <3> QED BY <2>2, <2>5, <3>1 DEF Descriptors
  <2> QED BY <2>4, <2>5
<1>7. NothingReported'
  BY DEF PromiseInv, NothingReported
<1>8. PassInv'
  <2>1. ASSUME InPass' PROVE \E P : Passed(P)'
    <3>1. InPass
      BY <2>1 DEF InPass
    <3>2. PICK P : Passed(P)
      BY <3>1 DEF PromiseInv, PassInv
    <3>3. Passed(P \ {h})'
      BY <3>2, UnlinkKeepsPass
    <3> QED BY <3>3
  <2> QED BY <2>1 DEF PassInv
<1> QED BY <1>5, <1>6, <1>7, <1>8 DEF PromiseInv

\* The scan changes only what handles await, outside a pass.
LEMMA ScanKeepsPromiseInv ==
  ASSUME HandlesTyped, PromiseInv, MarkAwaiting,
         UNCHANGED <<ringVars, fileDescriptor, interests, callback, loopbackVars>>,
         ~InPass', pc' \in {"idle", "select"} => fdset' = {}
  PROVE  PromiseInv'
<1>1. /\ Live' = Live /\ fileDescriptor' = fileDescriptor /\ interests' = interests
      /\ callback' = callback /\ loopbackFileHandle' = loopbackFileHandle
      /\ loopbackFileDescriptor' = loopbackFileDescriptor
  BY DEF ringVars, loopbackVars, Live
<1>2. \A g \in Handles \ Live : ~isAwaitingEvents'[g]
  BY DEF MarkAwaiting, Awaits
<1>3. Cleared'
  BY <1>1, <1>2 DEF PromiseInv, Cleared
<1>4. Descriptors'
  BY <1>1 DEF PromiseInv, Descriptors
<1>5. NothingReported' /\ PassInv'
  BY DEF NothingReported, PassInv
<1> QED BY <1>3, <1>4, <1>5 DEF PromiseInv

\* Stepping over a handle, on the way to its callback or past it.
LEMMA StepOverKeepsPromiseInv ==
  ASSUME RingTyped, RingWhole, HandlesTyped, PromiseInv, InPass,
         NEW h \in Handles, h = fileHandleCursor, StepOver(h),
         UNCHANGED <<ringVars, fileDescriptor, interests, callback, fdset, loopbackVars>>,
         InPass'
  PROVE  PromiseInv'
<1>1. /\ Live' = Live /\ fileDescriptor' = fileDescriptor /\ interests' = interests
      /\ callback' = callback /\ loopbackFileHandle' = loopbackFileHandle
      /\ loopbackFileDescriptor' = loopbackFileDescriptor
  BY DEF ringVars, loopbackVars, Live
<1>2. \A g \in Handles : isAwaitingEvents'[g] = IF g = h THEN FALSE ELSE isAwaitingEvents[g]
  BY DEF StepOver, HandlesTyped
<1>3. Cleared'
  BY <1>1, <1>2 DEF PromiseInv, Cleared
<1>4. Descriptors'
  BY <1>1 DEF PromiseInv, Descriptors
<1>5. NothingReported'
  BY DEF NothingReported, InPass
<1>6. PassInv'
  <2>1. PICK P : Passed(P)
    BY DEF PromiseInv, PassInv
  <2>2. Passed(P \cup {h})'
    BY <2>1, StepOverKeepsPass
  <2> QED BY <2>2 DEF PassInv
<1> QED BY <1>3, <1>4, <1>5, <1>6 DEF PromiseInv

\* The pass begins with the first handle, nothing behind it.
LEMMA TimersDoneKeepsPromiseInv ==
  ASSUME RingTyped, RingWhole, PromiseInv, TimersDone
  PROVE  PromiseInv'
<1>1. /\ next' = next /\ prev' = prev /\ Live' = Live /\ fdset' = fdset
      /\ fileDescriptor' = fileDescriptor /\ interests' = interests /\ callback' = callback
      /\ isAwaitingEvents' = isAwaitingEvents /\ fileHandleCursor' = next[Sentinel]
      /\ loopbackFileHandle' = loopbackFileHandle
      /\ loopbackFileDescriptor' = loopbackFileDescriptor /\ pc' = "files"
  BY DEF TimersDone, ringVars, handleVars, loopbackVars, Live
<1>2. prev[next[Sentinel]] = Sentinel
  BY DEF RingTyped, RingWhole, RingLinked, Nodes
<1>3. Passed({})'
  BY <1>1, <1>2 DEF Passed
<1>4. Cleared'
  BY <1>1 DEF PromiseInv, Cleared
<1>5. Descriptors'
  BY <1>1 DEF PromiseInv, Descriptors
<1>6. NothingReported'
  BY <1>1 DEF NothingReported
<1> QED BY <1>3, <1>4, <1>5, <1>6 DEF PromiseInv, PassInv

LEMMA PromiseStep ==
  RingInv /\ HandlesTyped /\ PromiseInv /\ [Next]_vars => PromiseInv'
<1> SUFFICES ASSUME RingInv, HandlesTyped, PromiseInv, [Next]_vars PROVE PromiseInv'
  OBVIOUS
<1>0. RingTyped /\ RingWhole /\ LoopbackLive
  BY DEF RingInv
<1>1. ASSUME NEW h \in Handles, NEW fd \in Fds, NEW kinds, NEW hasCallback,
             FileHandleRegister(h, fd, kinds, hasCallback)
      PROVE  PromiseInv'
  <2>1. /\ h \notin Live /\ ~Registered(fd) /\ Link(h, fd, kinds, hasCallback)
        /\ UNCHANGED <<fileHandleCursor, fdset, pc>>
        /\ loopbackFileHandle' = loopbackFileHandle
        /\ loopbackFileDescriptor' # NoFd
    BY <1>1 DEF FileHandleRegister, loopbackVars, MayCall
  <2>2. fd \in AllFds /\ fd # LoopbackFd
    BY NodesAssumption DEF AllFds
  <2>3. h # loopbackFileHandle
    BY <2>1, <1>0, NodesAssumption DEF LoopbackLive
  <2> QED BY <2>1, <2>2, <2>3, <1>0, LinkKeepsPromiseInv
<1>2. CASE RunLoopCreate
  <2>1. /\ loopbackFileDescriptor = NoFd /\ loopbackFileHandle = Null /\ pc = "idle"
        /\ loopbackFileDescriptor' = LoopbackFd
    BY <1>2 DEF RunLoopCreate, PromiseInv, Descriptors
  <2>2. ASSUME NEW h \in Handles \ Live, Link(h, LoopbackFd, {"read"}, TRUE),
               loopbackFileHandle' = h, UNCHANGED <<fileHandleCursor, fdset, pc>>
        PROVE  PromiseInv'
    <3>1. ~Registered(LoopbackFd)
      BY <2>1, NodesAssumption DEF Registered, PromiseInv, Descriptors, Live
    <3>2. LoopbackFd \in AllFds /\ LoopbackFd # NoFd
      BY NodesAssumption DEF AllFds
    <3> QED BY <2>1, <2>2, <3>1, <3>2, <1>0, LinkKeepsPromiseInv
  <2>3. ASSUME UNCHANGED <<ringVars, handleVars, loopbackFileHandle, fileHandleCursor, fdset>>,
               pc' = "fatal"
        PROVE  PromiseInv'
    <3>1. /\ Live' = Live /\ fileDescriptor' = fileDescriptor /\ interests' = interests
          /\ callback' = callback /\ isAwaitingEvents' = isAwaitingEvents
          /\ loopbackFileHandle' = loopbackFileHandle
      BY <2>3 DEF ringVars, handleVars, Live
    <3>2. Cleared'
      BY <3>1 DEF PromiseInv, Cleared
    <3>3. Descriptors'
      BY <3>1, <2>1, NodesAssumption DEF PromiseInv, Descriptors
    <3>4. NothingReported' /\ PassInv'
      BY <2>3 DEF NothingReported, PassInv, InPass
    <3> QED BY <3>2, <3>3, <3>4 DEF PromiseInv
  <2> QED BY <1>2, <2>1, <2>2, <2>3 DEF RunLoopCreate
<1>3. ASSUME NEW h \in Handles, FileHandleDeregister(h) PROVE PromiseInv'
  <2>1. h \in Live /\ h # loopbackFileHandle /\ Unlink(h) /\ UNCHANGED <<fdset, pc, loopbackVars>>
    BY <1>3 DEF FileHandleDeregister
  <2> QED BY <2>1, <1>0, UnlinkKeepsPromiseInv
<1>4. CASE RunLoopRelease
  <2>1. loopbackFileHandle \in Live
    BY <1>4, <1>0 DEF RunLoopRelease, LoopbackLive
  <2>2. Unlink(loopbackFileHandle) /\ loopbackFileHandle' = Null /\ UNCHANGED <<fdset, pc>>
    BY <1>4 DEF RunLoopRelease
  <2> QED BY <2>1, <2>2, <1>0, UnlinkKeepsPromiseInv
<1>5. ASSUME NEW h \in Handles, NEW kinds \in SUBSET Kinds, NEW hasCallback \in BOOLEAN,
             FileHandleUpdateInterests(h, kinds, hasCallback)
      PROVE  PromiseInv'
  <2>1. /\ next' = next /\ prev' = prev /\ Live' = Live /\ fdset' = fdset /\ pc' = pc
        /\ fileDescriptor' = fileDescriptor /\ isAwaitingEvents' = isAwaitingEvents
        /\ fileHandleCursor' = fileHandleCursor
        /\ loopbackFileHandle' = loopbackFileHandle
        /\ loopbackFileDescriptor' = loopbackFileDescriptor
    BY <1>5 DEF FileHandleUpdateInterests, ringVars, loopbackVars, Live
  <2>2. \A g \in Handles \ {h} : interests'[g] = interests[g] /\ callback'[g] = callback[g]
    BY <1>5 DEF FileHandleUpdateInterests, HandlesTyped
  <2>3. h \in Live
    BY <1>5 DEF FileHandleUpdateInterests
  <2>4. Cleared'
    BY <2>1, <2>2, <2>3 DEF PromiseInv, Cleared
  <2>5. Descriptors' /\ NothingReported'
    BY <2>1 DEF PromiseInv, Descriptors, NothingReported
  <2>6. ASSUME NEW P, Passed(P) PROVE Passed(P)'
    BY <2>1, <2>6 DEF Passed
  <2>7. PassInv'
    BY <2>1, <2>6 DEF PromiseInv, PassInv, InPass
  <2> QED BY <2>4, <2>5, <2>7 DEF PromiseInv
<1>6. CASE Select
  <2>1. /\ MarkAwaiting /\ pc' = "timers"
        /\ UNCHANGED <<ringVars, fileDescriptor, interests, callback, loopbackVars>>
    BY <1>6 DEF Select
  <2>2. ~InPass' /\ (pc' \in {"idle", "select"} => fdset' = {})
    BY <2>1 DEF InPass
  <2> QED BY <2>1, <2>2, ScanKeepsPromiseInv
<1>7. CASE SelectInterrupted \/ SelectFails
  <2>1. /\ MarkAwaiting /\ pc = "select" /\ pc' \in {"select", "fatal"} /\ fdset' = fdset
        /\ UNCHANGED <<ringVars, fileDescriptor, interests, callback, loopbackVars>>
    BY <1>7 DEF SelectInterrupted, SelectFails
  <2>2. ~InPass' /\ fdset' = {}
    BY <2>1 DEF InPass, PromiseInv, NothingReported
  <2> QED BY <2>1, <2>2, ScanKeepsPromiseInv
<1>8. ASSUME NEW h \in Handles, SkipFileHandle(h) \/ DispatchFileHandle(h) \/ HandleLoopback(h)
      PROVE  PromiseInv'
  <2>1. /\ h = fileHandleCursor /\ StepOver(h) /\ pc = "files"
        /\ UNCHANGED <<ringVars, fileDescriptor, interests, callback, fdset, loopbackVars>>
    BY <1>8 DEF SkipFileHandle, DispatchFileHandle, HandleLoopback
  <2>2. pc' \in {"files", "fileCallback", "loopback"}
    BY <1>8 DEF SkipFileHandle, DispatchFileHandle, HandleLoopback
  <2>3. InPass /\ InPass'
    BY <2>1, <2>2 DEF InPass
  <2> QED BY <2>1, <2>3, <1>0, StepOverKeepsPromiseInv
<1>9. CASE TimersDone
  BY <1>9, <1>0, TimersDoneKeepsPromiseInv
<1>10. CASE FilesDone
  <2>1. /\ Live' = Live /\ fdset' = {} /\ pc' \in {"select", "idle"}
        /\ fileDescriptor' = fileDescriptor /\ interests' = interests /\ callback' = callback
        /\ isAwaitingEvents' = isAwaitingEvents
        /\ loopbackFileHandle' = loopbackFileHandle
        /\ loopbackFileDescriptor' = loopbackFileDescriptor
    BY <1>10 DEF FilesDone, LoopOrExit, ringVars, handleVars, loopbackVars, Live
  <2>2. Cleared'
    BY <2>1 DEF PromiseInv, Cleared
  <2>3. Descriptors'
    BY <2>1 DEF PromiseInv, Descriptors
  <2>4. NothingReported' /\ PassInv'
    BY <2>1 DEF NothingReported, PassInv, InPass
  <2> QED BY <2>2, <2>3, <2>4 DEF PromiseInv
<1>11. ASSUME NEW t \in TimerIds,
              TimerDeregister(t) \/ \E deadline \in 0..MaxTime : TimerRegister(t, deadline)
       PROVE  PromiseInv'
  BY <1>11, OtherStepKeepsPromiseInv DEF TimerRegister, TimerDeregister, InPass
<1>12. CASE RunLoopStop \/ RunLoopRun \/ Tick
  BY <1>12, OtherStepKeepsPromiseInv DEF RunLoopStop, RunLoopRun, Tick, InPass
<1>13. CASE FireExpiredTimer \/ TimerCallbackReturns \/ FileCallbackReturns
  BY <1>13, OtherStepKeepsPromiseInv DEF FireExpiredTimer, TimerCallbackReturns,
     FileCallbackReturns, InPass
<1>14. CASE InvokeStopCallback \/ InvokeCallback \/ LoopbackCallbackReturns \/ LoopbackDone
  BY <1>14, OtherStepKeepsPromiseInv DEF InvokeStopCallback, InvokeCallback,
     LoopbackCallbackReturns, LoopbackDone, InPass
<1>15. CASE RunLoopRequestStop \/ \E size \in 0..(MaxContext + 1) : RunLoopScheduleCallback(size)
  BY <1>15, OtherStepKeepsPromiseInv DEF RunLoopRequestStop, RunLoopScheduleCallback, Send,
     SocketFails, InPass
<1>16. CASE UNCHANGED vars
  BY <1>16, OtherStepKeepsPromiseInv DEF vars, InPass
<1> QED
  BY <1>1, <1>2, <1>3, <1>4, <1>5, <1>6, <1>7, <1>8, <1>9, <1>10, <1>11, <1>12, <1>13,
     <1>14, <1>15, <1>16
  DEF Next, ApiCall, LoopStep

(***************************************************************************)
(* Every step is a step of FileHandles or leaves what it speaks of.        *)
(***************************************************************************)
Shown == <<Live, fileDescriptor, interests, callback, Reported, CallbackRuns>>

\* What is reported is reported by the handles and the descriptor set alone.
LEMMA ReportedKept ==
  ASSUME UNCHANGED <<fileDescriptor, isAwaitingEvents, fdset>>
  PROVE  Reported' = Reported
BY DEF Reported

\* A handle that no longer waits has nothing reported to it.
LEMMA ReportedToOthers ==
  ASSUME HandlesTyped, NEW h \in Handles, UNCHANGED fdset,
         isAwaitingEvents' = [isAwaitingEvents EXCEPT ![h] = FALSE],
         \A g \in Handles \ {h} : fileDescriptor'[g] = fileDescriptor[g]
  PROVE  Reported' = Reported \ Promised!ReportedTo(h)
<1>1. \A g \in Handles : isAwaitingEvents'[g] = IF g = h THEN FALSE ELSE isAwaitingEvents[g]
  BY DEF HandlesTyped
<1>2. ASSUME NEW g \in Handles, NEW k \in Kinds
      PROVE  /\ <<g, k>> \in Reported'
                  <=> isAwaitingEvents'[g] /\ <<fileDescriptor'[g], k>> \in fdset'
             /\ <<g, k>> \in Reported
                  <=> isAwaitingEvents[g] /\ <<fileDescriptor[g], k>> \in fdset
             /\ <<g, k>> \in Promised!ReportedTo(h) <=> <<g, k>> \in Reported /\ g = h
  BY <1>2 DEF Reported, Promised!ReportedTo
<1>3. ASSUME NEW g \in Handles, NEW k \in Kinds
      PROVE  <<g, k>> \in Reported' <=> <<g, k>> \in Reported \ Promised!ReportedTo(h)
  BY <1>1, <1>2
<1>4. Reported \subseteq Handles \X Kinds /\ Reported' \subseteq Handles \X Kinds
  BY DEF Reported
<1>5. \A e \in Handles \X Kinds : \E g \in Handles, k \in Kinds : e = <<g, k>>
  OBVIOUS
<1> QED BY <1>3, <1>4, <1>5

\* Between two passes nothing is left over.
LEMMA NothingLeftOver ==
  ASSUME HandlesTyped, fdset = {}
  PROVE  Reported = {}
BY DEF Reported

\* A new registration starts with nothing reported.
LEMMA RegisterImplements ==
  ASSUME RingTyped, RingWhole, HandlesTyped, PromiseInv,
         NEW h \in Handles, h \notin Live, NEW fd, NEW kinds, NEW hasCallback,
         Link(h, fd, kinds, hasCallback), UNCHANGED <<fileHandleCursor, fdset, pc>>,
         ~Registered(fd)
  PROVE  Promised!FileHandleRegister(h, fd, kinds, hasCallback)
<1>1. /\ next' = [next EXCEPT ![prev[Sentinel]] = h, ![h] = Sentinel]
      /\ prev' = [prev EXCEPT ![h] = prev[Sentinel], ![Sentinel] = h]
  BY DEF Link
<1>2. Live' = Live \cup {h}
  BY <1>1, LinkKeepsRing
<1>3. \A g \in Live : fileDescriptor[g] # fd
  BY DEF Registered
<1>4. ~isAwaitingEvents[h]
  BY DEF PromiseInv, Cleared
<1>5. isAwaitingEvents' = isAwaitingEvents
  BY <1>4 DEF Link, HandlesTyped
<1>6. \A g \in Handles \ {h} : fileDescriptor'[g] = fileDescriptor[g]
  BY DEF Link, HandlesTyped
<1>7. Reported' = Reported
  <2>1. \A e \in Handles \X Kinds :
          isAwaitingEvents[e[1]] => e[1] # h /\ fileDescriptor'[e[1]] = fileDescriptor[e[1]]
    BY <1>4, <1>6
  <2> QED BY <1>5, <2>1 DEF Reported
<1>8. CallbackRuns' = CallbackRuns
  BY DEF CallbackRuns
<1> QED BY <1>2, <1>3, <1>7, <1>8 DEF Link, Promised!FileHandleRegister

\* With a registration go the events reported to it.
LEMMA DeregisterImplements ==
  ASSUME RingTyped, RingWhole, HandlesTyped,
         NEW h \in Live, Unlink(h), UNCHANGED <<fdset, pc>>
  PROVE  Promised!FileHandleDeregister(h)
<1>1. /\ fileHandleCursor' = CursorWithout(h)
      /\ next' = [next EXCEPT ![prev[h]] = next[h], ![h] = Null]
      /\ prev' = [prev EXCEPT ![next[h]] = prev[h], ![h] = Null]
  BY DEF Unlink
<1>2. Live' = Live \ {h} /\ h \in Handles
  BY <1>1, UnlinkKeepsRing DEF Live
<1>3. /\ isAwaitingEvents' = [isAwaitingEvents EXCEPT ![h] = FALSE]
      /\ \A g \in Handles \ {h} : fileDescriptor'[g] = fileDescriptor[g]
  BY DEF Unlink, HandlesTyped
<1>4. Reported' = Reported \ Promised!ReportedTo(h)
  BY <1>2, <1>3, ReportedToOthers
<1>5. CallbackRuns' = CallbackRuns
  BY DEF CallbackRuns
<1> QED BY <1>2, <1>4, <1>5 DEF Unlink, Promised!FileHandleDeregister

\* Descriptors tell handles apart, so that what select reports of a
\* descriptor is what the one handle that has it waits for.
LEMMA SelectImplements ==
  ASSUME HandlesTyped, PromiseInv, Select
  PROVE  Promised!Select
<1>1. /\ pc = "select" /\ pc' = "timers" /\ MarkAwaiting /\ fdset' \subseteq Polled
      /\ Live' = Live /\ fileDescriptor' = fileDescriptor
      /\ interests' = interests /\ callback' = callback
  BY DEF Select, LoopbackReady, ringVars, Live
<1>2. Reported = {}
  BY <1>1, NothingLeftOver DEF PromiseInv, NothingReported
<1>3. ~CallbackRuns /\ ~CallbackRuns'
  BY <1>1 DEF CallbackRuns
<1>4. ASSUME NEW g \in Handles, NEW k \in Kinds,
             isAwaitingEvents'[g], <<fileDescriptor'[g], k>> \in fdset'
      PROVE  g \in Live /\ k \in interests[g]
  <2>1. g \in Live
    BY <1>1, <1>4 DEF MarkAwaiting, Awaits
  <2>2. <<fileDescriptor[g], k>> \in Polled
    BY <1>1, <1>4
  <2>3. PICK f \in Live : <<fileDescriptor[g], k>> \in {fileDescriptor[f]} \X interests[f]
    BY <2>2 DEF Polled
  <2>4. fileDescriptor[f] = fileDescriptor[g] /\ k \in interests[f]
    BY <2>3
  <2>5. f = g
    BY <2>1, <2>4 DEF PromiseInv, Descriptors
  <2> QED BY <2>1, <2>4, <2>5
<1>5. Reported' \subseteq {e \in Live \X Kinds : e[2] \in interests[e[1]]}
  <2>1. ASSUME NEW e \in Reported' PROVE e \in Live \X Kinds /\ e[2] \in interests[e[1]]
    <3>1. /\ e \in Handles \X Kinds
          /\ isAwaitingEvents'[e[1]] /\ <<fileDescriptor'[e[1]], e[2]>> \in fdset'
      BY <2>1 DEF Reported
    <3>2. e[1] \in Live /\ e[2] \in interests[e[1]]
      BY <3>1, <1>4
    <3> QED BY <3>1, <3>2
  <2> QED BY <2>1
<1>6. (CallbackRuns' = CallbackRuns) = TRUE
  BY <1>3 DEF CallbackRuns
<1> QED BY <1>1, <1>2, <1>3, <1>5, <1>6 DEF Promised!Select

\* The pass is at a live handle, which then waits for nothing more.
LEMMA StepOverShown ==
  ASSUME RingTyped, RingWhole, HandlesTyped,
         NEW h \in Handles, h = fileHandleCursor, StepOver(h), pc = "files",
         UNCHANGED <<ringVars, fileDescriptor, interests, callback, fdset>>
  PROVE  /\ h \in Live /\ ~CallbackRuns
         /\ UNCHANGED <<Live, fileDescriptor, interests, callback>>
         /\ Reported' = Reported \ Promised!ReportedTo(h)
<1>1. h \in Live
  BY DEF RingWhole, CursorRegistered, Live
<1>2. Live' = Live
  BY DEF ringVars, Live
<1>3. Reported' = Reported \ Promised!ReportedTo(h)
  BY ReportedToOthers DEF StepOver
<1>4. ~CallbackRuns
  BY DEF CallbackRuns
<1> QED BY <1>1, <1>2, <1>3, <1>4

\* What the run loop finds in the descriptor set for a handle that awaits
\* events is what was reported to it.
LEMMA EventsReported ==
  ASSUME HandlesTyped, NEW h \in Handles, isAwaitingEvents[h]
  PROVE  Events(h) = {k \in interests[h] : <<h, k>> \in Reported}
<1>1. interests[h] \subseteq Kinds
  BY DEF HandlesTyped
<1>2. \A k \in Kinds : <<h, k>> \in Reported <=> <<fileDescriptor[h], k>> \in fdset
  BY DEF Reported
<1> QED BY <1>1, <1>2 DEF Events

\* A step that leaves the handles alone can only be a callback's return.
LEMMA OtherStepImplements ==
  ASSUME UNCHANGED <<ringVars, handleVars, fdset>>, CallbackRuns' => CallbackRuns
  PROVE  Promised!CallbackReturns \/ UNCHANGED Shown
<1>1. /\ Live' = Live /\ fileDescriptor' = fileDescriptor /\ interests' = interests
      /\ callback' = callback /\ Reported' = Reported
  BY ReportedKept DEF ringVars, handleVars, Live
<1>2. CASE CallbackRuns /\ ~CallbackRuns'
  <2>1. CallbackRuns' = FALSE
    BY <1>2 DEF CallbackRuns
  <2> QED BY <1>1, <1>2, <2>1 DEF Promised!CallbackReturns
<1>3. CASE CallbackRuns' <=> CallbackRuns
  <2>1. CallbackRuns' = CallbackRuns
    BY <1>3 DEF CallbackRuns
  <2> QED BY <1>1, <2>1 DEF Shown
<1> QED BY <1>2, <1>3

LEMMA Implements ==
  RingInv /\ HandlesTyped /\ PromiseInv /\ [Next]_vars => [Promised!Next]_Shown
<1> SUFFICES ASSUME RingInv, HandlesTyped, PromiseInv, [Next]_vars
             PROVE  Promised!Next \/ UNCHANGED Shown
  OBVIOUS
<1>0. RingTyped /\ RingWhole /\ LoopbackLive /\ Live \subseteq Handles
  BY DEF RingInv, Live
<1>1. ASSUME NEW h \in Handles, NEW fd \in Fds, NEW kinds \in SUBSET Kinds,
             NEW hasCallback \in BOOLEAN, FileHandleRegister(h, fd, kinds, hasCallback)
      PROVE  Promised!Next
  <2>1. fd \in AllFds
    BY DEF AllFds
  <2>2. Promised!FileHandleRegister(h, fd, kinds, hasCallback)
    BY <1>0, <1>1, RegisterImplements DEF FileHandleRegister
  <2> QED BY <2>1, <2>2 DEF Promised!Next
<1>2. CASE RunLoopCreate
  <2>1. ASSUME NEW h \in Handles \ Live, Link(h, LoopbackFd, {"read"}, TRUE),
               UNCHANGED <<fileHandleCursor, fdset, pc>>
        PROVE  Promised!Next
    <3>1. /\ LoopbackFd \in AllFds /\ {"read"} \in SUBSET Kinds
          /\ loopbackFileHandle = Null
      BY <1>2, BoundsAssumption DEF AllFds, RunLoopCreate, PromiseInv, Descriptors
    <3>2. ~Registered(LoopbackFd)
      BY <3>1, NodesAssumption DEF Registered, PromiseInv, Descriptors, Live
    <3>3. Promised!FileHandleRegister(h, LoopbackFd, {"read"}, TRUE)
      BY <1>0, <2>1, <3>2, RegisterImplements
    <3> QED BY <3>1, <3>3 DEF Promised!Next
  <2>2. ASSUME UNCHANGED <<ringVars, handleVars, fdset>>, pc = "idle", pc' = "fatal"
        PROVE  Promised!CallbackReturns \/ UNCHANGED Shown
    BY <2>2, OtherStepImplements DEF CallbackRuns
  <2> QED BY <1>2, <2>1, <2>2 DEF RunLoopCreate, Promised!Next
<1>3. ASSUME NEW h \in Handles, FileHandleDeregister(h) PROVE Promised!Next
  <2>1. h \in Live /\ Unlink(h) /\ UNCHANGED <<fdset, pc>>
    BY <1>3 DEF FileHandleDeregister
  <2> QED BY <2>1, <1>0, DeregisterImplements DEF Promised!Next
<1>4. CASE RunLoopRelease
  <2>1. loopbackFileHandle \in Live
    BY <1>4, <1>0 DEF RunLoopRelease, LoopbackLive
  <2>2. Unlink(loopbackFileHandle) /\ UNCHANGED <<fdset, pc>>
    BY <1>4 DEF RunLoopRelease
  <2> QED BY <2>1, <2>2, <1>0, DeregisterImplements DEF Promised!Next
<1>5. ASSUME NEW h \in Handles, NEW kinds \in SUBSET Kinds, NEW hasCallback \in BOOLEAN,
             FileHandleUpdateInterests(h, kinds, hasCallback)
      PROVE  Promised!Next
  <2>1. /\ h \in Live /\ Live' = Live /\ pc' = pc
        /\ UNCHANGED <<fileDescriptor, isAwaitingEvents, fdset>>
        /\ interests' = [interests EXCEPT ![h] = kinds]
        /\ callback' = [callback EXCEPT ![h] = hasCallback]
    BY <1>5 DEF FileHandleUpdateInterests, ringVars, Live
  <2>2. Reported' = Reported
    BY <2>1, ReportedKept
  <2>3. CallbackRuns' = CallbackRuns
    BY <2>1 DEF CallbackRuns
  <2>4. Promised!FileHandleUpdateInterests(h, kinds, hasCallback)
    BY <2>1, <2>2, <2>3 DEF Promised!FileHandleUpdateInterests
  <2> QED BY <2>4 DEF Promised!Next
<1>6. CASE Select
  BY <1>6, SelectImplements DEF Promised!Next
<1>7. CASE SelectInterrupted \/ SelectFails
  <2>1. /\ pc = "select" /\ pc' \in {"select", "fatal"} /\ fdset' = fdset /\ Live' = Live
        /\ UNCHANGED <<fileDescriptor, interests, callback>>
    BY <1>7 DEF SelectInterrupted, SelectFails, ringVars, Live
  <2>2. Reported = {} /\ Reported' = {}
    BY <2>1 DEF PromiseInv, NothingReported, Reported
  <2>3. CallbackRuns' = CallbackRuns
    BY <2>1 DEF CallbackRuns
  <2> QED BY <2>1, <2>2, <2>3 DEF Shown
<1>8. ASSUME NEW h \in Handles, SkipFileHandle(h) PROVE Promised!Next
  <2>1. /\ h = fileHandleCursor /\ StepOver(h) /\ pc = "files" /\ pc' = pc
        /\ UNCHANGED <<ringVars, fileDescriptor, interests, callback, fdset>>
        /\ ~Dispatchable(h)
    BY <1>8 DEF SkipFileHandle
  <2>2. /\ ~CallbackRuns /\ UNCHANGED <<Live, fileDescriptor, interests, callback>>
        /\ Reported' = Reported \ Promised!ReportedTo(h)
    BY <1>0, <2>1, StepOverShown
  <2>3. callback[h] => \A k \in interests[h] : <<h, k>> \notin Reported
    <3>1. CASE isAwaitingEvents[h]
      BY <2>1, <3>1, EventsReported DEF Dispatchable
    <3>2. CASE ~isAwaitingEvents[h]
      BY <3>2 DEF Reported
    <3> QED BY <3>1, <3>2
  <2>4. CallbackRuns' = CallbackRuns
    BY <2>1 DEF CallbackRuns
  <2>5. Promised!Drop(h)
    BY <2>2, <2>3, <2>4 DEF Promised!Drop
  <2> QED BY <2>5 DEF Promised!Next
<1>9. ASSUME NEW h \in Handles, DispatchFileHandle(h) \/ HandleLoopback(h) PROVE Promised!Next
  <2>1. /\ h = fileHandleCursor /\ StepOver(h) /\ pc = "files"
        /\ UNCHANGED <<ringVars, fileDescriptor, interests, callback, fdset>>
        /\ Dispatchable(h) /\ pc' \in {"fileCallback", "loopback"}
    BY <1>9 DEF DispatchFileHandle, HandleLoopback
  <2>2. /\ h \in Live /\ ~CallbackRuns
        /\ UNCHANGED <<Live, fileDescriptor, interests, callback>>
        /\ Reported' = Reported \ Promised!ReportedTo(h)
    BY <1>0, <2>1, StepOverShown
  <2>3. callback[h] /\ Events(h) # {} /\ Events(h) = {k \in interests[h] : <<h, k>> \in Reported}
    BY <2>1, EventsReported DEF Dispatchable
  <2>4. CallbackRuns' = TRUE
    BY <2>1 DEF CallbackRuns
  <2>5. Promised!Dispatch(h, Events(h))
    BY <2>2, <2>3, <2>4 DEF Promised!Dispatch
  <2>6. Events(h) \in SUBSET Kinds
    BY DEF Events, HandlesTyped
  <2> QED BY <2>5, <2>6 DEF Promised!Next
<1>10. CASE FilesDone
  <2>1. /\ fileHandleCursor = Sentinel /\ fdset' = {} /\ pc = "files" /\ pc' \in {"select", "idle"}
        /\ Live' = Live /\ UNCHANGED handleVars
    BY <1>10 DEF FilesDone, LoopOrExit, ringVars, Live
  <2>2. PICK P : Passed(P)
    BY <2>1 DEF PromiseInv, PassInv, InPass
  <2>3. \A h \in Live : ~isAwaitingEvents[h]
    BY <1>0, <2>1, <2>2, PassEverywhere DEF Passed
  <2>4. \A h \in Handles : ~isAwaitingEvents[h]
    BY <2>3 DEF PromiseInv, Cleared
  <2>5. Reported = {}
    BY <2>4 DEF Reported
  <2>6. Reported' = {}
    BY <2>1 DEF Reported
  <2>7. CallbackRuns' = CallbackRuns
    BY <2>1 DEF CallbackRuns
  <2> QED BY <2>1, <2>5, <2>6, <2>7 DEF Shown, handleVars
<1> DEFINE Goal == Promised!CallbackReturns \/ UNCHANGED Shown
<1>11. ASSUME NEW t \in TimerIds,
              TimerDeregister(t) \/ \E deadline \in 0..MaxTime : TimerRegister(t, deadline)
       PROVE  Goal
  BY <1>11, OtherStepImplements DEF TimerRegister, TimerDeregister, CallbackRuns
<1>12. CASE RunLoopStop \/ RunLoopRun \/ Tick
  <2>1. Goal
    BY <1>12, OtherStepImplements DEF RunLoopStop, RunLoopRun, Tick, CallbackRuns
  <2> QED BY <2>1 DEF Promised!Next
<1>13. CASE FireExpiredTimer \/ TimerCallbackReturns \/ TimersDone \/ FileCallbackReturns
  <2>1. Goal
    BY <1>13, OtherStepImplements DEF FireExpiredTimer, TimerCallbackReturns, TimersDone,
       FileCallbackReturns, CallbackRuns
  <2> QED BY <2>1 DEF Promised!Next
<1>14. CASE InvokeStopCallback \/ InvokeCallback \/ LoopbackCallbackReturns \/ LoopbackDone
  <2>1. Goal
    BY <1>14, OtherStepImplements DEF InvokeStopCallback, InvokeCallback,
       LoopbackCallbackReturns, LoopbackDone, CallbackRuns
  <2> QED BY <2>1 DEF Promised!Next
<1>15. CASE RunLoopRequestStop \/ \E size \in 0..(MaxContext + 1) : RunLoopScheduleCallback(size)
  <2>1. Goal
    BY <1>15, OtherStepImplements DEF RunLoopRequestStop, RunLoopScheduleCallback, Send,
       SocketFails, CallbackRuns
  <2> QED BY <2>1 DEF Promised!Next
<1>16. CASE UNCHANGED vars
  <2>1. Goal
    BY <1>16, OtherStepImplements DEF vars, CallbackRuns
  <2> QED BY <2>1 DEF Promised!Next
<1> QED
  BY <1>1, <1>2, <1>3, <1>4, <1>5, <1>6, <1>7, <1>8, <1>9, <1>10, <1>11, <1>12, <1>13,
     <1>14, <1>15, <1>16
  DEF Next, ApiCall, LoopStep, Promised!Next

\* However callbacks register and deregister file handles, and whatever
\* other tasks send, the run loop is what HAPPlatformFileHandle.h promises:
\* each reported event is handed over once, to the live handle it is for and
\* that still waits for it, or dropped, and none is left for the next select.
THEOREM FileHandlePromisesKept == Spec => KeepsFileHandlePromises
<1>1. Init => HandlesTyped
  BY DEF Init, HandlesTyped
<1>2. Spec => [](RingInv /\ HandlesTyped /\ PromiseInv)
  BY <1>1, RingInit, RingStep, HandlesStep, PromiseInit, PromiseStep, PTL DEF Spec
<1>3. Init => Promised!Init
  <2> SUFFICES ASSUME Init PROVE Promised!Init
    OBVIOUS
  <2>1. Live = {} /\ Reported = {}
    BY NodesAssumption DEF Init, Live, Nodes, Reported
  <2>2. CallbackRuns = FALSE
    BY DEF Init, CallbackRuns
  <2> QED BY <2>1, <2>2 DEF Init, Promised!Init
<1>4. UNCHANGED Shown => UNCHANGED Promised!vars
  BY DEF Shown, Promised!vars
<1> QED
  BY <1>2, <1>3, <1>4, Implements, PTL
  DEF Spec, KeepsFileHandlePromises, Promised!Spec, Promised!vars, Shown
=============================================================================
