------------------------------ MODULE RunLoop ------------------------------
(***************************************************************************)
(* HAPPlatformRunLoop.c: the main task's run loop.  It keeps a ring of     *)
(* file handles and a sorted list of timers, waits in select, fires the    *)
(* timers that are due, hands the reported events to the file handles, and *)
(* runs callbacks that other tasks send it as datagrams to its loopback    *)
(* socket.                                                                 *)
(*                                                                         *)
(* Callbacks call back into the run loop: while one runs (pc ends in       *)
(* "Callback") it may register and deregister handles and timers.  Other   *)
(* tasks only send datagrams; everything else happens on the main task.    *)
(***************************************************************************)
EXTENDS Integers, Sequences, FiniteSets

CONSTANTS
  Handles,      \* heap addresses for file handles
  Sentinel,     \* the ring's sentinel node, &runLoop.fileHandleSentinel
  Null,         \* the null pointer
  Fds,          \* descriptors of the sockets of the run loop's users
  LoopbackFd,   \* descriptor of the loopback socket
  NoFd,         \* the descriptor -1
  Kinds,        \* kinds of events a handle may wait for
  TimerIds,     \* heap addresses for timers
  MaxTime,      \* bound on the clock and on deadlines
  MaxContext,   \* the largest callback context, UINT8_MAX
  DatagramCap,  \* datagrams the loopback socket can hold
  ExpiredReregistration \* whether a timer's callback may register a timer
                        \* that is already due

ASSUME NodesAssumption ==
  /\ Sentinel \notin Handles
  /\ Null \notin Handles \cup {Sentinel} \cup TimerIds
  /\ LoopbackFd \notin Fds
  /\ NoFd \notin Fds \cup {LoopbackFd}

ASSUME BoundsAssumption ==
  /\ "read" \in Kinds
  /\ MaxTime \in Nat
  /\ MaxContext \in Nat
  /\ DatagramCap \in Nat
  /\ ExpiredReregistration \in BOOLEAN

VARIABLES
  next, prev,             \* the ring of file handles
  fileDescriptor, interests, callback, isAwaitingEvents,  \* of each handle
  fileHandleCursor,       \* where ProcessSelectedFileHandles has got to
  fdset,                  \* <<descriptor, kind>> pairs that select reported
  timers,                 \* timers in order of deadline
  expiredTimer,           \* the timer whose callback is running
  registeredBefore,       \* history: pairs of live timers, in order of registration
  clock,                  \* HAPPlatformClockGetCurrent()
  now,                    \* the reading ProcessExpiredTimers works with
  loopbackFileDescriptor, loopbackFileHandle,
  loopbackBytes,          \* the first numLoopbackBytes of the buffer
  contextSize,            \* context size of the callback being invoked
  datagrams,              \* what the loopback socket holds
  state,                  \* runLoop.state
  pc                      \* where the main task is

ringVars == <<next, prev>>
handleVars == <<fileDescriptor, interests, callback, isAwaitingEvents>>
timerVars == <<timers, expiredTimer, registeredBefore>>
timeVars == <<clock, now>>
loopbackVars == <<loopbackFileDescriptor, loopbackFileHandle>>
bufferVars == <<loopbackBytes, contextSize>>
vars == <<ringVars, handleVars, fileHandleCursor, fdset, timerVars, timeVars,
          loopbackVars, bufferVars, datagrams, state, pc>>

Nodes == Handles \cup {Sentinel}
Callbacks == {"timerCallback", "fileCallback", "loopbackCallback"}
Locations == Callbacks \cup {"idle", "select", "timers", "files", "loopback", "fatal"}
States == {"Idle", "Running", "Stopping"}
AllFds == Fds \cup {LoopbackFd}

\* Bytes travel as tokens: a header, which stands for the callback's address
\* and the size of its context, and one token per byte of context.
Header(cb, size) == [cb |-> cb, size |-> size]
ContextByte == [cb |-> "context", size |-> 0]
Serialized(cb, size) == <<Header(cb, size)>> \o [i \in 1..size |-> ContextByte]
LoopbackCapacity == 1 + MaxContext
Tokens == [cb : {"stop", "app", "context"}, size : 0..MaxContext]

Live == {h \in Handles : next[h] # Null}
Registered(fd) == \E h \in Live : fileDescriptor[h] = fd
TimerSet == {timers[i].id : i \in DOMAIN timers}

Init ==
  /\ next = [n \in Nodes |-> IF n = Sentinel THEN Sentinel ELSE Null]
  /\ prev = [n \in Nodes |-> IF n = Sentinel THEN Sentinel ELSE Null]
  /\ fileDescriptor = [h \in Handles |-> NoFd]
  /\ interests = [h \in Handles |-> {}]
  /\ callback = [h \in Handles |-> FALSE]
  /\ isAwaitingEvents = [h \in Handles |-> FALSE]
  /\ fileHandleCursor = Sentinel
  /\ fdset = {}
  /\ timers = <<>>
  /\ expiredTimer = Null
  /\ registeredBefore = {}
  /\ clock = 0
  /\ now = 0
  /\ loopbackFileDescriptor = NoFd
  /\ loopbackFileHandle = Null
  /\ loopbackBytes = <<>>
  /\ contextSize = 0
  /\ datagrams = <<>>
  /\ state = "Idle"
  /\ pc = "idle"

-----------------------------------------------------------------------------
(* File handles *)

\* The run loop's API is called between runs and from callbacks.
MayCall == loopbackFileDescriptor # NoFd /\ pc \in Callbacks \cup {"idle"}

\* A new handle is linked in before the sentinel, at the end of the ring,
\* zeroed memory filled in.
Link(h, fd, kinds, hasCallback) ==
  /\ next' = [next EXCEPT ![prev[Sentinel]] = h, ![h] = Sentinel]
  /\ prev' = [prev EXCEPT ![h] = prev[Sentinel], ![Sentinel] = h]
  /\ fileDescriptor' = [fileDescriptor EXCEPT ![h] = fd]
  /\ interests' = [interests EXCEPT ![h] = kinds]
  /\ callback' = [callback EXCEPT ![h] = hasCallback]
  /\ isAwaitingEvents' = [isAwaitingEvents EXCEPT ![h] = FALSE]

\* Mutant: the cursor is read from the handle after its links are cleared.
ClearedCursor(h) == IF h = fileHandleCursor THEN Null ELSE fileHandleCursor

\* Mutant: the cursor is not moved off the handle that goes away.
StuckCursor(h) == fileHandleCursor

\* Mutant: the pass ends when the handle under the cursor goes away.
PassEnds(h) == IF h = fileHandleCursor THEN Sentinel ELSE fileHandleCursor

CursorWithout(h) == IF h = fileHandleCursor THEN next[h] ELSE fileHandleCursor

Unlink(h) ==
  /\ fileHandleCursor' = CursorWithout(h)
  /\ next' = [next EXCEPT ![prev[h]] = next[h], ![h] = Null]
  /\ prev' = [prev EXCEPT ![next[h]] = prev[h], ![h] = Null]
  /\ fileDescriptor' = [fileDescriptor EXCEPT ![h] = NoFd]
  /\ interests' = [interests EXCEPT ![h] = {}]
  /\ callback' = [callback EXCEPT ![h] = FALSE]
  /\ isAwaitingEvents' = [isAwaitingEvents EXCEPT ![h] = FALSE]

\* "The platform-specific file descriptor must not already be registered."
\* When the heap has no room left, nothing changes and the caller is told.
FileHandleRegister(h, fd, kinds, hasCallback) ==
  /\ MayCall
  /\ h \notin Live
  /\ ~Registered(fd)
  /\ Link(h, fd, kinds, hasCallback)
  /\ UNCHANGED <<fileHandleCursor, fdset, timerVars, timeVars, loopbackVars,
                 bufferVars, datagrams, state, pc>>

FileHandleUpdateInterests(h, kinds, hasCallback) ==
  /\ MayCall
  /\ h \in Live \ {loopbackFileHandle}
  /\ interests' = [interests EXCEPT ![h] = kinds]
  /\ callback' = [callback EXCEPT ![h] = hasCallback]
  /\ UNCHANGED <<ringVars, fileDescriptor, isAwaitingEvents, fileHandleCursor,
                 fdset, timerVars, timeVars, loopbackVars, bufferVars,
                 datagrams, state, pc>>

FileHandleDeregister(h) ==
  /\ MayCall
  /\ h \in Live \ {loopbackFileHandle}
  /\ Unlink(h)
  /\ UNCHANGED <<fdset, timerVars, timeVars, loopbackVars, bufferVars,
                 datagrams, state, pc>>

-----------------------------------------------------------------------------
(* Timers *)

\* The search of TimerRegister for the first timer that is due after
\* deadline: the new timer goes in before it, or at the end.
\* Mutant: the search stops at equal deadlines too.
EagerInsertionPoint(deadline, k) ==
  /\ \A j \in 1..(k - 1) : timers[j].deadline < deadline
  /\ k <= Len(timers) => timers[k].deadline >= deadline

\* Mutant: the comparison is the wrong way round.
ReversedInsertionPoint(deadline, k) ==
  /\ \A j \in 1..(k - 1) : timers[j].deadline >= deadline
  /\ k <= Len(timers) => timers[k].deadline < deadline

InsertionPoint(deadline, k) ==
  /\ \A j \in 1..(k - 1) : timers[j].deadline <= deadline
  /\ k <= Len(timers) => timers[k].deadline > deadline

Inserted(s, k, e) ==
  [j \in 1..(Len(s) + 1) |-> IF j < k THEN s[j] ELSE IF j = k THEN e ELSE s[j - 1]]
Removed(s, k) == [j \in 1..(Len(s) - 1) |-> IF j < k THEN s[j] ELSE s[j + 1]]
Without(t) == {p \in registeredBefore : p[1] # t /\ p[2] # t}

\* A deadline of 0 is stored as 1, but the list is searched for the 0.
TimerRegister(t, deadline) ==
  /\ MayCall
  /\ t \notin TimerSet \cup {expiredTimer}
  /\ pc = "timerCallback" /\ ~ExpiredReregistration => deadline > now
  /\ \E k \in 1..(Len(timers) + 1) :
       /\ InsertionPoint(deadline, k)
       /\ timers' = Inserted(timers, k,
                      [id |-> t, deadline |-> IF deadline = 0 THEN 1 ELSE deadline,
                       requested |-> deadline])
  /\ registeredBefore' = registeredBefore \cup TimerSet \X {t}
  /\ UNCHANGED <<ringVars, handleVars, fileHandleCursor, fdset, expiredTimer,
                 timeVars, loopbackVars, bufferVars, datagrams, state, pc>>

\* Callers deregister timers that have not fired; any other timer is not
\* found and stops the firmware.
TimerDeregister(t) ==
  /\ MayCall
  /\ \E k \in DOMAIN timers : timers[k].id = t /\ timers' = Removed(timers, k)
  /\ registeredBefore' = Without(t)
  /\ UNCHANGED <<ringVars, handleVars, fileHandleCursor, fdset, expiredTimer,
                 timeVars, loopbackVars, bufferVars, datagrams, state, pc>>

\* Mutant: a timer fires in the millisecond before its deadline.
EarlyHeadExpired == timers # <<>> /\ timers[1].deadline <= now + 1

HeadExpired == timers # <<>> /\ timers[1].deadline <= now

\* The timer leaves the list before its callback runs.
FireExpiredTimer ==
  /\ pc = "timers"
  /\ HeadExpired
  /\ timers' = Tail(timers)
  /\ expiredTimer' = timers[1].id
  /\ registeredBefore' = Without(timers[1].id)
  /\ pc' = "timerCallback"
  /\ UNCHANGED <<ringVars, handleVars, fileHandleCursor, fdset, timeVars,
                 loopbackVars, bufferVars, datagrams, state>>

TimerCallbackReturns ==
  /\ pc = "timerCallback"
  /\ expiredTimer' = Null
  /\ pc' = "timers"
  /\ UNCHANGED <<ringVars, handleVars, fileHandleCursor, fdset, timers,
                 registeredBefore, timeVars, loopbackVars, bufferVars,
                 datagrams, state>>

TimersDone ==
  /\ pc = "timers"
  /\ ~HeadExpired
  /\ fileHandleCursor' = next[Sentinel]
  /\ pc' = "files"
  /\ UNCHANGED <<ringVars, handleVars, fdset, timerVars, timeVars,
                 loopbackVars, bufferVars, datagrams, state>>

-----------------------------------------------------------------------------
(* Creation, release and the loop itself *)

\* Registering the loopback handle fails, fatally, when the heap is full;
\* what else is on the heap is not modelled, so that may be any time.
RunLoopCreate ==
  /\ pc = "idle"
  /\ loopbackFileDescriptor = NoFd
  /\ \/ \E h \in Handles \ Live :
          /\ Link(h, LoopbackFd, {"read"}, TRUE)
          /\ loopbackFileHandle' = h
          /\ loopbackFileDescriptor' = LoopbackFd
          /\ state' = "Idle"
          /\ UNCHANGED pc
     \/ /\ loopbackFileDescriptor' = LoopbackFd
        /\ pc' = "fatal"
        /\ UNCHANGED <<ringVars, handleVars, loopbackFileHandle, state>>
  /\ UNCHANGED <<fileHandleCursor, fdset, timerVars, timeVars, bufferVars, datagrams>>

\* Closing the socket discards what it holds.
RunLoopRelease ==
  /\ pc = "idle"
  /\ loopbackFileDescriptor # NoFd
  /\ datagrams' = <<>>
  /\ loopbackFileDescriptor' = NoFd
  /\ Unlink(loopbackFileHandle)
  /\ loopbackFileHandle' = Null
  /\ state' = "Idle"
  /\ UNCHANGED <<fdset, timerVars, timeVars, bufferVars, pc>>

RunLoopRun ==
  /\ pc = "idle"
  /\ loopbackFileDescriptor # NoFd
  /\ state = "Idle"
  /\ state' = "Running"
  /\ pc' = "select"
  /\ UNCHANGED <<ringVars, handleVars, fileHandleCursor, fdset, timerVars,
                 timeVars, loopbackVars, bufferVars, datagrams>>

\* What the scan at the top of the loop asks select about.
Polled ==
  UNION {{fileDescriptor[h]} \X interests[h] : h \in {g \in Live : fileDescriptor[g] # NoFd}}
Awaits(h) == h \in Live /\ fileDescriptor[h] # NoFd /\ interests[h] # {}
MarkAwaiting == isAwaitingEvents' = [h \in Handles |-> Awaits(h)]

\* The loopback socket is readable when it holds a datagram.
LoopbackReady == {p \in Polled : p[1] = LoopbackFd /\ datagrams # <<>>}

\* Mutant: the time left until a deadline in the past wraps around.
WrappingTimeoutElapsed == timers # <<>> /\ timers[1].deadline = clock

TimeoutElapsed == timers # <<>> /\ timers[1].deadline <= clock

\* The scan, the wait, and the clock reading of ProcessExpiredTimers.
Select ==
  /\ pc = "select"
  /\ MarkAwaiting
  /\ \E ready \in SUBSET {p \in Polled : p[1] # LoopbackFd} :
       /\ ready \cup LoopbackReady # {} \/ TimeoutElapsed
       /\ fdset' = ready \cup LoopbackReady
  /\ now' = clock
  /\ pc' = "timers"
  /\ UNCHANGED <<ringVars, fileDescriptor, interests, callback,
                 fileHandleCursor, timerVars, clock, loopbackVars, bufferVars,
                 datagrams, state>>

\* EINTR: the loop goes round again.
SelectInterrupted ==
  /\ pc = "select"
  /\ MarkAwaiting
  /\ UNCHANGED <<ringVars, fileDescriptor, interests, callback,
                 fileHandleCursor, fdset, timerVars, timeVars, loopbackVars,
                 bufferVars, datagrams, state, pc>>

SelectFails ==
  /\ pc = "select"
  /\ MarkAwaiting
  /\ pc' = "fatal"
  /\ UNCHANGED <<ringVars, fileDescriptor, interests, callback,
                 fileHandleCursor, fdset, timerVars, timeVars, loopbackVars,
                 bufferVars, datagrams, state>>

-----------------------------------------------------------------------------
(* ProcessSelectedFileHandles *)

\* The events reported for h that h is interested in now.
Events(h) == {k \in interests[h] : <<fileDescriptor[h], k>> \in fdset}
Dispatchable(h) == isAwaitingEvents[h] /\ callback[h] /\ Events(h) # {}

\* The cursor is past h before anything is called.
StepOver(h) ==
  /\ fileHandleCursor' = next[h]
  /\ isAwaitingEvents' = [isAwaitingEvents EXCEPT ![h] = FALSE]

SkipFileHandle(h) ==
  /\ pc = "files"
  /\ h = fileHandleCursor
  /\ ~Dispatchable(h)
  /\ StepOver(h)
  /\ UNCHANGED <<ringVars, fileDescriptor, interests, callback, fdset,
                 timerVars, timeVars, loopbackVars, bufferVars, datagrams,
                 state, pc>>

DispatchFileHandle(h) ==
  /\ pc = "files"
  /\ h = fileHandleCursor
  /\ Dispatchable(h)
  /\ h # loopbackFileHandle
  /\ StepOver(h)
  /\ pc' = "fileCallback"
  /\ UNCHANGED <<ringVars, fileDescriptor, interests, callback, fdset,
                 timerVars, timeVars, loopbackVars, bufferVars, datagrams,
                 state>>

FileCallbackReturns ==
  /\ pc = "fileCallback"
  /\ pc' = "files"
  /\ UNCHANGED <<ringVars, handleVars, fileHandleCursor, fdset, timerVars,
                 timeVars, loopbackVars, bufferVars, datagrams, state>>

\* HandleLoopbackFileHandleCallback receives one datagram behind whatever
\* the buffer still holds.  The socket is readable, so recv does not fail.
HandleLoopback(h) ==
  /\ pc = "files"
  /\ h = fileHandleCursor
  /\ Dispatchable(h)
  /\ h = loopbackFileHandle
  /\ StepOver(h)
  /\ datagrams # <<>>
  /\ datagrams' = Tail(datagrams)
  /\ LET room == LoopbackCapacity - Len(loopbackBytes)
         d == Head(datagrams)
     IN loopbackBytes' = loopbackBytes \o SubSeq(d, 1, IF Len(d) < room THEN Len(d) ELSE room)
  /\ pc' = "loopback"
  /\ UNCHANGED <<ringVars, fileDescriptor, interests, callback, fdset,
                 timerVars, timeVars, loopbackVars, contextSize, state>>

\* The parse loop goes on while a header and its whole context are there.
CallbackReady == loopbackBytes # <<>> /\ Len(loopbackBytes) >= 1 + Head(loopbackBytes).size

\* Mutant: the context is left in the buffer after its callback.
ContextKept(bytes, size) == bytes

ContextDropped(bytes, size) == SubSeq(bytes, size + 1, Len(bytes))

\* The stop callback is part of the run loop, other callbacks are not.
InvokeStopCallback ==
  /\ pc = "loopback"
  /\ CallbackReady
  /\ Head(loopbackBytes).cb = "stop"
  /\ loopbackBytes' = ContextDropped(Tail(loopbackBytes), Head(loopbackBytes).size)
  /\ state' = IF state = "Running" THEN "Stopping" ELSE state
  /\ UNCHANGED <<ringVars, handleVars, fileHandleCursor, fdset, timerVars,
                 timeVars, loopbackVars, contextSize, datagrams, pc>>

InvokeCallback ==
  /\ pc = "loopback"
  /\ CallbackReady
  /\ Head(loopbackBytes).cb = "app"
  /\ contextSize' = Head(loopbackBytes).size
  /\ loopbackBytes' = Tail(loopbackBytes)
  /\ pc' = "loopbackCallback"
  /\ UNCHANGED <<ringVars, handleVars, fileHandleCursor, fdset, timerVars,
                 timeVars, loopbackVars, datagrams, state>>

LoopbackCallbackReturns ==
  /\ pc = "loopbackCallback"
  /\ loopbackBytes' = ContextDropped(loopbackBytes, contextSize)
  /\ contextSize' = 0
  /\ pc' = "loopback"
  /\ UNCHANGED <<ringVars, handleVars, fileHandleCursor, fdset, timerVars,
                 timeVars, loopbackVars, datagrams, state>>

LoopbackDone ==
  /\ pc = "loopback"
  /\ ~CallbackReady
  /\ pc' = "files"
  /\ UNCHANGED <<ringVars, handleVars, fileHandleCursor, fdset, timerVars,
                 timeVars, loopbackVars, bufferVars, datagrams, state>>

\* Mutant: a stop that comes in during the pass is not looked at.
LoopForever == /\ pc' = "select" /\ UNCHANGED state

\* The loop's condition: round again, or out of HAPPlatformRunLoopRun.
LoopOrExit ==
  /\ pc' = IF state = "Running" THEN "select" ELSE "idle"
  /\ state' = IF state = "Running" THEN state ELSE "Idle"

FilesDone ==
  /\ pc = "files"
  /\ fileHandleCursor = Sentinel
  /\ fdset' = {}
  /\ LoopOrExit
  /\ UNCHANGED <<ringVars, handleVars, fileHandleCursor, timerVars, timeVars,
                 loopbackVars, bufferVars, datagrams>>

-----------------------------------------------------------------------------
(* Stopping, other tasks, time *)

RunLoopStop ==
  /\ MayCall
  /\ state = "Running"
  /\ state' = "Stopping"
  /\ UNCHANGED <<ringVars, handleVars, fileHandleCursor, fdset, timerVars,
                 timeVars, loopbackVars, bufferVars, datagrams, pc>>

\* Any task may send at any time.  A datagram that finds no socket or no
\* room is lost, and its sender is not told: nothing changes.
Send(cb, size) ==
  /\ pc # "fatal"
  /\ loopbackFileDescriptor # NoFd
  /\ Len(datagrams) < DatagramCap
  /\ datagrams' = Append(datagrams, Serialized(cb, size))
  /\ UNCHANGED <<ringVars, handleVars, fileHandleCursor, fdset, timerVars,
                 timeVars, loopbackVars, bufferVars, state, pc>>

\* A task that cannot create its socket gives up on the whole firmware.
SocketFails ==
  /\ pc # "fatal"
  /\ pc' = "fatal"
  /\ UNCHANGED <<ringVars, handleVars, fileHandleCursor, fdset, timerVars,
                 timeVars, loopbackVars, bufferVars, datagrams, state>>

\* A context that is too large is refused.
RunLoopScheduleCallback(size) ==
  size <= MaxContext /\ (Send("app", size) \/ SocketFails)

\* RequestStop gives up as well when it cannot send.
RunLoopRequestStop == Send("stop", 0) \/ SocketFails

Tick ==
  /\ pc # "fatal"
  /\ clock < MaxTime
  /\ clock' = clock + 1
  /\ UNCHANGED <<ringVars, handleVars, fileHandleCursor, fdset, timerVars, now,
                 loopbackVars, bufferVars, datagrams, state, pc>>

-----------------------------------------------------------------------------
ApiCall ==
  \/ \E h \in Handles, kinds \in SUBSET Kinds, hasCallback \in BOOLEAN :
       \/ \E fd \in Fds : FileHandleRegister(h, fd, kinds, hasCallback)
       \/ FileHandleUpdateInterests(h, kinds, hasCallback)
  \/ \E h \in Handles : FileHandleDeregister(h)
  \/ \E t \in TimerIds, deadline \in 0..MaxTime : TimerRegister(t, deadline)
  \/ \E t \in TimerIds : TimerDeregister(t)
  \/ RunLoopStop

\* The steps of HAPPlatformRunLoopRun, the returns of callbacks included.
LoopStep ==
  \/ Select
  \/ FireExpiredTimer
  \/ TimerCallbackReturns
  \/ TimersDone
  \/ \E h \in Handles : SkipFileHandle(h) \/ DispatchFileHandle(h) \/ HandleLoopback(h)
  \/ FileCallbackReturns
  \/ InvokeStopCallback
  \/ InvokeCallback
  \/ LoopbackCallbackReturns
  \/ LoopbackDone
  \/ FilesDone

Next ==
  \/ ApiCall
  \/ LoopStep
  \/ SelectInterrupted
  \/ SelectFails
  \/ RunLoopCreate
  \/ RunLoopRelease
  \/ RunLoopRun
  \/ \E size \in 0..(MaxContext + 1) : RunLoopScheduleCallback(size)
  \/ RunLoopRequestStop
  \/ Tick

Spec == Init /\ [][Next]_vars

\* The main task runs whenever it can and its callbacks return.
FairSpec == Spec /\ WF_vars(LoopStep)

-----------------------------------------------------------------------------
(* Properties *)

TypeOK ==
  /\ next \in [Nodes -> Nodes \cup {Null}]
  /\ prev \in [Nodes -> Nodes \cup {Null}]
  /\ fileDescriptor \in [Handles -> AllFds \cup {NoFd}]
  /\ interests \in [Handles -> SUBSET Kinds]
  /\ callback \in [Handles -> BOOLEAN]
  /\ isAwaitingEvents \in [Handles -> BOOLEAN]
  /\ fileHandleCursor \in Nodes
  /\ fdset \subseteq AllFds \X Kinds
  /\ timers \in Seq([id : TimerIds, deadline : Nat, requested : Nat])
  /\ expiredTimer \in TimerIds \cup {Null}
  /\ registeredBefore \subseteq TimerIds \X TimerIds
  /\ clock \in Nat
  /\ now \in Nat
  /\ loopbackFileDescriptor \in {LoopbackFd, NoFd}
  /\ loopbackFileHandle \in Handles \cup {Null}
  /\ loopbackBytes \in Seq(Tokens)
  /\ contextSize \in 0..MaxContext
  /\ datagrams \in Seq(Seq(Tokens))
  /\ state \in States
  /\ pc \in Locations

\* The ring is doubly linked: the neighbours of a node point back at it.
RingLinked ==
  /\ next[Sentinel] # Null
  /\ \A n \in Nodes : next[n] # Null <=> prev[n] # Null
  /\ \A n \in Nodes : next[n] # Null =>
       /\ next[next[n]] # Null /\ prev[next[n]] = n
       /\ next[prev[n]] # Null /\ next[prev[n]] = n

\* However callbacks change the ring during a pass, the cursor is the
\* sentinel or a handle that is still registered, never freed memory.
CursorRegistered == next[fileHandleCursor] # Null

\* The ring stays one doubly linked cycle through the sentinel: no handle is
\* on a cycle of its own, where the scan and the pass would not reach it.
RingWhole ==
  /\ RingLinked
  /\ CursorRegistered
  /\ \A S \in SUBSET Live : S # {} => \E h \in S : next[h] \notin S

\* Timers are in ascending order of deadline, each registered once; and the
\* timer whose callback runs is not among them.
TimersSorted ==
  /\ \A i, j \in DOMAIN timers : i < j => timers[i].deadline <= timers[j].deadline
  /\ \A i, j \in DOMAIN timers : timers[i].id = timers[j].id => i = j
  /\ expiredTimer \notin TimerSet

\* Timers registered with the same deadline are in the order of registration,
\* in which they will fire (the comment in TimerRegister); not so those of
\* deadline 0, which the code puts in the reverse order.
TimersFirstComeFirstServed ==
  \A i, j \in DOMAIN timers :
    i < j /\ timers[i].requested = timers[j].requested /\ timers[i].requested > 0
      => <<timers[i].id, timers[j].id>> \in registeredBefore

\* A timer fires when it is due and no live timer is due before it, however
\* the callbacks before it changed the list.
FiresInTurn ==
  \A t \in TimerIds : expiredTimer # t /\ expiredTimer' = t =>
    \E i \in DOMAIN timers :
      /\ timers[i].id = t
      /\ timers[i].deadline <= clock
      /\ \A j \in DOMAIN timers : timers[i].deadline <= timers[j].deadline
EarliestFiresWhenDue == [][FiresInTurn]_vars

\* A callback's address is always read from a header, never from the context
\* left by another, and outside the loopback handler the buffer is empty, so
\* that the largest datagram fits.
LoopbackFraming ==
  /\ pc = "loopback" /\ loopbackBytes # <<>> =>
       /\ Head(loopbackBytes).cb # "context"
       /\ CallbackReady
  /\ pc \notin {"loopback", "loopbackCallback", "fatal"} => loopbackBytes = <<>>

\* The events that were reported to a handle and that it still waits for in
\* this pass, and whether the pass is inside a handle's callback.
Reported ==
  {e \in Handles \X Kinds : isAwaitingEvents[e[1]] /\ <<fileDescriptor[e[1]], e[2]>> \in fdset}
CallbackRuns == pc \in {"fileCallback", "loopback", "loopbackCallback"}

\* The run loop keeps the promises of HAPPlatformFileHandle.h.
Promised == INSTANCE FileHandles WITH
  Fds <- AllFds, live <- Live, reported <- Reported, running <- CallbackRuns
KeepsFileHandlePromises == Promised!Spec

\* A stop request that reached the socket ends the run.
StopPending == \E i \in DOMAIN datagrams : datagrams[i][1].cb = "stop"
StopEndsTheRun ==
  (state = "Running" /\ StopPending) ~> (state = "Idle" \/ pc = "fatal")

\* A timer that is due while the loop runs fires or is deregistered, or the
\* loop ends.
Due(t) == \E i \in DOMAIN timers : timers[i].id = t /\ timers[i].deadline <= clock
DueTimersFire ==
  \A t \in TimerIds :
    (state = "Running" /\ Due(t)) ~> (t \notin TimerSet \/ state = "Idle" \/ pc = "fatal")
=============================================================================
